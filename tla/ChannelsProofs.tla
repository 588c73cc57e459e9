----------------------------- MODULE ChannelsProofs -----------------------------
(* The capture channels recognise what they see again, and lose nothing, for *)
(* any number of files, names, threads, updates, failures and restarts; and  *)
(* the chat page never tells less of a message than what became of it, and   *)
(* follows the turn once all that was sent to it has arrived.                *)
EXTENDS Channels, HermesChat, SequenceTheorems, FiniteSetTheorems, TLAPS

(* No two files the sender drops have one name: a name that is used again    *)
(* while a task of its first file runs has that task act on the second.      *)
DistinctNames == \A f, g \in Files : Name[f] = Name[g] => f = g

-----------------------------------------------------------------------------
(* Captures *)

TablesInv == CaptureTypeOK /\ OneSubmission

(* What has a submission keeps it.                                           *)
SubmissionsStay == \A o \in Occurrences : submissions[o] > 0 => submissions'[o] > 0

LEMMA CapturedOnce ==
    ASSUME TablesInv, NEW o \in Occurrences, Captured(o), UNCHANGED processVars
    PROVE  TablesInv' /\ SubmissionsStay /\ submissions'[o] > 0
<1>1. submissions \in [Occurrences -> 0..2] /\ \A p \in Occurrences : submissions[p] <= 1
  BY DEF TablesInv, CaptureTypeOK, OneSubmission
<1>2. CASE submissions[o] > 0
  BY <1>1, <1>2
  DEF Captured, Replayed, TablesInv, CaptureTypeOK, OneSubmission, SubmissionsStay, processVars
<1>3. CASE submissions[o] = 0
  <2>1. submissions' = [submissions EXCEPT ![o] = 1]
    BY <1>1, <1>3 DEF Captured, Replayed
  <2>2. /\ submissions' \in [Occurrences -> 0..2] /\ \A p \in Occurrences : submissions'[p] <= 1
        /\ SubmissionsStay /\ submissions'[o] > 0
    BY <1>1, <2>1 DEF SubmissionsStay
  <2>3. unlinked' \subseteq {p \in Occurrences : submissions'[p] > 0}
    BY <2>2 DEF Captured, TablesInv, CaptureTypeOK, SubmissionsStay
  <2> QED BY <2>2, <2>3 DEF Captured, TablesInv, CaptureTypeOK, OneSubmission, processVars
<1> QED BY <1>1, <1>2, <1>3

LEMMA TablesStay ==
    ASSUME TablesInv, UNCHANGED captureTables, up' \in BOOLEAN,
           restarts' \in 0..MaxRestarts, removals' \in 0..MaxRemovals
    PROVE  TablesInv' /\ SubmissionsStay
  BY DEF captureTables, TablesInv, CaptureTypeOK, OneSubmission, SubmissionsStay

LEMMA RemovalKeeps ==
    ASSUME TablesInv, NEW c \in documents, RemoveDocument(c)
    PROVE  TablesInv' /\ SubmissionsStay
<1>1. removals' \in 0..MaxRemovals
  BY ChannelAssumption DEF RemoveDocument, TablesInv, CaptureTypeOK
<1> QED BY <1>1
    DEF RemoveDocument, TablesInv, CaptureTypeOK, OneSubmission, SubmissionsStay

-----------------------------------------------------------------------------
(* The inbox *)

OneOccupant ==
    \A f, g \in Files :
        place[f] = "inbox" /\ place[g] = "inbox" /\ Name[f] = Name[g] => f = g

(* A thread captures a file it has read.                                     *)
HasRead == \A t \in Threads : thread[t].pc = "capture" => thread[t].file \in Files

(* Somebody is still to try the path: the scan, a task, or a thread that     *)
(* will not take the file for one that grows.                                *)
Tries(th, n) ==
    /\ th.path = n
    /\ \/ th.pc \in {"look", "read", "capture", "move"}
       \/ th.pc = "sample" /\ th.sample = WholeSize

Pending(n) == n \in toScan \/ tasks[n] > 0 \/ \E t \in Threads : Tries(thread[t], n)

(* A whole file that did not fail is waited for.                             *)
Untried(f) == place[f] = "inbox" /\ size[f] = WholeSize /\ raised[f] = 0

Watched == up => \A f \in Files : Untried(f) => Pending(Name[f])

InboxInv ==
    /\ InboxTypeOK
    /\ OneOccupant
    /\ HasRead
    /\ Watched

(* What a thread knows of a file whose name nobody else has.                 *)
Knows(th, f) ==
    th.path = Name[f] =>
        /\ th.pc \in {"read", "capture", "move"} =>
             place[f] # "sender" /\ size[f] = WholeSize
        /\ th.pc = "capture" => th.file = f /\ th.sample = WholeSize
        /\ th.pc = "move" => submissions[Seen(f, TRUE)] > 0

ThreadsKnow == \A t \in Threads, f \in Files : Knows(thread[t], f)

(* The failures of a path are those of its file.                             *)
FailuresAreOwn ==
    \A f \in Files : place[f] \in {"sender", "inbox"} => failures[Name[f]] <= raised[f]

OwnInv ==
    /\ ThreadsKnow
    /\ FailuresAreOwn
    /\ ProcessedIsCaptured
    /\ QuarantineEarned

LEMMA NamesArePaths == \A f \in Files : Name[f] \in Paths
  BY DEF Paths

LEMMA IdleThread == Idle \in ThreadState /\ Idle.pc = "idle"
<1>1. Paths # {}
  BY InboxAssumption DEF Paths
<1>2. (CHOOSE n \in Paths : TRUE) \in Paths
  BY <1>1
<1> QED BY <1>2 DEF Idle, ThreadState, WholeSize

LEMMA OccupantIsThere ==
    ASSUME NEW n, Present(n)
    PROVE  Occupant(n) \in Files /\ Name[Occupant(n)] = n /\ place[Occupant(n)] = "inbox"
<1>1. Occupant(n) \in Occupants(n)
  BY DEF Present, Occupant
<1> QED BY <1>1 DEF Occupants

(* With one occupant of a name, the one there is the one looked up.          *)
LEMMA TheOccupant ==
    ASSUME OneOccupant, NEW f \in Files, place[f] = "inbox"
    PROVE  Present(Name[f]) /\ Occupant(Name[f]) = f
<1>1. f \in Occupants(Name[f])
  BY DEF Occupants
<1>2. Present(Name[f])
  BY <1>1 DEF Present
<1> QED BY <1>2, OccupantIsThere DEF OneOccupant

(* One thread goes on with its path.                                         *)
LEMMA ThreadGoes ==
    ASSUME InboxTypeOK, NEW t \in Threads, NEW r \in ThreadState, Works(t, r)
    PROVE  /\ thread' \in [Threads -> ThreadState]
           /\ thread'[t] = r
           /\ \A s \in Threads \ {t} : thread'[s] = thread[s]
  BY DEF InboxTypeOK, Works

(* A thread that ends its task without an exception leaves nobody waiting:   *)
(* it knew of no whole file under its path.                                  *)
LEMMA IgnoreKeeps ==
    ASSUME InboxInv, up' = up, NEW t \in Threads, Ignore(t),
           ~At(t, "idle"),
           \/ ~Present(Path(t))
           \/ size[Occupant(Path(t))] # WholeSize
           \/ ~Tries(thread[t], Path(t))
    PROVE  InboxInv'
<1>1. /\ thread' \in [Threads -> ThreadState] /\ thread'[t] = Idle
      /\ \A s \in Threads \ {t} : thread'[s] = thread[s]
  BY ThreadGoes, IdleThread DEF Ignore, InboxInv
<1>2. failures' \in [Paths -> 0..Quarantine]
  <2>1. failures \in [Paths -> 0..Quarantine] /\ 0 \in 0..Quarantine
    BY DEF InboxInv, InboxTypeOK, Quarantine
  <2>2. failures' = [failures EXCEPT ![Path(t)] = 0]
    BY DEF Ignore, ClearFailure
  <2> QED BY <2>1, <2>2
<1>3. InboxTypeOK' /\ OneOccupant'
  BY <1>1, <1>2 DEF Ignore, InboxInv, InboxTypeOK, OneOccupant
<1>4. HasRead'
  BY <1>1, IdleThread DEF InboxInv, HasRead
<1>5. Watched'
  <2> SUFFICES ASSUME up, NEW f \in Files, Untried(f) PROVE Pending(Name[f])'
    BY DEF Ignore, Watched, Untried
  <2>1. Pending(Name[f])
    BY DEF InboxInv, Watched
  <2>2. Present(Name[f]) /\ size[Occupant(Name[f])] = WholeSize
    BY TheOccupant DEF InboxInv, Untried
  <2>3. ~Tries(thread[t], Name[f])
    BY <2>2 DEF Path, Tries
  <2> QED BY <1>1, <2>1, <2>3 DEF Pending, Ignore
<1> QED BY <1>3, <1>4, <1>5 DEF InboxInv

(* A thread that goes on with a file that is there still tries it.           *)
LEMMA TriesOn ==
    ASSUME InboxInv, up' = up, NEW t \in Threads, NEW r \in ThreadState, Works(t, r),
           UNCHANGED <<place, size, tasks, toScan, failures, raised, errors>>,
           r.path = Path(t),
           r.pc = "capture" => r.file \in Files,
           Present(Path(t)) /\ size[Occupant(Path(t))] = WholeSize => Tries(r, Path(t))
    PROVE  InboxInv'
<1>1. /\ thread' \in [Threads -> ThreadState] /\ thread'[t] = r
      /\ \A s \in Threads \ {t} : thread'[s] = thread[s]
  BY ThreadGoes DEF InboxInv
<1>2. InboxTypeOK' /\ OneOccupant'
  BY <1>1 DEF InboxInv, InboxTypeOK, OneOccupant
<1>3. HasRead'
  BY <1>1 DEF InboxInv, HasRead
<1>4. Watched'
  <2> SUFFICES ASSUME up, NEW f \in Files, Untried(f) PROVE Pending(Name[f])'
    BY DEF Watched, Untried
  <2>1. Pending(Name[f])
    BY DEF InboxInv, Watched
  <2>2. Present(Name[f]) /\ size[Occupant(Name[f])] = WholeSize
    BY TheOccupant DEF InboxInv, Untried
  <2>3. CASE Path(t) = Name[f]
    BY <1>1, <2>2, <2>3 DEF Pending
  <2>4. CASE Path(t) # Name[f]
    BY <1>1, <2>1, <2>4 DEF Pending, Path, Tries
  <2> QED BY <2>3, <2>4
<1> QED BY <1>2, <1>3, <1>4 DEF InboxInv

(* A failure is counted for the file that is there.                          *)
LEMMA FailureKeeps ==
    ASSUME InboxInv, up' = up, NEW t \in Threads, RecordFailure(t), errors' \in 0..MaxErrors
    PROVE  InboxInv'
<1> DEFINE n == Path(t)
<1>1. /\ thread' \in [Threads -> ThreadState] /\ thread'[t] = Idle
      /\ \A s \in Threads \ {t} : thread'[s] = thread[s]
  BY ThreadGoes, IdleThread DEF RecordFailure, InboxInv
<1>2. n \in Paths
  BY DEF Path, InboxInv, InboxTypeOK, ThreadState
<1>3. failures' \in [Paths -> 0..Quarantine] /\ raised' \in [Files -> 0..Quarantine]
  BY <1>2 DEF RecordFailure, InboxInv, InboxTypeOK, Quarantine
<1>4. /\ place' \in [Files -> {"sender", "inbox", "processed", "failed"}]
      /\ \A f \in Files : place'[f] = "inbox" => place[f] = "inbox"
  BY DEF RecordFailure, InboxInv, InboxTypeOK
<1>5. \A f \in Files : IF f \in Occupants(n) THEN raised'[f] > 0 ELSE raised'[f] = raised[f]
  BY DEF RecordFailure, InboxInv, InboxTypeOK, Quarantine
<1>6. InboxTypeOK' /\ OneOccupant'
  BY <1>1, <1>3, <1>4 DEF RecordFailure, InboxInv, InboxTypeOK, OneOccupant
<1>7. HasRead'
  BY <1>1, IdleThread DEF InboxInv, HasRead
<1>8. Watched'
  <2> SUFFICES ASSUME up, NEW f \in Files, Untried(f)' PROVE Pending(Name[f])'
    BY DEF Watched
  <2>1. place[f] = "inbox" /\ raised'[f] = 0 /\ size[f] = WholeSize
    BY <1>4 DEF Untried, RecordFailure
  <2>2. f \notin Occupants(n) /\ raised[f] = 0
    BY <1>5, <2>1
  <2>3. Pending(Name[f]) /\ Path(t) # Name[f]
    BY <2>1, <2>2 DEF InboxInv, Watched, Untried, Occupants
  <2> QED BY <1>1, <2>3 DEF Pending, Path, Tries, RecordFailure
<1> QED BY <1>6, <1>7, <1>8 DEF InboxInv

LEMMA TakeKeeps ==
    ASSUME InboxInv, up' = up, NEW n \in Paths, NEW t \in Pool, Take(t, n)
    PROVE  InboxInv'
<1> DEFINE r == [Idle EXCEPT !.pc = "look", !.path = n]
<1>1. r \in ThreadState /\ r.pc = "look" /\ r.path = n /\ t \in Threads
  BY IdleThread DEF ThreadState, Threads
<1>2. /\ thread' \in [Threads -> ThreadState] /\ thread'[t] = r
      /\ \A s \in Threads \ {t} : thread'[s] = thread[s]
  BY <1>1, ThreadGoes DEF Take, InboxInv
<1>3. tasks' \in [Paths -> 0..MaxTasks] /\ \A m \in Paths \ {n} : tasks'[m] = tasks[m]
  BY InboxAssumption DEF Take, InboxInv, InboxTypeOK
<1>4. InboxTypeOK' /\ OneOccupant'
  BY <1>2, <1>3 DEF Take, InboxInv, InboxTypeOK, OneOccupant
<1>5. HasRead'
  BY <1>1, <1>2 DEF InboxInv, HasRead
<1>6. Watched'
  <2> SUFFICES ASSUME up, NEW f \in Files, Untried(f) PROVE Pending(Name[f])'
    BY DEF Take, Watched, Untried
  <2>1. Pending(Name[f]) /\ Name[f] \in Paths
    BY NamesArePaths DEF InboxInv, Watched
  <2>2. CASE Name[f] = n
    BY <1>1, <1>2, <2>2 DEF Pending, Tries
  <2>3. CASE Name[f] # n
    <3>1. thread[t].pc = "idle"
      BY DEF Take, At
    <3> QED BY <1>2, <1>3, <2>1, <2>3, <3>1 DEF Pending, Tries, Take
  <2> QED BY <2>2, <2>3
<1> QED BY <1>4, <1>5, <1>6 DEF InboxInv

LEMMA ScanKeeps ==
    ASSUME InboxInv, up' = up, NEW n \in Paths, ScanNext(n)
    PROVE  InboxInv'
<1> DEFINE r == [Idle EXCEPT !.pc = "look", !.path = n]
<1>1. r \in ThreadState /\ r.pc = "look" /\ r.path = n /\ Scan \in Threads
  BY IdleThread DEF ThreadState, Threads
<1>2. /\ thread' \in [Threads -> ThreadState]
      /\ \A s \in Threads \ {Scan} : thread'[s] = thread[s]
      /\ thread'[Scan] \in {thread[Scan], r}
      /\ Present(n) => thread'[Scan] = r
      /\ thread[Scan].pc = "idle"
  BY <1>1, ThreadGoes DEF ScanNext, At, InboxInv, InboxTypeOK
<1>3. InboxTypeOK' /\ OneOccupant'
  BY <1>2 DEF ScanNext, InboxInv, InboxTypeOK, OneOccupant
<1>4. HasRead'
  BY <1>1, <1>2 DEF InboxInv, HasRead
<1>5. Watched'
  <2> SUFFICES ASSUME up, NEW f \in Files, Untried(f) PROVE Pending(Name[f])'
    BY DEF ScanNext, Watched, Untried
  <2>1. Pending(Name[f]) /\ Present(Name[f])
    BY TheOccupant DEF InboxInv, Watched, Untried
  <2>2. CASE Name[f] = n
    BY <1>1, <1>2, <2>1, <2>2 DEF Pending, Tries
  <2>3. CASE Name[f] # n
    BY <1>2, <2>1, <2>3 DEF Pending, Tries, ScanNext
  <2> QED BY <2>2, <2>3
<1> QED BY <1>3, <1>4, <1>5 DEF InboxInv

LEMMA LookKeeps ==
    ASSUME InboxInv, up' = up, NEW t \in Threads, Look(t)
    PROVE  InboxInv'
<1>1. thread[t] \in ThreadState /\ thread[t].pc = "look"
  BY DEF Look, At, InboxInv, InboxTypeOK
<1>2. CASE Present(Path(t))
  <2> DEFINE r == [thread[t] EXCEPT !.pc = "sample", !.sample = size[Occupant(Path(t))]]
  <2>1. size[Occupant(Path(t))] \in 0..WholeSize
    BY <1>2, OccupantIsThere DEF InboxInv, InboxTypeOK
  <2>2. r \in ThreadState /\ r.pc = "sample" /\ r.path = Path(t)
        /\ r.sample = size[Occupant(Path(t))]
    BY <1>1, <2>1 DEF ThreadState, Path
  <2>3. Works(t, r) /\ UNCHANGED <<place, size, tasks, toScan, failures, raised, errors>>
    BY <1>2 DEF Look
  <2> HIDE DEF r
  <2> QED BY <2>2, <2>3, TriesOn DEF Tries
<1>3. CASE ~Present(Path(t))
  BY <1>1, <1>3, IgnoreKeeps DEF Look, At
<1> QED BY <1>2, <1>3

LEMMA SampleKeeps ==
    ASSUME InboxInv, up' = up, NEW t \in Threads, Sample(t)
    PROVE  InboxInv'
<1>1. thread[t] \in ThreadState /\ thread[t].pc = "sample"
  BY DEF Sample, At, InboxInv, InboxTypeOK
<1>2. ASSUME Works(t, [thread[t] EXCEPT !.pc = "read"]),
             UNCHANGED <<place, size, tasks, toScan, failures, raised, errors>>
      PROVE  InboxInv'
  <2>1. [thread[t] EXCEPT !.pc = "read"] \in ThreadState
        /\ [thread[t] EXCEPT !.pc = "read"].pc = "read"
        /\ [thread[t] EXCEPT !.pc = "read"].path = Path(t)
    BY <1>1 DEF ThreadState, Path
  <2> QED BY <1>2, <2>1, TriesOn DEF Tries
<1>3. ASSUME Present(Path(t)), ~Pausing(t), ~SizeIsStable(t), Ignore(t)
      PROVE  InboxInv'
  <2>1. CASE thread[t].sample = WholeSize
    BY <1>1, <1>3, <2>1, IgnoreKeeps DEF SizeIsStable, At
  <2>2. CASE thread[t].sample # WholeSize
    BY <1>1, <1>3, <2>2, IgnoreKeeps DEF Tries, At
  <2> QED BY <2>1, <2>2
<1>4. ASSUME ~Present(Path(t)), Ignore(t)
      PROVE  InboxInv'
  BY <1>1, <1>4, IgnoreKeeps DEF At
<1> QED BY <1>2, <1>3, <1>4 DEF Sample

LEMMA ReadKeeps ==
    ASSUME InboxInv, up' = up, NEW t \in Threads, Read(t)
    PROVE  InboxInv'
<1>1. thread[t] \in ThreadState /\ thread[t].pc = "read" /\ errors \in 0..MaxErrors
  BY DEF Read, At, InboxInv, InboxTypeOK
<1>2. CASE Present(Path(t))
  <2> DEFINE f == Occupant(Path(t))
             r == [thread[t] EXCEPT !.pc = "capture", !.file = f, !.sample = size[f]]
  <2>1. f \in Files /\ size[f] \in 0..WholeSize
    BY <1>2, OccupantIsThere DEF InboxInv, InboxTypeOK
  <2>2. r \in ThreadState /\ r.pc = "capture" /\ r.path = Path(t) /\ r.file \in Files
    BY <1>1, <2>1 DEF ThreadState, Path
  <2>3. Works(t, r) /\ UNCHANGED <<place, size, tasks, toScan, failures, raised, errors>>
    BY <1>2 DEF Read
  <2> HIDE DEF r
  <2> QED BY <2>2, <2>3, TriesOn DEF Tries
<1>3. CASE ~Present(Path(t))
  BY <1>1, <1>3, IgnoreKeeps, FailureKeeps DEF Read, At
<1> QED BY <1>2, <1>3

LEMMA CaptureKeeps ==
    ASSUME InboxInv, up' = up, NEW t \in Threads, CaptureFile(t)
    PROVE  InboxInv'
<1>1. thread[t] \in ThreadState /\ thread[t].pc = "capture" /\ errors \in 0..MaxErrors
      /\ MaxErrors \in Nat
  BY InboxAssumption DEF CaptureFile, At, InboxInv, InboxTypeOK
<1>2. ASSUME Works(t, [thread[t] EXCEPT !.pc = "move"]),
             UNCHANGED <<place, size, tasks, toScan, failures, raised, errors>>
      PROVE  InboxInv'
  <2>1. [thread[t] EXCEPT !.pc = "move"] \in ThreadState
        /\ [thread[t] EXCEPT !.pc = "move"].pc = "move"
        /\ [thread[t] EXCEPT !.pc = "move"].path = Path(t)
    BY <1>1 DEF ThreadState, Path
  <2> QED BY <1>2, <2>1, TriesOn DEF Tries
<1>3. ASSUME RecordFailure(t), errors' \in {errors, errors + 1}, errors' <= MaxErrors
      PROVE  InboxInv'
  BY <1>1, <1>3, FailureKeeps
<1> QED BY <1>1, <1>2, <1>3 DEF CaptureFile

LEMMA MoveKeeps ==
    ASSUME InboxInv, up' = up, NEW t \in Threads, MoveToProcessed(t)
    PROVE  InboxInv'
<1>1. errors \in 0..MaxErrors
  BY DEF InboxInv, InboxTypeOK
<1>2. CASE Moved(t) = {}
  BY <1>1, <1>2, FailureKeeps DEF MoveToProcessed
<1>3. CASE Moved(t) # {}
  <2>1. /\ place' = [f \in Files |-> IF f \in Moved(t) THEN "processed" ELSE place[f]]
        /\ failures' = [failures EXCEPT ![Path(t)] = 0]
        /\ Works(t, Idle)
        /\ UNCHANGED <<size, tasks, toScan, raised, errors>>
    BY <1>3 DEF MoveToProcessed, ClearFailure
  <2>2. /\ thread' \in [Threads -> ThreadState] /\ thread'[t] = Idle
        /\ \A s \in Threads \ {t} : thread'[s] = thread[s]
    BY <2>1, ThreadGoes, IdleThread DEF InboxInv
  <2>3. failures' \in [Paths -> 0..Quarantine]
    <3>1. failures \in [Paths -> 0..Quarantine] /\ 0 \in 0..Quarantine
      BY DEF InboxInv, InboxTypeOK, Quarantine
    <3> QED BY <2>1, <3>1
  <2>4. /\ place' \in [Files -> {"sender", "inbox", "processed", "failed"}]
        /\ \A f \in Files : place'[f] = "inbox" => place[f] = "inbox" /\ f \notin Moved(t)
    BY <2>1 DEF InboxInv, InboxTypeOK
  <2>5. InboxTypeOK' /\ OneOccupant'
    BY <2>1, <2>2, <2>3, <2>4 DEF InboxInv, InboxTypeOK, OneOccupant
  <2>6. HasRead'
    BY <2>2, IdleThread DEF InboxInv, HasRead
  <2>7. Watched'
    <3> SUFFICES ASSUME up, NEW f \in Files, Untried(f)' PROVE Pending(Name[f])'
      BY DEF Watched
    <3>1. Untried(f) /\ f \notin Moved(t)
      BY <2>1, <2>4 DEF Untried
    <3>2. Pending(Name[f]) /\ Path(t) # Name[f]
      BY <3>1 DEF InboxInv, Watched, Moved, Occupants, Untried
    <3> QED BY <2>1, <2>2, <3>2 DEF Pending, Path, Tries
  <2> QED BY <2>5, <2>6, <2>7 DEF InboxInv
<1> QED BY <1>2, <1>3

(* A file that is dropped, or written to the end, brings a task with it.     *)
LEMMA EventTells ==
    ASSUME InboxInv, NEW n \in Paths, Event(n)
    PROVE  /\ tasks' \in [Paths -> 0..MaxTasks]
           /\ up => tasks'[n] > 0
           /\ \A m \in Paths : tasks[m] > 0 => tasks'[m] > 0
  BY InboxAssumption DEF Event, InboxInv, InboxTypeOK

LEMMA DropKeeps ==
    ASSUME InboxInv, up' = up, NEW f \in Files, NEW written \in {1, WholeSize},
           Drop(f, written)
    PROVE  InboxInv'
<1>1. /\ place' = [place EXCEPT ![f] = "inbox"]
      /\ size' = [size EXCEPT ![f] = written]
      /\ Event(Name[f]) /\ ~Present(Name[f]) /\ place[f] = "sender"
      /\ UNCHANGED <<toScan, thread, failures, raised, errors>>
  BY DEF Drop
<1>2. Name[f] \in Paths /\ written \in 0..WholeSize
  BY NamesArePaths DEF WholeSize
<1>3. /\ tasks' \in [Paths -> 0..MaxTasks]
      /\ up => tasks'[Name[f]] > 0
      /\ \A m \in Paths : tasks[m] > 0 => tasks'[m] > 0
  BY <1>1, <1>2, EventTells
<1>4. InboxTypeOK'
  BY <1>1, <1>2, <1>3 DEF InboxInv, InboxTypeOK
<1>5. \A g \in Files : place[g] = "inbox" => Name[g] # Name[f]
  BY <1>1 DEF Present, Occupants
<1>6. \A g \in Files \ {f} : place'[g] = place[g] /\ size'[g] = size[g]
  BY <1>1 DEF InboxInv, InboxTypeOK
<1>7. OneOccupant' /\ HasRead'
  BY <1>1, <1>5, <1>6 DEF InboxInv, InboxTypeOK, OneOccupant, HasRead
<1>8. Watched'
  <2> SUFFICES ASSUME up, NEW g \in Files, Untried(g)' PROVE Pending(Name[g])'
    BY DEF Watched
  <2>1. CASE g = f
    BY <1>3, <2>1 DEF Pending
  <2>2. CASE g # f
    <3>1. Untried(g)
      BY <1>1, <1>6, <2>2 DEF Untried
    <3>2. Pending(Name[g]) /\ Name[g] \in Paths
      BY <3>1, NamesArePaths DEF InboxInv, Watched
    <3> QED BY <1>1, <1>3, <3>2 DEF Pending
  <2> QED BY <2>1, <2>2
<1> QED BY <1>4, <1>7, <1>8 DEF InboxInv

LEMMA WriteKeeps ==
    ASSUME InboxInv, up' = up, NEW f \in Files, Write(f)
    PROVE  InboxInv'
<1>1. /\ size' = [size EXCEPT ![f] = @ + 1] /\ size[f] \in 1..2
      /\ IF place[f] = "inbox" THEN Event(Name[f]) ELSE tasks' = tasks
      /\ UNCHANGED <<place, toScan, thread, failures, raised, errors>>
  BY DEF Write, WholeSize
<1>2. Name[f] \in Paths
  BY NamesArePaths
<1>3. /\ tasks' \in [Paths -> 0..MaxTasks]
      /\ up /\ place[f] = "inbox" => tasks'[Name[f]] > 0
      /\ \A m \in Paths : tasks[m] > 0 => tasks'[m] > 0
  <2>1. CASE place[f] = "inbox"
    BY <1>1, <1>2, <2>1, EventTells
  <2>2. CASE place[f] # "inbox"
    BY <1>1, <2>2 DEF InboxInv, InboxTypeOK
  <2> QED BY <2>1, <2>2
<1>4. /\ size' \in [Files -> 0..WholeSize]
      /\ \A g \in Files \ {f} : size'[g] = size[g]
  BY <1>1 DEF InboxInv, InboxTypeOK, WholeSize
<1>5. InboxTypeOK' /\ OneOccupant' /\ HasRead'
  BY <1>1, <1>3, <1>4 DEF InboxInv, InboxTypeOK, OneOccupant, HasRead
<1>6. Watched'
  <2> SUFFICES ASSUME up, NEW g \in Files, Untried(g)' PROVE Pending(Name[g])'
    BY DEF Watched
  <2>1. CASE g = f
    BY <1>1, <1>3, <2>1 DEF Pending, Untried
  <2>2. CASE g # f
    <3>1. Untried(g)
      BY <1>1, <1>4, <2>2 DEF Untried
    <3>2. Pending(Name[g]) /\ Name[g] \in Paths
      BY <3>1, NamesArePaths DEF InboxInv, Watched
    <3> QED BY <1>1, <1>3, <3>2 DEF Pending
  <2> QED BY <2>1, <2>2
<1> QED BY <1>5, <1>6 DEF InboxInv

LEMMA StopKeeps ==
    ASSUME InboxInv, InboxStops, ~up'
    PROVE  InboxInv'
<1>1. /\ thread' \in [Threads -> ThreadState]
      /\ \A t \in Threads : thread'[t].pc = "idle"
  BY IdleThread DEF InboxStops
<1>2. InboxTypeOK'
  BY <1>1, InboxAssumption DEF InboxStops, InboxInv, InboxTypeOK, Quarantine
<1>3. OneOccupant' /\ HasRead' /\ Watched'
  BY <1>1 DEF InboxStops, InboxInv, OneOccupant, HasRead, Watched
<1> QED BY <1>2, <1>3 DEF InboxInv

(* The scan at the start visits what lies there.                             *)
LEMMA StartKeeps ==
    ASSUME InboxInv, InboxStarts
    PROVE  InboxInv'
<1>1. InboxTypeOK' /\ OneOccupant' /\ HasRead'
  BY DEF InboxStarts, Existing, InboxInv, InboxTypeOK, OneOccupant, HasRead
<1>2. Watched'
  <2> SUFFICES ASSUME NEW f \in Files, Untried(f) PROVE Pending(Name[f])'
    BY DEF InboxStarts, Watched, Untried
  <2>1. Present(Name[f]) /\ Name[f] \in Paths
    BY TheOccupant, NamesArePaths DEF InboxInv, Untried
  <2> QED BY <2>1 DEF InboxStarts, Existing, Pending
<1> QED BY <1>1, <1>2 DEF InboxInv

LEMMA InboxSteps ==
    ASSUME InboxInv, up' = up, Sending \/ InboxStep \/ InboxCapture \/ UNCHANGED inboxVars
    PROVE  InboxInv'
<1>1. CASE UNCHANGED inboxVars
  BY <1>1 DEF inboxVars, InboxInv, InboxTypeOK, OneOccupant, HasRead, Watched, Untried,
              Pending
<1>2. CASE Sending
  BY <1>2, DropKeeps, WriteKeeps DEF Sending
<1>3. CASE InboxStep
  BY <1>3, ScanKeeps, TakeKeeps, LookKeeps, SampleKeeps, ReadKeeps, MoveKeeps DEF InboxStep
<1>4. CASE InboxCapture
  BY <1>4, CaptureKeeps DEF InboxCapture
<1> QED BY <1>1, <1>2, <1>3, <1>4

-----------------------------------------------------------------------------
(* Files whose name is their own *)

LEMMA SeenOccurs == \A f \in Files : Seen(f, TRUE) \in Occurrences
  BY InboxAssumption

(* What threads know stays true: a file does not go back to its sender, does *)
(* not shrink and is not forgotten by capture().                             *)
LEMMA KnowledgeStays ==
    ASSUME OwnInv, SubmissionsStay, NEW t \in Threads,
           \A s \in Threads \ {t} : thread'[s] = thread[s],
           \A f \in Files : place[f] # "sender" => place'[f] # "sender",
           \A f \in Files : size[f] = WholeSize => size'[f] = WholeSize,
           \A f \in Files : Knows(thread[t], f)'
    PROVE  ThreadsKnow'
<1> SUFFICES ASSUME NEW s \in Threads \ {t}, NEW f \in Files PROVE Knows(thread[s], f)'
  BY DEF ThreadsKnow
<1>1. Knows(thread[s], f) /\ thread'[s] = thread[s]
  BY DEF OwnInv, ThreadsKnow
<1> QED BY <1>1, SeenOccurs DEF Knows, SubmissionsStay

(* Nothing but the threads and the tasks moves.                              *)
LEMMA OwnStays ==
    ASSUME OwnInv, SubmissionsStay, UNCHANGED <<place, failures, raised>>
    PROVE  FailuresAreOwn' /\ ProcessedIsCaptured' /\ QuarantineEarned'
  BY SeenOccurs
  DEF OwnInv, FailuresAreOwn, ProcessedIsCaptured, QuarantineEarned, SubmissionsStay

LEMMA IgnoreOwn ==
    ASSUME InboxInv, OwnInv, SubmissionsStay, NEW t \in Threads, Ignore(t)
    PROVE  OwnInv'
<1>1. /\ thread'[t] = Idle /\ \A s \in Threads \ {t} : thread'[s] = thread[s]
  BY ThreadGoes, IdleThread DEF Ignore, InboxInv
<1>2. ThreadsKnow'
  <2>1. \A f \in Files : Knows(thread[t], f)'
    BY <1>1, IdleThread DEF Knows
  <2> QED BY <1>1, <2>1, KnowledgeStays DEF Ignore
<1>3. FailuresAreOwn'
  <2>1. failures \in [Paths -> 0..3] /\ raised \in [Files -> 0..3]
    BY DEF InboxInv, InboxTypeOK, Quarantine
  <2>2. \A n \in Paths : failures'[n] = failures[n] \/ failures'[n] = 0
    BY <2>1 DEF Ignore, ClearFailure
  <2>3. UNCHANGED <<place, raised>>
    BY DEF Ignore
  <2> QED BY <2>1, <2>2, <2>3, NamesArePaths DEF OwnInv, FailuresAreOwn
<1>4. ProcessedIsCaptured' /\ QuarantineEarned'
  BY SeenOccurs DEF Ignore, OwnInv, ProcessedIsCaptured, QuarantineEarned, SubmissionsStay
<1> QED BY <1>2, <1>3, <1>4 DEF OwnInv

(* A thread that fails counts the failure for the one file of its path, and  *)
(* that file was there to be read.                                           *)
LEMMA FailureOwn ==
    ASSUME DistinctNames, InboxInv, OwnInv, SubmissionsStay,
           NEW t \in Threads, thread[t].pc \in {"read", "capture", "move"}, RecordFailure(t)
    PROVE  OwnInv'
<1> DEFINE n == Path(t)
<1>1. /\ thread'[t] = Idle /\ \A s \in Threads \ {t} : thread'[s] = thread[s]
  BY ThreadGoes, IdleThread DEF RecordFailure, InboxInv
<1>2. n \in Paths /\ failures \in [Paths -> 0..3] /\ raised \in [Files -> 0..3]
  BY DEF Path, InboxInv, InboxTypeOK, ThreadState, Quarantine
<1>3. \A f \in Files : Name[f] = n => place[f] # "sender"
  BY DEF OwnInv, ThreadsKnow, Knows, Path
<1>4. ASSUME NEW f \in Files
      PROVE  IF f \in Occupants(n)
             THEN /\ place'[f] = IF failures[n] + 1 >= 3 THEN "failed" ELSE "inbox"
                  /\ raised'[f] = IF raised[f] < 3 THEN raised[f] + 1 ELSE 3
                  /\ Name[f] = n /\ place[f] = "inbox"
             ELSE place'[f] = place[f] /\ raised'[f] = raised[f]
  BY <1>2 DEF RecordFailure, LastFailure, Occupants, Quarantine
<1>5. /\ failures'[n] = IF failures[n] < 3 THEN failures[n] + 1 ELSE failures[n]
      /\ \A m \in Paths \ {n} : failures'[m] = failures[m]
  BY <1>2 DEF RecordFailure, Quarantine
<1>6. ThreadsKnow'
  <2>1. \A f \in Files : Knows(thread[t], f)'
    BY <1>1, IdleThread DEF Knows
  <2>2. \A f \in Files : place[f] # "sender" => place'[f] # "sender"
    BY <1>4
  <2> QED BY <1>1, <2>1, <2>2, KnowledgeStays DEF RecordFailure
<1>7. FailuresAreOwn'
  <2> SUFFICES ASSUME NEW f \in Files, place'[f] \in {"sender", "inbox"}
               PROVE  failures'[Name[f]] <= raised'[f]
    BY DEF FailuresAreOwn
  <2>1. Name[f] \in Paths /\ (place[f] \in {"sender", "inbox"} => failures[Name[f]] <= raised[f])
    BY NamesArePaths DEF OwnInv, FailuresAreOwn
  <2>2. CASE f \in Occupants(n)
    BY <1>2, <1>4, <1>5, <2>1, <2>2
  <2>3. CASE f \notin Occupants(n)
    <3>1. Name[f] # n
      BY <1>3, <1>4, <2>3 DEF Occupants
    <3> QED BY <1>2, <1>4, <1>5, <2>1, <2>3, <3>1
  <2> QED BY <2>2, <2>3
<1>8. QuarantineEarned'
  <2> SUFFICES ASSUME NEW f \in Files, place'[f] = "failed" PROVE raised'[f] = 3
    BY DEF QuarantineEarned, Quarantine
  <2>1. CASE f \in Occupants(n)
    <3>1. failures[n] + 1 >= 3 /\ failures[n] <= raised[f]
      BY <1>4, <2>1 DEF OwnInv, FailuresAreOwn
    <3> QED BY <1>2, <1>4, <2>1, <3>1
  <2>2. CASE f \notin Occupants(n)
    BY <1>4, <2>2 DEF OwnInv, QuarantineEarned, Quarantine
  <2> QED BY <2>1, <2>2
<1>9. ProcessedIsCaptured'
  <2>1. \A f \in Files : place'[f] = "processed" => place[f] = "processed"
    BY <1>4
  <2> QED BY <2>1, SeenOccurs DEF OwnInv, ProcessedIsCaptured, SubmissionsStay
<1> QED BY <1>6, <1>7, <1>8, <1>9 DEF OwnInv

(* A step of the inbox that moves one thread and nothing else.               *)
LEMMA ThreadOwn ==
    ASSUME InboxInv, OwnInv, SubmissionsStay, NEW t \in Threads, NEW r \in ThreadState,
           Works(t, r), UNCHANGED <<place, size, failures, raised>>,
           \A f \in Files : Knows(r, f)'
    PROVE  OwnInv'
<1>1. /\ thread'[t] = r /\ \A s \in Threads \ {t} : thread'[s] = thread[s]
  BY ThreadGoes DEF InboxInv
<1>2. ThreadsKnow'
  BY <1>1, KnowledgeStays
<1> QED BY <1>2, OwnStays DEF OwnInv

LEMMA LookOwn ==
    ASSUME InboxInv, OwnInv, SubmissionsStay, NEW t \in Threads,
           \/ t \in Pool /\ \E n \in Paths : Take(t, n)
           \/ t = Scan /\ \E n \in Paths : ScanNext(n)
           \/ Look(t)
    PROVE  OwnInv'
<1>1. CASE Ignore(t)
  BY <1>1, IgnoreOwn
<1>2. ASSUME NEW n \in Paths, Works(t, [Idle EXCEPT !.pc = "look", !.path = n]),
             UNCHANGED <<place, size, failures, raised>>
      PROVE  OwnInv'
  <2>1. [Idle EXCEPT !.pc = "look", !.path = n] \in ThreadState
        /\ [Idle EXCEPT !.pc = "look", !.path = n].pc = "look"
    BY IdleThread DEF ThreadState
  <2> QED BY <1>2, <2>1, ThreadOwn DEF Knows
<1>3. CASE Look(t) /\ Present(Path(t))
  <2>1. size[Occupant(Path(t))] \in 0..WholeSize
    BY <1>3, OccupantIsThere DEF InboxInv, InboxTypeOK
  <2>2. PICK r \in ThreadState :
            /\ r = [thread[t] EXCEPT !.pc = "sample", !.sample = size[Occupant(Path(t))]]
            /\ r.pc = "sample"
    <3> DEFINE q == [thread[t] EXCEPT !.pc = "sample", !.sample = size[Occupant(Path(t))]]
    <3>1. q \in ThreadState /\ q.pc = "sample"
      BY <2>1 DEF ThreadState, InboxInv, InboxTypeOK
    <3> HIDE DEF q
    <3> QED BY <3>1 DEF q
  <2>3. Works(t, r) /\ UNCHANGED <<place, size, failures, raised>>
    BY <1>3, <2>2 DEF Look
  <2> QED BY <2>2, <2>3, ThreadOwn DEF Knows
<1>4. CASE UNCHANGED <<place, size, thread, failures, raised>>
  <2>1. ThreadsKnow'
    BY <1>4, SeenOccurs DEF OwnInv, ThreadsKnow, Knows, SubmissionsStay
  <2> QED BY <1>4, <2>1, OwnStays DEF OwnInv
<1> QED BY <1>1, <1>2, <1>3, <1>4 DEF Take, ScanNext, Look

(* A file that is found at its full size twice is whole.                     *)
LEMMA SampleOwn ==
    ASSUME DistinctNames, InboxInv, OwnInv, SubmissionsStay, NEW t \in Threads, Sample(t)
    PROVE  OwnInv'
<1>1. CASE Ignore(t)
  BY <1>1, IgnoreOwn
<1>2. CASE ~Ignore(t)
  <2>1. /\ Present(Path(t)) /\ ~Pausing(t) /\ SizeIsStable(t)
        /\ Works(t, [thread[t] EXCEPT !.pc = "read"])
        /\ UNCHANGED <<place, size, tasks, toScan, failures, raised, errors>>
    BY <1>2 DEF Sample
  <2>2. PICK o \in Files : o = Occupant(Path(t)) /\ Name[o] = Path(t) /\ place[o] = "inbox"
    BY <2>1, OccupantIsThere
  <2>3. PICK r \in ThreadState :
            r = [thread[t] EXCEPT !.pc = "read"] /\ r.pc = "read" /\ r.path = Path(t)
    <3>1. thread[t] \in ThreadState
      BY DEF InboxInv, InboxTypeOK
    <3>2. /\ [thread[t] EXCEPT !.pc = "read"] \in ThreadState
          /\ [thread[t] EXCEPT !.pc = "read"].pc = "read"
          /\ [thread[t] EXCEPT !.pc = "read"].path = Path(t)
      BY <3>1 DEF ThreadState, Path
    <3> QED BY <3>2
  <2>4. size[o] = WholeSize
    <3>1. thread[t].sample \in 0..3 /\ size[o] \in 0..3
      BY DEF ThreadState, InboxInv, InboxTypeOK, WholeSize
    <3> QED BY <2>1, <2>2, <3>1 DEF Pausing, SizeIsStable, WholeSize
  <2>5. ASSUME NEW f \in Files PROVE Knows(r, f)'
    BY <2>1, <2>2, <2>3, <2>4 DEF Knows, DistinctNames
  <2> QED BY <2>1, <2>3, <2>5, ThreadOwn
<1> QED BY <1>1, <1>2

LEMMA ReadOwn ==
    ASSUME DistinctNames, InboxInv, OwnInv, SubmissionsStay, NEW t \in Threads, Read(t)
    PROVE  OwnInv'
<1>1. CASE ~Present(Path(t))
  BY <1>1, IgnoreOwn, FailureOwn DEF Read, At
<1>2. CASE Present(Path(t))
  <2>1. PICK o \in Files : o = Occupant(Path(t)) /\ Name[o] = Path(t) /\ place[o] = "inbox"
    BY <1>2, OccupantIsThere
  <2>3. PICK r \in ThreadState :
            /\ r = [thread[t] EXCEPT !.pc = "capture", !.file = o, !.sample = size[o]]
            /\ r.pc = "capture" /\ r.path = Path(t) /\ r.file = o /\ r.sample = size[o]
    <3>1. size[o] \in 0..WholeSize /\ thread[t] \in ThreadState
      BY DEF InboxInv, InboxTypeOK
    <3> DEFINE q == [thread[t] EXCEPT !.pc = "capture", !.file = o, !.sample = size[o]]
    <3>2. /\ q \in ThreadState
          /\ q.pc = "capture" /\ q.path = Path(t) /\ q.file = o /\ q.sample = size[o]
      BY <3>1 DEF ThreadState, Path
    <3> HIDE DEF q
    <3> QED BY <3>2 DEF q
  <2>2. Works(t, r) /\ UNCHANGED <<place, size, failures, raised>> /\ thread[t].pc = "read"
    BY <1>2, <2>1, <2>3 DEF Read, At
  <2>4. size[o] = WholeSize
    BY <2>1, <2>2 DEF OwnInv, ThreadsKnow, Knows, Path
  <2>5. ASSUME NEW f \in Files PROVE Knows(r, f)'
    BY <2>1, <2>2, <2>3, <2>4 DEF Knows, DistinctNames
  <2> QED BY <2>2, <2>3, <2>5, ThreadOwn
<1> QED BY <1>1, <1>2

(* What is captured is the file of the path, whole.                          *)
LEMMA CaptureOwn ==
    ASSUME DistinctNames, TablesInv, InboxInv, OwnInv, NEW t \in Threads, CaptureFile(t),
           UNCHANGED processVars
    PROVE  OwnInv' /\ TablesInv' /\ SubmissionsStay
<1>1. thread[t].pc = "capture" /\ thread[t] \in ThreadState /\ thread[t].file \in Files
  BY DEF CaptureFile, At, InboxInv, InboxTypeOK, HasRead
<1>2. Occurrence(t) \in Occurrences
  BY <1>1, InboxAssumption DEF Occurrence
<1>3. CASE RecordFailure(t) /\ UNCHANGED captureTables
  <2>1. TablesInv' /\ SubmissionsStay
    BY <1>3, TablesStay DEF TablesInv, CaptureTypeOK, processVars
  <2> QED BY <1>1, <1>3, <2>1, FailureOwn
<1>4. CASE Captured(Occurrence(t))
           /\ Works(t, [thread[t] EXCEPT !.pc = "move"])
           /\ UNCHANGED <<place, size, tasks, toScan, failures, raised, errors>>
  <2>1. TablesInv' /\ SubmissionsStay /\ submissions'[Occurrence(t)] > 0
    BY <1>2, <1>4, CapturedOnce
  <2>2. PICK r \in ThreadState :
            /\ r = [thread[t] EXCEPT !.pc = "move"]
            /\ r.pc = "move" /\ r.path = thread[t].path
    <3>1. /\ [thread[t] EXCEPT !.pc = "move"] \in ThreadState
          /\ [thread[t] EXCEPT !.pc = "move"].pc = "move"
          /\ [thread[t] EXCEPT !.pc = "move"].path = thread[t].path
      BY <1>1 DEF ThreadState
    <3> QED BY <3>1
  <2>3. ASSUME NEW f \in Files PROVE Knows(r, f)'
    <3> SUFFICES ASSUME thread[t].path = Name[f]
                 PROVE  /\ place'[f] # "sender" /\ size'[f] = WholeSize
                        /\ submissions'[Seen(f, TRUE)] > 0
      BY <2>2 DEF Knows
    <3>1. /\ place[f] # "sender" /\ size[f] = WholeSize
          /\ thread[t].file = f /\ thread[t].sample = WholeSize
      BY <1>1 DEF OwnInv, ThreadsKnow, Knows
    <3>2. Occurrence(t) = Seen(f, TRUE)
      BY <3>1 DEF Occurrence
    <3> QED BY <1>4, <2>1, <3>1, <3>2
  <2> QED BY <1>4, <2>1, <2>2, <2>3, ThreadOwn
<1> QED BY <1>3, <1>4 DEF CaptureFile

(* What is moved is the file that was captured.                              *)
LEMMA MoveOwn ==
    ASSUME DistinctNames, InboxInv, OwnInv, SubmissionsStay, NEW t \in Threads,
           MoveToProcessed(t)
    PROVE  OwnInv'
<1>1. thread[t].pc = "move"
  BY DEF MoveToProcessed, At
<1>2. CASE RecordFailure(t)
  BY <1>1, <1>2, FailureOwn
<1>3. CASE ~RecordFailure(t)
  <2>1. /\ place' = [f \in Files |-> IF f \in Moved(t) THEN "processed" ELSE place[f]]
        /\ ClearFailure(Path(t))
        /\ Works(t, Idle)
        /\ UNCHANGED <<size, raised>>
    BY <1>3 DEF MoveToProcessed
  <2>2. thread'[t] = Idle /\ \A s \in Threads \ {t} : thread'[s] = thread[s]
    BY <2>1, ThreadGoes, IdleThread DEF InboxInv
  <2>3. ThreadsKnow'
    <3>1. \A f \in Files : Knows(thread[t], f)'
      BY <2>2, IdleThread DEF Knows
    <3>2. \A f \in Files : place[f] # "sender" => place'[f] # "sender"
      BY <2>1
    <3> QED BY <2>1, <2>2, <3>1, <3>2, KnowledgeStays
  <2>4. FailuresAreOwn'
    <3>1. failures \in [Paths -> 0..3] /\ raised \in [Files -> 0..3]
      BY DEF InboxInv, InboxTypeOK, Quarantine
    <3>2. \A n \in Paths : failures'[n] = failures[n] \/ failures'[n] = 0
      BY <2>1, <3>1 DEF ClearFailure
    <3>3. \A f \in Files : place'[f] \in {"sender", "inbox"} => place'[f] = place[f]
      BY <2>1
    <3> QED BY <2>1, <3>1, <3>2, <3>3, NamesArePaths DEF OwnInv, FailuresAreOwn
  <2>5. ProcessedIsCaptured'
    <3> SUFFICES ASSUME NEW f \in Files, place'[f] = "processed"
                 PROVE  submissions'[Seen(f, TRUE)] > 0
      BY DEF ProcessedIsCaptured
    <3>1. CASE f \in Moved(t)
      <4>1. thread[t].path = Name[f]
        BY <3>1 DEF Moved, Occupants, Path
      <4> QED BY <1>1, <4>1, SeenOccurs DEF OwnInv, ThreadsKnow, Knows, SubmissionsStay
    <3>2. CASE f \notin Moved(t)
      BY <2>1, <3>2, SeenOccurs DEF OwnInv, ProcessedIsCaptured, SubmissionsStay
    <3> QED BY <3>1, <3>2
  <2>6. QuarantineEarned'
    BY <2>1 DEF OwnInv, QuarantineEarned
  <2> QED BY <2>3, <2>4, <2>5, <2>6 DEF OwnInv
<1> QED BY <1>2, <1>3

LEMMA SenderOwn ==
    ASSUME InboxInv, OwnInv, SubmissionsStay, Sending
    PROVE  OwnInv'
<1>1. PICK f \in Files :
          \/ /\ place[f] = "sender" /\ place' = [place EXCEPT ![f] = "inbox"]
             /\ \E written : size' = [size EXCEPT ![f] = written]
          \/ /\ UNCHANGED place /\ size[f] # WholeSize /\ size' = [size EXCEPT ![f] = @ + 1]
  BY DEF Sending, Drop, Write, WholeSize
<1>2. UNCHANGED <<thread, failures, raised>>
  BY DEF Sending, Drop, Write
<1>3. place \in [Files -> {"sender", "inbox", "processed", "failed"}] /\ size \in [Files -> 0..WholeSize]
  BY DEF InboxInv, InboxTypeOK
<1>4. \A g \in Files : place[g] # "sender" =>
          place'[g] = place[g] /\ (size[g] = WholeSize => size'[g] = WholeSize)
  BY <1>1, <1>3
<1>5. \A g \in Files : place'[g] # place[g] => place[g] = "sender" /\ place'[g] = "inbox"
  BY <1>1, <1>3
<1>6. ThreadsKnow'
  BY <1>2, <1>4, SeenOccurs DEF OwnInv, ThreadsKnow, Knows, SubmissionsStay
<1>7. FailuresAreOwn'
  BY <1>2, <1>5 DEF OwnInv, FailuresAreOwn
<1>8. ProcessedIsCaptured' /\ QuarantineEarned'
  BY <1>2, <1>5, SeenOccurs
  DEF OwnInv, ProcessedIsCaptured, QuarantineEarned, SubmissionsStay
<1> QED BY <1>6, <1>7, <1>8 DEF OwnInv

LEMMA RestartOwn ==
    ASSUME InboxInv, OwnInv, SubmissionsStay, InboxStops \/ InboxStarts
    PROVE  OwnInv'
<1>1. CASE InboxStops
  <2>1. ThreadsKnow'
    BY <1>1, IdleThread DEF InboxStops, ThreadsKnow, Knows
  <2>2. FailuresAreOwn'
    BY <1>1, NamesArePaths DEF InboxStops, FailuresAreOwn
  <2>3. ProcessedIsCaptured' /\ QuarantineEarned'
    BY <1>1, SeenOccurs
    DEF InboxStops, OwnInv, ProcessedIsCaptured, QuarantineEarned, SubmissionsStay
  <2> QED BY <2>1, <2>2, <2>3 DEF OwnInv
<1>2. CASE InboxStarts
  <2>1. ThreadsKnow'
    BY <1>2, SeenOccurs DEF InboxStarts, OwnInv, ThreadsKnow, Knows, SubmissionsStay
  <2> QED BY <1>2, <2>1, OwnStays DEF InboxStarts, OwnInv
<1> QED BY <1>1, <1>2

-----------------------------------------------------------------------------
(* The poller *)

(* An update whose receipt the poller answers for.                           *)
CarriesReceipt(u) == u \in Authorized \cap WithPath

UpdateSettled(u) == CarriesReceipt(u) => submissions[Message(u)] > 0 \/ u \in dead

(* The batch in hand lies behind the offset, and what is before it is done.  *)
InBatch ==
    /\ ~Waits("poll") => Current <= poller.last /\ poller.offset <= Current
    /\ Waits("capture") => CarriesReceipt(Current)
    /\ Waits("wait") => CarriesReceipt(Current) /\ submissions[Message(Current)] > 0
    /\ Waits("send") /\ CarriesReceipt(Current) => submissions[Message(Current)] > 0
    /\ Waits("download") => CarriesReceipt(Current)
    /\ Waits("file") => Current \in Authorized \cap WithFile
    /\ Waits("send") => Current \in Authorized

AllSettled ==
    /\ \A u \in Updates : u < confirmed \/ u < poller.offset => UpdateSettled(u)
    /\ ~Waits("poll") => \A u \in Updates : u < Current => UpdateSettled(u)

(* One verdict for an update with a file, after the one capture of it.       *)
VerdictOf(u) == told[u] \cap Verdicts

VerdictsFollow ==
    \A u \in Updates \cap WithPath :
        /\ \A v, w \in VerdictOf(u) : v = w
        /\ VerdictOf(u) # {} => submissions[Message(u)] > 0
        /\ Current = u /\ (Waits("wait") \/ (Waits("send") /\ poller.reply \in Verdicts)) =>
              VerdictOf(u) = {}

PollerInv ==
    /\ PollerTypeOK
    /\ InBatch
    /\ AllSettled
    /\ VerdictsFollow

LEMMA MessageOccurs == \A u \in Updates : Message(u) \in Occurrences
  BY PollerAssumption

(* Receipts are updates with a file.                                         *)
LEMMA ReceiptsAreUpdates ==
    /\ Sent \in Nat
    /\ WithPath \subseteq WithFile /\ WithFile \subseteq Updates /\ Authorized \subseteq Updates
    /\ \A u : CarriesReceipt(u) => u \in Updates
  BY PollerAssumption DEF CarriesReceipt

LEMMA LargerIs ==
    ASSUME NEW m \in Int, NEW n \in Int
    PROVE  /\ Larger(m, n) \in {m, n} /\ Larger(m, n) >= m /\ Larger(m, n) >= n
  BY DEF Larger

(* Submissions may come, but not go.                                         *)
LEMMA PollerRests ==
    ASSUME PollerInv, SubmissionsStay, UNCHANGED pollerVars
    PROVE  PollerInv'
<1>1. PollerTypeOK'
  BY DEF pollerVars, PollerInv, PollerTypeOK
<1>2. \A u \in Updates : submissions[Message(u)] > 0 => submissions'[Message(u)] > 0
  BY MessageOccurs DEF SubmissionsStay
<1>3. InBatch' /\ AllSettled'
  BY <1>2, ReceiptsAreUpdates
  DEF pollerVars, PollerInv, InBatch, AllSettled, UpdateSettled, Waits, Current
<1>4. VerdictsFollow'
  BY <1>2 DEF pollerVars, PollerInv, VerdictsFollow, VerdictOf, Waits, Current
<1> QED BY <1>1, <1>3, <1>4 DEF PollerInv

LEMMA PollerTypes ==
    ASSUME PollerInv
    PROVE  /\ poller \in PollerState
           /\ arrived \in 0..Sent /\ confirmed \in 1..(Sent + 1)
           /\ poller.pc \in Positions /\ poller.offset \in 0..(Sent + 1)
           /\ Current \in 1..(Sent + 1) /\ poller.last \in 0..Sent
           /\ poller.failures \in [Updates -> 0..3] /\ poller.reply \in Replies
           /\ ~Waits("poll") => Current \in Updates
<1>1. /\ poller \in PollerState
      /\ arrived \in 0..Sent /\ confirmed \in 1..(Sent + 1)
  BY DEF PollerInv, PollerTypeOK
<1>2. /\ poller.pc \in Positions /\ poller.offset \in 0..(Sent + 1)
      /\ Current \in 1..(Sent + 1) /\ poller.last \in 0..Sent
      /\ poller.failures \in [Updates -> 0..3] /\ poller.reply \in Replies
  BY <1>1 DEF PollerState, DeadLetter, Current
<1>3. ~Waits("poll") => Current \in Updates
  BY <1>2, ReceiptsAreUpdates DEF PollerInv, InBatch, Updates
<1> QED BY <1>1, <1>2, <1>3

(* What the server forgot and what was given up stays; the chat hears nothing. *)
Quietly == UNCHANGED <<arrived, confirmed, decisions, told>>

LEMMA SettledStays ==
    ASSUME PollerInv, SubmissionsStay, dead \subseteq dead'
    PROVE  \A u \in Updates : UpdateSettled(u) => UpdateSettled(u)'
  BY MessageOccurs DEF UpdateSettled, SubmissionsStay, CarriesReceipt

(* The batch breaks off, at an offset below which everything is settled.     *)
LEMMA BatchEnds ==
    ASSUME PollerInv, SubmissionsStay, Quietly,
           dead \subseteq dead', dead' \subseteq Updates,
           poller' \in PollerState, poller'.pc = "poll",
           \A u \in Updates : u < poller'.offset => UpdateSettled(u)'
    PROVE  PollerInv'
<1>1. PollerTypeOK'
  BY DEF PollerInv, PollerTypeOK, Quietly
<1>2. InBatch'
  BY DEF InBatch, Waits
<1>3. AllSettled'
  BY SettledStays DEF PollerInv, AllSettled, Waits, Quietly
<1>4. VerdictsFollow'
  BY MessageOccurs
  DEF PollerInv, VerdictsFollow, VerdictOf, Waits, Quietly, SubmissionsStay
<1> QED BY <1>1, <1>2, <1>3, <1>4 DEF PollerInv

LEMMA BlockedKeeps ==
    ASSUME PollerInv, SubmissionsStay, Blocked
    PROVE  PollerInv'
<1>1. /\ poller' = [poller EXCEPT !.pc = "poll"] /\ Quietly /\ dead' = dead
  BY DEF Blocked, Goes, Quietly
<1>2. poller' \in PollerState /\ poller'.pc = "poll" /\ poller'.offset = poller.offset
  BY <1>1, PollerTypes DEF PollerState, Positions
<1>3. \A u \in Updates : u < poller.offset => UpdateSettled(u)'
  BY <1>1, SettledStays DEF PollerInv, AllSettled
<1> QED BY <1>1, <1>2, <1>3, BatchEnds DEF PollerInv, PollerTypeOK

LEMMA FailedKeeps ==
    ASSUME PollerInv, SubmissionsStay, ~Waits("poll"), Failed
    PROVE  PollerInv'
<1>1. Quietly /\ Current \in Updates /\ Sent \in Nat
  BY PollerTypes, ReceiptsAreUpdates DEF Failed, Quietly
<1>2. CASE LastStrike(Current)
  <2>1. /\ poller' = [poller EXCEPT !.offset = NextOffset(Current),
                                    !.failures[Current] = 0, !.pc = "poll"]
        /\ dead' = dead \cup {Current}
    BY <1>2 DEF Failed
  <2>2. NextOffset(Current) = Current + 1
    BY <1>1, PollerTypes DEF NextOffset, Larger, PollerInv, InBatch, Updates
  <2>3. Current + 1 \in 0..(Sent + 1)
    BY <1>1 DEF Updates
  <2>4. poller' \in PollerState /\ poller'.pc = "poll" /\ poller'.offset = Current + 1
    <3>1. [poller.failures EXCEPT ![Current] = 0] \in [Updates -> 0..DeadLetter]
      BY PollerTypes DEF DeadLetter
    <3>2. poller' = [poller EXCEPT !.offset = Current + 1, !.failures[Current] = 0, !.pc = "poll"]
      BY <2>1, <2>2
    <3>3. "poll" \in Positions
      BY DEF Positions
    <3> QED BY <2>3, <3>1, <3>2, <3>3, PollerTypes DEF PollerState
  <2>5. dead \subseteq dead' /\ dead' \subseteq Updates
    BY <1>1, <2>1 DEF PollerInv, PollerTypeOK
  <2>6. ASSUME NEW u \in Updates, u < poller'.offset PROVE UpdateSettled(u)'
    <3>1. u < Current \/ u = Current
      BY <1>1, <2>4, <2>6 DEF Updates
    <3>2. u < Current => UpdateSettled(u)
      BY DEF PollerInv, AllSettled
    <3> QED BY <2>1, <2>5, <3>1, <3>2, SettledStays DEF UpdateSettled
  <2> QED BY <1>1, <2>4, <2>5, <2>6, BatchEnds
<1>3. CASE ~LastStrike(Current)
  <2>1. /\ poller' = [poller EXCEPT !.failures[Current] = @ + 1, !.pc = "poll"]
        /\ dead' = dead
    BY <1>3 DEF Failed
  <2>2. poller.failures[Current] + 1 \in 0..3
    BY <1>1, <1>3, PollerTypes DEF LastStrike, DeadLetter
  <2>3. poller' \in PollerState /\ poller'.pc = "poll" /\ poller'.offset = poller.offset
    BY <2>1, <2>2, PollerTypes DEF PollerState, Positions, DeadLetter
  <2>4. \A u \in Updates : u < poller.offset => UpdateSettled(u)'
    BY <2>1, SettledStays DEF PollerInv, AllSettled
  <2> QED BY <1>1, <2>1, <2>3, <2>4, BatchEnds DEF PollerInv, PollerTypeOK
<1> QED BY <1>2, <1>3

(* The poller goes on with the update in hand.                               *)
LEMMA UpdateGoesOn ==
    ASSUME PollerInv, SubmissionsStay, ~Waits("poll"), Quietly, dead' = dead,
           NEW pc \in Positions \ {"poll"}, NEW reply \in Replies,
           poller' = [poller EXCEPT !.pc = pc, !.reply = reply],
           pc \in {"capture", "download", "wait"} => CarriesReceipt(Current),
           pc = "file" => Current \in Authorized \cap WithFile,
           pc = "send" => Current \in Authorized,
           pc \in {"wait", "send"} /\ CarriesReceipt(Current) => submissions'[Message(Current)] > 0,
           Current \in WithPath /\ (pc = "wait" \/ (pc = "send" /\ reply \in Verdicts)) =>
               VerdictOf(Current) = {}
    PROVE  PollerInv'
<1>1. /\ poller' \in PollerState /\ poller'.pc = pc /\ poller'.reply = reply
      /\ poller'.next = poller.next /\ poller'.last = poller.last
      /\ poller'.offset = poller.offset
  BY PollerTypes DEF PollerState
<1>2. PollerTypeOK'
  BY <1>1 DEF PollerInv, PollerTypeOK, Quietly
<1>3. InBatch'
  BY <1>1 DEF PollerInv, InBatch, Waits, Current, CarriesReceipt
<1>4. AllSettled'
  BY <1>1, SettledStays DEF PollerInv, AllSettled, Waits, Current, Quietly
<1>5. VerdictsFollow'
  BY <1>1, MessageOccurs
  DEF PollerInv, VerdictsFollow, VerdictOf, Waits, Current, Quietly, SubmissionsStay
<1> QED BY <1>2, <1>3, <1>4, <1>5 DEF PollerInv

(* The update in hand is done.                                               *)
LEMMA AcknowledgedKeeps ==
    ASSUME PollerInv, SubmissionsStay, ~Waits("poll"), Acknowledged, UpdateSettled(Current),
           UNCHANGED <<arrived, confirmed, decisions, dead>>,
           told' \in [Updates -> SUBSET Replies],
           \A u \in Updates \cap WithPath :
               /\ \A v, w \in VerdictOf(u)' : v = w
               /\ VerdictOf(u)' # {} => submissions'[Message(u)] > 0
    PROVE  PollerInv'
<1>1. Current \in Updates /\ Sent \in Nat
  BY PollerTypes, ReceiptsAreUpdates
<1>2. NextOffset(Current) = Current + 1
  BY <1>1, PollerTypes DEF NextOffset, Larger, PollerInv, InBatch, Updates
<1>3. Current + 1 \in 1..(Sent + 1)
  BY <1>1 DEF Updates
<1>4. /\ poller' \in PollerState /\ poller'.next = Current + 1 /\ poller'.last = poller.last
      /\ poller'.offset = Current + 1
      /\ poller'.pc = IF Current < poller.last THEN "next" ELSE "poll"
  <2>1. (IF Current < poller.last THEN "next" ELSE "poll") \in Positions
    BY DEF Positions
  <2>2. Current + 1 \in 0..(Sent + 1)
    BY <1>3
  <2>3. [poller.failures EXCEPT ![Current] = 0] \in [Updates -> 0..DeadLetter]
    BY PollerTypes DEF DeadLetter
  <2>4. poller' = [poller EXCEPT !.offset = Current + 1, !.failures[Current] = 0,
                                !.next = Current + 1,
                                !.pc = IF Current < poller.last THEN "next" ELSE "poll"]
    BY <1>2 DEF Acknowledged
  <2> QED BY <1>3, <2>1, <2>2, <2>3, <2>4, PollerTypes DEF PollerState
<1>5. PollerTypeOK'
  BY <1>4 DEF PollerInv, PollerTypeOK
<1>6. InBatch'
  <2>1. Waits("poll")' \/ (Waits("next")' /\ Current' <= poller'.last)
    BY <1>1, <1>4, PollerTypes DEF Waits, Current, Updates
  <2> QED BY <1>3, <1>4, <2>1 DEF InBatch, Waits, Current
<1>7. AllSettled'
  <2>1. \A u \in Updates : u < Current + 1 => UpdateSettled(u)'
    <3> SUFFICES ASSUME NEW u \in Updates, u < Current + 1 PROVE UpdateSettled(u)'
      OBVIOUS
    <3>1. u < Current \/ u = Current
      BY <1>1 DEF Updates
    <3>2. UpdateSettled(u)
      BY <3>1 DEF PollerInv, AllSettled
    <3> QED BY <3>2, SettledStays
  <2>2. \A u \in Updates : u < confirmed => UpdateSettled(u)'
    BY SettledStays DEF PollerInv, AllSettled
  <2> QED BY <1>4, <2>1, <2>2 DEF AllSettled, Current
<1>8. VerdictsFollow'
  BY <1>4 DEF VerdictsFollow, Waits
<1> QED BY <1>5, <1>6, <1>7, <1>8 DEF PollerInv

LEMMA GetUpdatesKeeps ==
    ASSUME PollerInv, SubmissionsStay, GetUpdates
    PROVE  PollerInv'
<1> DEFINE told_up == Larger(confirmed, poller.offset)
<1>1. /\ confirmed' = told_up /\ UNCHANGED <<arrived, decisions, dead, told>>
      /\ Waits("poll") /\ Sent \in Nat
  BY ReceiptsAreUpdates DEF GetUpdates
<1>2. told_up \in 1..(Sent + 1) /\ told_up >= poller.offset
      /\ (told_up = confirmed \/ told_up = poller.offset)
  BY <1>1, PollerTypes DEF Larger
<1>3. \A u \in Updates : u < told_up => UpdateSettled(u)'
  <2>1. \A u \in Updates : u < told_up => UpdateSettled(u)
    BY <1>2 DEF PollerInv, AllSettled
  <2> QED BY <1>1, <2>1, SettledStays
<1>4. CASE told_up <= arrived
  <2>1. poller' = [poller EXCEPT !.pc = "next", !.next = told_up, !.last = arrived]
    BY <1>1, <1>4 DEF GetUpdates
  <2>2. /\ poller' \in PollerState /\ poller'.pc = "next" /\ poller'.next = told_up
        /\ poller'.last = arrived /\ poller'.offset = poller.offset
    BY <1>1, <1>2, <2>1, PollerTypes DEF PollerState, Positions
  <2>3. PollerTypeOK'
    BY <1>1, <1>2, <2>2 DEF PollerInv, PollerTypeOK
  <2>4. InBatch'
    BY <1>2, <1>4, <2>2 DEF InBatch, Waits, Current
  <2>5. AllSettled'
    <3>1. \A u \in Updates : u < poller.offset => u < told_up
      BY <1>1, <1>2, PollerTypes DEF Updates
    <3> QED BY <1>1, <1>3, <2>2, <3>1 DEF AllSettled, Current
  <2>6. VerdictsFollow'
    BY <1>1, <2>2, MessageOccurs
    DEF PollerInv, VerdictsFollow, VerdictOf, Waits, SubmissionsStay
  <2> QED BY <2>3, <2>4, <2>5, <2>6 DEF PollerInv
<1>5. CASE ~(told_up <= arrived)
  <2>1. poller' = poller
    BY <1>1, <1>5 DEF GetUpdates
  <2>2. PollerTypeOK'
    BY <1>1, <1>2, <2>1 DEF PollerInv, PollerTypeOK
  <2>3. InBatch'
    BY <1>1, <2>1 DEF InBatch, Waits
  <2>4. AllSettled'
    <3>1. \A u \in Updates : u < poller.offset => u < told_up
      BY <1>1, <1>2, PollerTypes DEF Updates
    <3> QED BY <1>1, <1>3, <2>1, <3>1 DEF AllSettled, Waits
  <2>5. VerdictsFollow'
    BY <1>1, <2>1, MessageOccurs
    DEF PollerInv, VerdictsFollow, VerdictOf, Waits, Current, SubmissionsStay
  <2> QED BY <2>2, <2>3, <2>4, <2>5 DEF PollerInv
<1> QED BY <1>4, <1>5

LEMMA HandleKeeps ==
    ASSUME PollerInv, SubmissionsStay, Handle
    PROVE  PollerInv'
<1>1. ~Waits("poll") /\ Current \in Updates
  BY PollerTypes DEF Handle, Waits
<1>2. CASE Blocked
  BY <1>2, BlockedKeeps
<1>3. CASE ~Blocked
  <2>1. Quietly /\ dead' = dead
    BY <1>3 DEF Handle, Quietly
  <2>2. CASE ~Mine(Current) /\ Acknowledged
    <3>1. UpdateSettled(Current)
      BY <2>2 DEF Mine, UpdateSettled, CarriesReceipt
    <3>2. told' \in [Updates -> SUBSET Replies]
      BY <2>1 DEF PollerInv, PollerTypeOK, Quietly
    <3>3. \A u \in Updates \cap WithPath :
              /\ \A v, w \in VerdictOf(u)' : v = w
              /\ VerdictOf(u)' # {} => submissions'[Message(u)] > 0
      BY <2>1, MessageOccurs DEF PollerInv, VerdictsFollow, VerdictOf, SubmissionsStay, Quietly
    <3> QED BY <1>1, <2>1, <2>2, <3>1, <3>2, <3>3, AcknowledgedKeeps DEF Quietly
  <2>3. CASE Mine(Current) /\ HasFile(Current) /\ Goes("file")
    <3>1. PICK reply \in Replies : reply = poller.reply
      BY PollerTypes
    <3>2. poller' = [poller EXCEPT !.pc = "file", !.reply = reply]
      BY <2>3, <3>1, PollerTypes DEF Goes, PollerState
    <3>3. Current \in Authorized \cap WithFile /\ "file" \in Positions \ {"poll"}
      BY <2>3 DEF Mine, HasFile, Positions
    <3> QED BY <1>1, <2>1, <3>2, <3>3, UpdateGoesOn
  <2>4. CASE /\ Mine(Current) /\ ~HasFile(Current)
             /\ poller' = [poller EXCEPT !.pc = "send", !.reply = "help"]
    <3>1. Current \notin WithPath /\ Current \in Authorized
      BY <2>4, ReceiptsAreUpdates DEF HasFile, Mine
    <3>2. "help" \in Replies /\ "send" \in Positions \ {"poll"}
      BY DEF Replies, Positions
    <3> QED BY <1>1, <2>1, <2>4, <3>1, <3>2, UpdateGoesOn DEF CarriesReceipt
  <2> QED BY <1>3, <2>2, <2>3, <2>4 DEF Handle
<1> QED BY <1>2, <1>3

LEMMA TransferKeeps ==
    ASSUME PollerInv, SubmissionsStay, GetFile \/ Download
    PROVE  PollerInv'
<1>1. ~Waits("poll") /\ Current \in Updates
  BY PollerTypes DEF GetFile, Download, Waits
<1>2. CASE Blocked \/ Failed
  BY <1>1, <1>2, BlockedKeeps, FailedKeeps
<1>3. CASE ~(Blocked \/ Failed)
  <2>1. Quietly /\ dead' = dead
    BY <1>3 DEF GetFile, Download, Request, Quietly
  <2>2. PICK reply \in Replies : reply = poller.reply
    BY PollerTypes
  <2>3. ASSUME NEW pc \in Positions, Goes(pc)
        PROVE  poller' = [poller EXCEPT !.pc = pc, !.reply = reply]
    BY <2>2, <2>3, PollerTypes DEF Goes, PollerState
  <2>4. CASE GetFile /\ Current \in WithPath
    <3>1. Goes("download") /\ CarriesReceipt(Current) /\ "download" \in Positions \ {"poll"}
      BY <1>3, <2>4 DEF GetFile, Request, PollerInv, InBatch, CarriesReceipt, Positions
    <3> QED BY <1>1, <2>1, <2>3, <3>1, UpdateGoesOn
  <2>5. CASE GetFile /\ Current \notin WithPath
    <3>1. /\ poller' = [poller EXCEPT !.pc = "send", !.reply = "staged"]
          /\ "send" \in Positions \ {"poll"} /\ "staged" \in Replies
          /\ Current \in Authorized
      BY <1>3, <2>5 DEF GetFile, Request, Positions, Replies, PollerInv, InBatch
    <3> QED BY <1>1, <2>1, <2>5, <3>1, UpdateGoesOn DEF CarriesReceipt
  <2>6. CASE Download
    <3>1. Goes("capture") /\ CarriesReceipt(Current) /\ "capture" \in Positions \ {"poll"}
      BY <1>3, <2>6 DEF Download, Request, PollerInv, InBatch, Positions
    <3> QED BY <1>1, <2>1, <2>3, <3>1, UpdateGoesOn
  <2> QED BY <2>4, <2>5, <2>6
<1> QED BY <1>2, <1>3

(* The verdict of a capture is the first one of its update: a repetition is  *)
(* answered as a duplicate.                                                  *)
LEMMA CaptureUpdateKeeps ==
    ASSUME TablesInv, PollerInv, CaptureUpdate, UNCHANGED processVars
    PROVE  PollerInv' /\ TablesInv' /\ SubmissionsStay
<1>1. ~Waits("poll") /\ Current \in Updates /\ CarriesReceipt(Current) /\ Waits("capture")
  BY PollerTypes DEF CaptureUpdate, Waits, PollerInv, InBatch
<1>2. Message(Current) \in Occurrences
  BY <1>1, MessageOccurs
<1>3. CASE Failed /\ UNCHANGED captureTables
  <2>1. TablesInv' /\ SubmissionsStay
    BY <1>3, TablesStay DEF TablesInv, CaptureTypeOK, processVars
  <2> QED BY <1>1, <1>3, <2>1, FailedKeeps
<1>4. CASE ~(Failed /\ UNCHANGED captureTables)
  <2>1. /\ Captured(Message(Current)) /\ Quietly /\ dead' = dead
        /\ poller' = IF Duplicate(Message(Current))
                     THEN [poller EXCEPT !.pc = "send", !.reply = "duplicate"]
                     ELSE [poller EXCEPT !.pc = "wait"]
    BY <1>4 DEF CaptureUpdate, Quietly
  <2>2. TablesInv' /\ SubmissionsStay /\ submissions'[Message(Current)] > 0
    BY <1>2, <2>1, CapturedOnce
  <2>3. CASE Duplicate(Message(Current))
    <3>1. /\ "send" \in Positions \ {"poll"} /\ "duplicate" \in Replies
          /\ "duplicate" \notin Verdicts
      BY DEF Positions, Replies, Verdicts
    <3> QED BY <1>1, <2>1, <2>2, <2>3, <3>1, UpdateGoesOn DEF CarriesReceipt
  <2>4. CASE ~Duplicate(Message(Current))
    <3>1. PICK reply \in Replies : reply = poller.reply
      BY PollerTypes
    <3>2. poller' = [poller EXCEPT !.pc = "wait", !.reply = reply]
      BY <2>1, <2>4, <3>1, PollerTypes DEF PollerState
    <3>3. "wait" \in Positions \ {"poll"}
      BY DEF Positions
    <3>4. VerdictOf(Current) = {}
      BY <1>1, <2>4 DEF Duplicate, Replayed, PollerInv, VerdictsFollow, CarriesReceipt
    <3> QED BY <1>1, <2>1, <2>2, <3>2, <3>3, <3>4, UpdateGoesOn
  <2> QED BY <2>2, <2>3, <2>4
<1> QED BY <1>3, <1>4

LEMMA WaitKeeps ==
    ASSUME PollerInv, SubmissionsStay, WaitForReply
    PROVE  PollerInv'
<1>1. /\ ~Waits("poll") /\ Current \in Updates /\ CarriesReceipt(Current) /\ Waits("wait")
      /\ submissions[Message(Current)] > 0 /\ Quietly /\ dead' = dead
  BY PollerTypes DEF WaitForReply, Waits, PollerInv, InBatch, Quietly
<1>2. PICK reply \in Verdicts : poller' = [poller EXCEPT !.pc = "send", !.reply = reply]
  BY DEF WaitForReply
<1>3. reply \in Replies /\ "send" \in Positions \ {"poll"}
  BY DEF Verdicts, Replies, Positions
<1>4. VerdictOf(Current) = {}
  BY <1>1 DEF PollerInv, VerdictsFollow, CarriesReceipt
<1>5. submissions'[Message(Current)] > 0
  BY <1>1, MessageOccurs DEF SubmissionsStay
<1> QED BY <1>1, <1>2, <1>3, <1>4, <1>5, UpdateGoesOn DEF CarriesReceipt

LEMMA SendMessageKeeps ==
    ASSUME PollerInv, SubmissionsStay, SendMessage
    PROVE  PollerInv'
<1>1. ~Waits("poll") /\ Waits("send") /\ Current \in Updates /\ poller.reply \in Replies
  BY PollerTypes DEF SendMessage, Waits
<1>2. CASE Blocked \/ Failed
  BY <1>1, <1>2, BlockedKeeps, FailedKeeps
<1>3. CASE ~(Blocked \/ Failed)
  <2>1. /\ Acknowledged /\ told' = [told EXCEPT ![Current] = @ \cup {poller.reply}]
        /\ UNCHANGED <<arrived, confirmed, decisions, dead>>
    BY <1>3 DEF SendMessage, Request
  <2>2. UpdateSettled(Current)
    BY <1>1 DEF PollerInv, InBatch, UpdateSettled
  <2>3. told \in [Updates -> SUBSET Replies] /\ told' \in [Updates -> SUBSET Replies]
    BY <1>1, <2>1 DEF PollerInv, PollerTypeOK
  <2>4. ASSUME NEW u \in Updates \cap WithPath
        PROVE  /\ \A v, w \in VerdictOf(u)' : v = w
               /\ VerdictOf(u)' # {} => submissions'[Message(u)] > 0
    <3>1. /\ \A v, w \in VerdictOf(u) : v = w
          /\ VerdictOf(u) # {} => submissions[Message(u)] > 0
      BY DEF PollerInv, VerdictsFollow
    <3>2. submissions[Message(u)] > 0 => submissions'[Message(u)] > 0
      BY MessageOccurs DEF SubmissionsStay
    <3>3. CASE u # Current
      <4>1. VerdictOf(u)' = VerdictOf(u)
        BY <2>1, <2>3, <3>3 DEF VerdictOf
      <4> QED BY <3>1, <3>2, <4>1
    <3>4. CASE u = Current /\ poller.reply \notin Verdicts
      <4>1. VerdictOf(u)' = VerdictOf(u)
        BY <2>1, <2>3, <3>4 DEF VerdictOf
      <4> QED BY <3>1, <3>2, <4>1
    <3>5. CASE u = Current /\ poller.reply \in Verdicts
      <4>1. VerdictOf(u) = {}
        BY <1>1, <3>5 DEF PollerInv, VerdictsFollow
      <4>2. VerdictOf(u)' = {poller.reply}
        BY <2>1, <2>3, <3>5, <4>1 DEF VerdictOf
      <4>3. submissions[Message(u)] > 0 \/ ~CarriesReceipt(u)
        BY <1>1, <3>5 DEF PollerInv, InBatch
      <4>4. CarriesReceipt(u)
        BY <1>1, <3>5 DEF PollerInv, InBatch, CarriesReceipt
      <4> QED BY <3>2, <4>2, <4>3, <4>4
    <3> QED BY <3>3, <3>4, <3>5
  <2> QED BY <1>1, <2>1, <2>2, <2>3, <2>4, AcknowledgedKeeps
<1> QED BY <1>2, <1>3

LEMMA PollerStopsKeeps ==
    ASSUME PollerInv, SubmissionsStay, PollerStops
    PROVE  PollerInv'
<1>1. Fresh \in PollerState /\ Fresh.pc = "poll" /\ Fresh.offset = 0
  BY ReceiptsAreUpdates DEF Fresh, PollerState, Positions, Replies, DeadLetter
<1>2. \A u \in Updates : ~(u < 0)
  BY DEF Updates
<1> QED BY <1>1, <1>2, BatchEnds DEF PollerStops, Quietly, PollerInv, PollerTypeOK

LEMMA ChatKeeps ==
    ASSUME PollerInv, SubmissionsStay, Send \/ \E decision \in BOOLEAN : RecordDecision(decision)
    PROVE  PollerInv'
<1>1. /\ UNCHANGED <<confirmed, poller, dead, told>>
      /\ arrived' \in {arrived, arrived + 1} /\ arrived' <= Sent
      /\ decisions' \in Seq(BOOLEAN) /\ Len(decisions') <= MaxDecisions
  <2>1. CASE Send
    BY <2>1, ReceiptsAreUpdates DEF Send, PollerInv, PollerTypeOK
  <2>2. ASSUME NEW decision \in BOOLEAN, RecordDecision(decision)
        PROVE  /\ UNCHANGED <<arrived, confirmed, poller, dead, told>>
               /\ decisions' \in Seq(BOOLEAN) /\ Len(decisions') <= MaxDecisions
    <3>1. decisions \in Seq(BOOLEAN) /\ MaxDecisions \in Nat
          /\ Len(decisions) < MaxDecisions /\ decisions' = Append(decisions, decision)
      BY <2>2, PollerAssumption DEF RecordDecision, PollerInv, PollerTypeOK
    <3>2. decisions' \in Seq(BOOLEAN) /\ Len(decisions') = Len(decisions) + 1
      BY <3>1
    <3>3. Len(decisions) \in Nat
      BY <3>1
    <3> QED BY <2>2, <3>1, <3>2, <3>3 DEF RecordDecision
  <2> QED BY <2>1, <2>2, ReceiptsAreUpdates DEF PollerInv, PollerTypeOK
<1>2. PollerTypeOK'
  BY <1>1, PollerTypes, ReceiptsAreUpdates DEF PollerInv, PollerTypeOK
<1>3. InBatch' /\ AllSettled'
  BY <1>1, SettledStays, MessageOccurs, ReceiptsAreUpdates
  DEF PollerInv, InBatch, AllSettled, Waits, Current, CarriesReceipt, SubmissionsStay
<1>4. VerdictsFollow'
  BY <1>1, MessageOccurs
  DEF PollerInv, VerdictsFollow, VerdictOf, Waits, Current, SubmissionsStay
<1> QED BY <1>2, <1>3, <1>4 DEF PollerInv

LEMMA PollerSteps ==
    ASSUME PollerInv, SubmissionsStay, PollerStep
    PROVE  PollerInv'
  BY GetUpdatesKeeps, HandleKeeps, TransferKeeps, WaitKeeps, SendMessageKeeps DEF PollerStep

-----------------------------------------------------------------------------
(* The service *)

ChannelsInv ==
    /\ configured \in Configurations
    /\ TablesInv
    /\ InboxInv
    /\ PollerInv

LEMMA ChannelsStart == Init => ChannelsInv
<1> SUFFICES ASSUME Init PROVE ChannelsInv
  OBVIOUS
<1>1. TablesInv
  BY ChannelAssumption DEF Init, CaptureInit, TablesInv, CaptureTypeOK, OneSubmission
<1>2. InboxInv
  <2>1. InboxTypeOK
    BY IdleThread, InboxAssumption DEF Init, InboxInit, InboxTypeOK, WholeSize, Quarantine
  <2>2. OneOccupant /\ HasRead /\ Watched
    BY IdleThread DEF Init, InboxInit, OneOccupant, HasRead, Watched, Untried
  <2> QED BY <2>1, <2>2 DEF InboxInv
<1>3. PollerInv
  <2>1. Fresh \in PollerState /\ Fresh.pc = "poll" /\ Fresh.offset = 0
    BY ReceiptsAreUpdates DEF Fresh, PollerState, Positions, Replies, DeadLetter
  <2>2. PollerTypeOK
    BY <2>1, PollerAssumption DEF Init, PollerInit, PollerTypeOK
  <2>3. InBatch /\ AllSettled
    BY <2>1 DEF Init, PollerInit, InBatch, AllSettled, Waits, Updates
  <2>4. VerdictsFollow
    BY <2>1 DEF Init, PollerInit, VerdictsFollow, VerdictOf, Waits
  <2> QED BY <2>2, <2>3, <2>4 DEF PollerInv
<1> QED BY <1>1, <1>2, <1>3 DEF Init, ChannelsInv

(* The process does not change, and stays or stops counting within bounds.   *)
LEMMA TablesRest ==
    ASSUME TablesInv, UNCHANGED captureTables, UNCHANGED processVars
    PROVE  TablesInv' /\ SubmissionsStay
  BY TablesStay DEF TablesInv, CaptureTypeOK, processVars

LEMMA ChannelsStep ==
    ASSUME ChannelsInv, [Next]_vars
    PROVE  ChannelsInv' /\ SubmissionsStay
<1>0. configured' \in Configurations
  BY DEF ChannelsInv, Next, vars, Senders, Operator, InboxWorks, PollerWorks, Stop, Start
<1>1. CASE Senders
  <2>1. TablesInv' /\ SubmissionsStay /\ up' = up
    BY <1>1, TablesRest DEF Senders, ChannelsInv, processVars
  <2>2. InboxInv'
    BY <1>1, <2>1, InboxSteps DEF Senders, ChannelsInv
  <2>3. PollerInv'
    BY <1>1, <2>1, PollerRests, ChatKeeps DEF Senders, ChannelsInv
  <2> QED BY <1>0, <2>1, <2>2, <2>3 DEF ChannelsInv
<1>2. CASE Operator
  <2>1. TablesInv' /\ SubmissionsStay /\ up' = up /\ UNCHANGED inboxVars
    BY <1>2, TablesRest, RemovalKeeps DEF Operator, RemoveDocument, ChannelsInv, processVars
  <2>2. InboxInv'
    BY <2>1, InboxSteps DEF ChannelsInv
  <2>3. PollerInv'
    BY <1>2, <2>1, PollerRests, ChatKeeps DEF Operator, ChannelsInv
  <2> QED BY <1>0, <2>1, <2>2, <2>3 DEF ChannelsInv
<1>3. CASE InboxWorks
  <2>1. up' = up /\ UNCHANGED processVars /\ UNCHANGED pollerVars
    BY <1>3 DEF InboxWorks, processVars
  <2>2. TablesInv' /\ SubmissionsStay
    <3>1. ASSUME NEW t \in Threads, CaptureFile(t) PROVE TablesInv' /\ SubmissionsStay
      <4>1. CASE UNCHANGED captureTables
        BY <2>1, <4>1, TablesRest DEF ChannelsInv
      <4>2. CASE Captured(Occurrence(t))
        <5>1. Occurrence(t) \in Occurrences
          BY <3>1, InboxAssumption
          DEF CaptureFile, At, Occurrence, ChannelsInv, InboxInv, HasRead
        <5> QED BY <2>1, <4>2, <5>1, CapturedOnce DEF ChannelsInv
      <4> QED BY <3>1, <4>1, <4>2 DEF CaptureFile
    <3> QED BY <1>3, <2>1, <3>1, TablesRest DEF InboxWorks, InboxCapture, ChannelsInv
  <2>3. InboxInv'
    BY <1>3, <2>1, InboxSteps DEF InboxWorks, ChannelsInv
  <2>4. PollerInv'
    BY <2>1, <2>2, PollerRests DEF ChannelsInv
  <2> QED BY <1>0, <2>2, <2>3, <2>4 DEF ChannelsInv
<1>4. CASE PollerWorks
  <2>1. up' = up /\ UNCHANGED processVars /\ UNCHANGED inboxVars
    BY <1>4 DEF PollerWorks, processVars
  <2>2. TablesInv' /\ SubmissionsStay /\ PollerInv'
    BY <1>4, <2>1, TablesRest, PollerSteps, CaptureUpdateKeeps DEF PollerWorks, ChannelsInv
  <2>3. InboxInv'
    BY <2>1, InboxSteps DEF ChannelsInv
  <2> QED BY <1>0, <2>2, <2>3 DEF ChannelsInv
<1>5. CASE Stop
  <2>1. restarts' \in 0..MaxRestarts
    BY <1>5, ChannelAssumption DEF Stop, ChannelsInv, TablesInv, CaptureTypeOK
  <2>2. TablesInv' /\ SubmissionsStay
    BY <1>5, <2>1, TablesStay DEF Stop, ChannelsInv, TablesInv, CaptureTypeOK
  <2>3. InboxInv' /\ PollerInv'
    BY <1>5, <2>2, StopKeeps, PollerStopsKeeps DEF Stop, ChannelsInv
  <2> QED BY <1>0, <2>2, <2>3 DEF ChannelsInv
<1>6. CASE Start
  <2>1. TablesInv' /\ SubmissionsStay
    BY <1>6, TablesStay DEF Start, ChannelsInv, TablesInv, CaptureTypeOK
  <2>2. InboxInv' /\ PollerInv'
    BY <1>6, <2>1, StartKeeps, PollerRests DEF Start, ChannelsInv
  <2> QED BY <1>0, <2>1, <2>2 DEF ChannelsInv
<1>7. CASE UNCHANGED vars
  <2>1. UNCHANGED captureTables /\ UNCHANGED processVars /\ UNCHANGED inboxVars
        /\ UNCHANGED pollerVars /\ up' = up
    BY <1>7 DEF vars, processVars
  <2>2. TablesInv' /\ SubmissionsStay
    BY <2>1, TablesRest DEF ChannelsInv
  <2> QED BY <1>0, <2>1, <2>2, InboxSteps, PollerRests DEF ChannelsInv
<1> QED BY <1>1, <1>2, <1>3, <1>4, <1>5, <1>6, <1>7 DEF Next

LEMMA ChannelsInvariant == Spec => []ChannelsInv
<1>1. Init => ChannelsInv
  BY ChannelsStart
<1>2. ChannelsInv /\ [Next]_vars => ChannelsInv'
  BY ChannelsStep
<1> QED BY <1>1, <1>2, PTL DEF Spec

(* With names of their own, the files keep what is theirs as well.           *)
LEMMA OwnStep ==
    ASSUME DistinctNames, ChannelsInv, OwnInv, [Next]_vars
    PROVE  OwnInv'
<1>1. SubmissionsStay
  BY ChannelsStep
<1>2. CASE UNCHANGED inboxVars
  <2>1. ThreadsKnow'
    BY <1>1, <1>2, SeenOccurs DEF inboxVars, OwnInv, ThreadsKnow, Knows, SubmissionsStay
  <2> QED BY <1>1, <1>2, <2>1, OwnStays DEF inboxVars, OwnInv
<1>3. CASE Sending
  BY <1>1, <1>3, SenderOwn DEF ChannelsInv
<1>4. CASE InboxStep
  <2>1. Scan \in Threads /\ Pool \subseteq Threads
    BY DEF Threads
  <2> QED BY <1>1, <1>4, <2>1, LookOwn, SampleOwn, ReadOwn, MoveOwn DEF InboxStep, ChannelsInv
<1>5. CASE InboxCapture /\ UNCHANGED processVars
  BY <1>5, CaptureOwn DEF InboxCapture, ChannelsInv
<1>6. CASE InboxStops \/ InboxStarts
  BY <1>1, <1>6, RestartOwn DEF ChannelsInv
<1> QED BY <1>2, <1>3, <1>4, <1>5, <1>6
    DEF Next, vars, Senders, Operator, InboxWorks, PollerWorks, Stop, Start

LEMMA OwnInvariant == ASSUME DistinctNames PROVE Spec => []OwnInv
<1>1. Init => OwnInv
  <2> SUFFICES ASSUME Init PROVE OwnInv
    OBVIOUS
  <2>1. ThreadsKnow
    BY IdleThread DEF Init, InboxInit, ThreadsKnow, Knows
  <2>2. FailuresAreOwn
    BY NamesArePaths DEF Init, InboxInit, FailuresAreOwn
  <2>3. ProcessedIsCaptured /\ QuarantineEarned
    BY DEF Init, InboxInit, ProcessedIsCaptured, QuarantineEarned
  <2> QED BY <2>1, <2>2, <2>3 DEF OwnInv
<1>2. ChannelsInv /\ OwnInv /\ [Next]_vars => OwnInv'
  BY OwnStep
<1> QED BY <1>1, <1>2, ChannelsInvariant, PTL DEF Spec

-----------------------------------------------------------------------------
(* The theorems *)

LEMMA VerdictIsOne ==
    ASSUME ChannelsInv
    PROVE  OneVerdict
<1> SUFFICES ASSUME NEW u \in Updates \cap WithPath
             PROVE  Cardinality(told[u] \cap Verdicts) <= 1
  BY DEF OneVerdict
<1>1. \A v, w \in VerdictOf(u) : v = w
  BY DEF ChannelsInv, PollerInv, VerdictsFollow
<1>2. CASE VerdictOf(u) = {}
  BY <1>2, FS_EmptySet DEF VerdictOf
<1>3. CASE VerdictOf(u) # {}
  <2>1. PICK v : VerdictOf(u) = {v}
    BY <1>1, <1>3
  <2>2. Cardinality({v}) = 1
    BY FS_Singleton
  <2> QED BY <2>1, <2>2 DEF VerdictOf
<1> QED BY <1>2, <1>3

(* What a channel sees again is recognised: one thing has one submission and *)
(* one verdict, and no file is given up for the failures of another.         *)
THEOREM RepetitionsAreSeen == ASSUME DistinctNames PROVE Spec => []SeenOnce
<1>1. ChannelsInv /\ OwnInv => SeenOnce
  <2> SUFFICES ASSUME ChannelsInv, OwnInv PROVE SeenOnce
    OBVIOUS
  <2>1. TypeOK /\ OneSubmission
    BY DEF ChannelsInv, TablesInv, InboxInv, PollerInv, TypeOK
  <2> QED BY <2>1, VerdictIsOne DEF SeenOnce, OwnInv
<1> QED BY <1>1, ChannelsInvariant, OwnInvariant, PTL

(* No receipt is lost on its way from a channel: what is put away or         *)
(* acknowledged was captured or has failed itself, and nothing whole lies in *)
(* the inbox with nobody left to try it.                                     *)
THEOREM NoReceiptIsLost == ASSUME DistinctNames PROVE Spec => []NothingLost
<1>1. ASSUME ChannelsInv PROVE NothingForgotten
  <2> SUFFICES ASSUME up, toScan = {}, \A n \in Paths : tasks[n] = 0,
                      \A t \in Threads : At(t, "idle"),
                      NEW f \in Files, place[f] = "inbox", size[f] = WholeSize
               PROVE  raised[f] > 0
    BY DEF NothingForgotten
  <2>1. ~Pending(Name[f])
    BY NamesArePaths DEF Pending, Tries, At
  <2>2. ~Untried(f)
    BY <1>1, <2>1 DEF ChannelsInv, InboxInv, Watched
  <2> QED BY <1>1, <2>2 DEF Untried, ChannelsInv, InboxInv, InboxTypeOK, Quarantine
<1>2. ASSUME ChannelsInv PROVE ForgottenIsSettled
  <2>1. ASSUME NEW u \in Authorized \cap WithPath, u < Larger(confirmed, poller.offset)
        PROVE  submissions[Message(u)] > 0 \/ u \in dead
    <3>1. u \in Updates /\ CarriesReceipt(u)
      BY ReceiptsAreUpdates DEF CarriesReceipt
    <3>2. u < confirmed \/ u < poller.offset
      BY <2>1 DEF Larger
    <3> QED BY <1>2, <3>1, <3>2 DEF ChannelsInv, PollerInv, AllSettled, UpdateSettled
  <2> QED BY <2>1 DEF ForgottenIsSettled
<1>3. ChannelsInv /\ OwnInv => NothingLost
  BY <1>1, <1>2 DEF NothingLost, OwnInv
<1> QED BY <1>3, ChannelsInvariant, OwnInvariant, PTL

-----------------------------------------------------------------------------
(* The conversation of the chat page with Hermes.                             *)

(* What is on its way.                                                        *)
Command == [type : {"submit"}, about : Ids] \cup [type : {"answer"}, about : Questions]
           \cup [type : {"stop", "gone"}]
GatewayEvent == [type : {"start", "token", "done", "turn_error", "lost"}]
         \cup [type : {"ask", "cancel"}, about : Questions]
PageFrame == [type : {"token", "done", "turn_error", "close"}]
             \cup [type : {"accepted"}, about : Ids]
             \cup [type : {"request", "request_cancel"}, about : Questions]
             \cup [type : {"error"}, about : Codes]
             \cup [type : {"snapshot"}, running : BOOLEAN, open : SUBSET Questions]

FileType == [lock : Tabs \cup {None},
             receipts : UNION {[D -> {"sending", "accepted"}] : D \in SUBSET Ids}]
GatewayType == [turn : {"idle", "started", "speaking"}, open : SUBSET Questions,
                asked : SUBSET Questions, wire : SUBSET Ids, taken : [Ids -> Nat]]

ChatShape ==
    /\ conversation \in FileType
    /\ gateway \in GatewayType /\ gateway.open \subseteq gateway.asked
    /\ bridges \in [Tabs -> Bridge] /\ pages \in [Tabs -> Page]
    /\ commands \in [Tabs -> Seq(Command)] /\ frames \in [Tabs -> Seq(PageFrame)]
    /\ events \in [Tabs -> Seq(GatewayEvent)] /\ \A t \in Tabs : Len(events[t]) <= MaxEvents

Quiet(i) == gateway.taken[i] = 0 /\ i \notin gateway.wire

(* A prompt has a receipt before it is on the wire, is taken off the wire     *)
(* once, and a bridge that waits for its answer knows what became of it.      *)
PromptsHold ==
    /\ \A i \in Ids : Receipt(i) \/ Quiet(i)
    /\ \A i \in gateway.wire : gateway.taken[i] = 0
    /\ OneTurnEach /\ AcceptedIsTaken

CallHolds(t) == bridges[t].phase = "calling" =>
    LET i == bridges[t].call
    IN  /\ i \in Ids /\ Receipt(i) /\ conversation.receipts[i] = "sending"
        /\ bridges[t].reply = "taken" => gateway.taken[i] = 1
        /\ bridges[t].reply = "invalid_thread" => Quiet(i)

(* The thread is locked by the one bridge there is.                           *)
OneBridge == \A t \in Tabs : bridges[t].phase # "none" => conversation.lock = t

ServerInv == ChatShape /\ PromptsHold /\ OneBridge /\ \A t \in Tabs : CallHolds(t)

Submits(t, i) == \E k \in DOMAIN commands[t] : commands[t][k] = FrameOf("submit", i)

Calls(t, i) == bridges[t].phase = "calling" /\ bridges[t].call = i

(* What a page knows of its message, and what is on its way in its commands.  *)
PageInStep(t) ==
    LET shown == pages[t]
    IN  /\ shown.ready => shown.socket
        /\ shown.pending # None => shown.pending = shown.last
        /\ shown.draft => shown.last # None
        /\ ~shown.ready /\ shown.pending # None => shown.uncertain
        /\ ~shown.draft /\ shown.last # None => Receipt(shown.last)
        /\ \A i \in Ids : Submits(t, i) => shown.last = i
        /\ shown.socket => \A k \in DOMAIN commands[t] : commands[t][k].type # "gone"

(* The bridge of a page serves the message that the page shows.               *)
BridgeInStep(t) ==
    LET shown == pages[t]
    IN  /\ bridges[t].phase = "opening" =>
              frames[t] = <<>> /\ ~shown.ready /\ \A i \in Ids : ~Submits(t, i)
        /\ bridges[t].phase = "calling" =>
              /\ shown.draft /\ (shown.uncertain \/ shown.pending = bridges[t].call)
              /\ shown.last = bridges[t].call \/ ~Receipt(shown.last)

(* A snapshot is the first frame of a connection and a close the last one.    *)
FramesInStep(t) ==
    /\ ~pages[t].socket => frames[t] = <<>>
    /\ \A k \in DOMAIN frames[t] :
          /\ frames[t][k].type = "snapshot" =>
                /\ k = 1 /\ ~pages[t].ready /\ bridges[t].phase # "calling"
                /\ \A i \in Ids : ~Submits(t, i)
          /\ frames[t][k].type = "close" => k = Len(frames[t]) /\ bridges[t].phase = "none"
          /\ frames[t][k].type = "accepted" =>
                Receipt(frames[t][k].about) /\ conversation.receipts[frames[t][k].about] = "accepted"

OneAuthor == \A t, u \in Tabs : pages[t].last = pages[u].last /\ pages[t].last # None => t = u

(* The message of the page can never be taken unless it is sent again.        *)
Unsent(t) ==
    LET i == pages[t].last
    IN  Quiet(i) /\ ~Submits(t, i) /\ ~Calls(t, i)

(* The frames that end a page's wait for a message.                           *)
Clears(f, i) ==
    \/ f.type \in {"error", "turn_error", "close", "snapshot"}
    \/ f.type = "accepted" /\ f.about = i

Misleads(f) == f.type = "error" /\ f.about \notin UncertainCodes

(* Where the message of a waiting page is: first in the queue of its bridge,  *)
(* in the bridge's hands, or lost with the connection that the bridge closes. *)
FirstInQueue(t, i) ==
    /\ commands[t] # <<>> /\ commands[t][1] = FrameOf("submit", i) /\ Quiet(i)
    /\ \A k \in DOMAIN commands[t] : commands[t][k] = FrameOf("submit", i) => k = 1
    /\ bridges[t].phase # "calling"

OnItsWay(t, i) ==
    \/ FirstInQueue(t, i)
    \/ Calls(t, i) /\ ~Submits(t, i)
    \/ bridges[t].phase = "closing" /\ bridges[t].code \in UncertainCodes

(* A page that shows neither a pending nor an uncertain message has none that *)
(* was sent, and the first answer to a pending one says what became of it.    *)
Warned(t) ==
    LET shown == pages[t]
        i == shown.last
    IN  shown.draft /\ ~shown.uncertain =>
        /\ shown.pending = None => Unsent(t)
        /\ shown.pending # None =>
              /\ \A k \in DOMAIN frames[t] :
                    Misleads(frames[t][k]) /\ (\A j \in DOMAIN frames[t] : j < k => ~Clears(frames[t][j], i))
                        => Unsent(t)
              /\ (\A k \in DOMAIN frames[t] : ~Clears(frames[t][k], i)) => OnItsWay(t, i)

TabInv(t) == PageInStep(t) /\ BridgeInStep(t) /\ FramesInStep(t) /\ Warned(t)

ChatInv == ServerInv /\ OneAuthor /\ \A t \in Tabs : TabInv(t)

-----------------------------------------------------------------------------
(* Types                                                                      *)
LEMMA ConcatFacts ==
    ASSUME NEW S, NEW q \in Seq(S), NEW r \in Seq(S)
    PROVE  /\ q \o r \in Seq(S) /\ Len(q \o r) = Len(q) + Len(r) /\ Len(q) \in Nat /\ Len(r) \in Nat
           /\ \A k \in DOMAIN q : k \in DOMAIN (q \o r) /\ (q \o r)[k] = q[k]
           /\ \A k \in DOMAIN r : Len(q) + k \in DOMAIN (q \o r) /\ (q \o r)[Len(q) + k] = r[k]
           /\ \A k \in DOMAIN (q \o r) : k \in DOMAIN q \/ k - Len(q) \in DOMAIN r
           /\ DOMAIN q = 1 .. Len(q) /\ DOMAIN r = 1 .. Len(r)
  OBVIOUS

LEMMA TailFacts ==
    ASSUME NEW S, NEW q \in Seq(S), q # <<>>
    PROVE  /\ Tail(q) \in Seq(S) /\ Len(Tail(q)) = Len(q) - 1 /\ Head(q) = q[1] /\ Head(q) \in S
           /\ 1 \in DOMAIN q /\ Len(q) \in Nat
           /\ DOMAIN q = 1 .. Len(q) /\ DOMAIN Tail(q) = 1 .. Len(q) - 1
           /\ \A k \in DOMAIN Tail(q) : k + 1 \in DOMAIN q /\ Tail(q)[k] = q[k + 1]
           /\ \A k \in DOMAIN q : k = 1 \/ (k - 1 \in DOMAIN Tail(q) /\ Tail(q)[k - 1] = q[k])
  OBVIOUS

LEMMA QueuedType ==
    ASSUME NEW q \in Seq(GatewayEvent), Len(q) <= MaxEvents, NEW e \in GatewayEvent
    PROVE  Queued(q, e) \in Seq(GatewayEvent) /\ Len(Queued(q, e)) <= MaxEvents
<1>1. Frame("lost") \in GatewayEvent /\ MaxEvents \in Nat \ {0}
  BY ChatAssumption DEF Frame, GatewayEvent
<1>2. CASE Ended(q)
  BY <1>2 DEF Queued
<1>3. CASE ~Ended(q) /\ Len(q) = MaxEvents
  <2>1. Queued(q, e) = <<Frame("lost")>>
    BY <1>3 DEF Queued
  <2> QED
    BY <1>1, <2>1
<1>4. CASE ~Ended(q) /\ Len(q) # MaxEvents
  <2>1. Queued(q, e) = Append(q, e)
    BY <1>4 DEF Queued
  <2> QED
    BY <1>1, <1>4, <2>1
<1> QED
  BY <1>2, <1>3, <1>4

LEMMA EmitType ==
    ASSUME ChatShape, NEW e \in GatewayEvent, Emit(e)
    PROVE  events' \in [Tabs -> Seq(GatewayEvent)] /\ \A t \in Tabs : Len(events'[t]) <= MaxEvents
BY QueuedType DEF Emit, ChatShape

LEMMA Codings ==
    /\ UncertainCodes \subseteq Codes
    /\ \A code \in Codes : Error(code) \in PageFrame /\ Error(code).type = "error" /\ Error(code).about = code
    /\ \A i \in Ids : FrameOf("accepted", i) \in PageFrame /\ FrameOf("submit", i) \in Command
    /\ \A q \in Questions :
          /\ FrameOf("request", q) \in PageFrame /\ FrameOf("request_cancel", q) \in PageFrame
          /\ FrameOf("ask", q) \in GatewayEvent /\ FrameOf("cancel", q) \in GatewayEvent
          /\ FrameOf("answer", q) \in Command
    /\ Frame("close") \in PageFrame /\ Frame("gone") \in Command /\ Frame("stop") \in Command
    /\ \A type \in {"start", "token", "done", "turn_error", "lost"} : Frame(type) \in GatewayEvent
    /\ \A running \in BOOLEAN, open \in SUBSET Questions : Snapshot(running, open) \in PageFrame
BY DEF UncertainCodes, Codes, Error, FrameOf, Frame, Snapshot, PageFrame, Command, GatewayEvent

LEMMA ReceiptStep ==
    ASSUME ChatShape, NEW i \in Ids, NEW status \in {"sending", "accepted"},
           conversation' = WithReceipt(i, status)
    PROVE  /\ conversation' \in FileType
           /\ conversation'.lock = conversation.lock
           /\ \A j : Receipt(j)' <=> Receipt(j) \/ j = i
           /\ conversation'.receipts[i] = status
           /\ \A j : Receipt(j) /\ j # i => conversation'.receipts[j] = conversation.receipts[j]
<1> DEFINE R == conversation.receipts
           N == [j \in DOMAIN R \cup {i} |-> IF j = i THEN status ELSE R[j]]
<1>1. PICK D \in SUBSET Ids : R \in [D -> {"sending", "accepted"}]
  BY DEF ChatShape, FileType
<1>2. N \in [D \cup {i} -> {"sending", "accepted"}] /\ D \cup {i} \in SUBSET Ids
  BY <1>1
<1>3. conversation' = [conversation EXCEPT !.receipts = N]
  BY DEF WithReceipt
<1>4. conversation'.receipts = N /\ conversation'.lock = conversation.lock
      /\ conversation' = [lock |-> conversation.lock, receipts |-> N]
  BY <1>3 DEF ChatShape, FileType
<1>5. conversation'.lock \in Tabs \cup {None}
  BY <1>4 DEF ChatShape, FileType
<1> HIDE DEF N
<1>6. conversation' \in FileType
  BY <1>2, <1>4, <1>5 DEF FileType
<1> QED
  BY <1>1, <1>4, <1>6 DEF Receipt, N

LEMMA FileTyped ==
    ASSUME NEW c \in FileType
    PROVE  /\ c.lock \in Tabs \cup {None} /\ DOMAIN c.receipts \subseteq Ids
           /\ Range(c.receipts) \subseteq {"sending", "accepted"}
           /\ \A i \in DOMAIN c.receipts : c.receipts[i] \in {"sending", "accepted"}
<1>1. PICK D \in SUBSET Ids : c.receipts \in [D -> {"sending", "accepted"}]
  BY DEF FileType
<1> QED
  BY <1>1 DEF FileType, Range

LEMMA ShapeTyped == ChatShape => ChatTypeOK
BY FileTyped DEF ChatShape, ChatTypeOK, GatewayType

LEMMA LockStep ==
    ASSUME ChatShape, NEW t \in Tabs \cup {None}, conversation' = [conversation EXCEPT !.lock = t]
    PROVE  /\ conversation' \in FileType /\ conversation'.lock = t
           /\ conversation'.receipts = conversation.receipts
BY DEF ChatShape, FileType

LEMMA BridgeSet ==
    ASSUME ChatShape, NEW t \in Tabs, NEW b \in Bridge, SetBridge(t, b)
    PROVE  /\ bridges' \in [Tabs -> Bridge] /\ bridges'[t] = b
           /\ \A u \in Tabs \ {t} : bridges'[u] = bridges[u]
BY DEF ChatShape, SetBridge

LEMMA PageSet ==
    ASSUME ChatShape, NEW t \in Tabs, NEW p \in Page, SetPage(t, p)
    PROVE  /\ pages' \in [Tabs -> Page] /\ pages'[t] = p
           /\ \A u \in Tabs \ {t} : pages'[u] = pages[u]
BY DEF ChatShape, SetPage

LEMMA FramesSent ==
    ASSUME ChatShape, NEW t \in Tabs, NEW fs \in Seq(PageFrame), ToPage(t, fs)
    PROVE  /\ frames' \in [Tabs -> Seq(PageFrame)]
           /\ frames'[t] = IF pages[t].socket THEN frames[t] \o fs ELSE frames[t]
           /\ \A u \in Tabs \ {t} : frames'[u] = frames[u]
<1>1. frames[t] \o fs \in Seq(PageFrame) /\ frames \in [Tabs -> Seq(PageFrame)]
  BY DEF ChatShape
<1> QED
  BY <1>1 DEF ToPage

LEMMA BridgeEnds ==
    ASSUME ChatShape, NEW t \in Tabs, NEW code \in Codes \cup {"none"}, Fail(t, code)
    PROVE  /\ bridges' \in [Tabs -> Bridge] /\ bridges'[t].phase = "closing" /\ bridges'[t].code = code
           /\ \A u \in Tabs \ {t} : bridges'[u] = bridges[u]
<1> DEFINE b == [NoBridge EXCEPT !.phase = "closing", !.code = code]
<1>1. b \in Bridge /\ b.phase = "closing" /\ b.code = code
  BY DEF NoBridge, Bridge
<1>2. SetBridge(t, b)
  BY DEF Fail
<1> HIDE DEF b
<1> QED
  BY <1>1, <1>2, BridgeSet

LEMMA RepliedFacts ==
    ASSUME ChatShape, NEW i \in Ids, NEW reply \in {"taken", "failed", "invalid_thread"}, Replied(i, reply)
    PROVE  /\ bridges' \in [Tabs -> Bridge]
           /\ \A u \in Tabs :
                 /\ bridges'[u].phase = bridges[u].phase /\ bridges'[u].call = bridges[u].call
                 /\ bridges'[u].code = bridges[u].code
                 /\ bridges'[u].reply # bridges[u].reply => Calls(u, i) /\ bridges'[u].reply = reply
<1>1. ASSUME NEW u \in Tabs
      PROVE  /\ bridges[u] \in Bridge /\ [bridges[u] EXCEPT !.reply = reply] \in Bridge
             /\ [bridges[u] EXCEPT !.reply = reply].phase = bridges[u].phase
             /\ [bridges[u] EXCEPT !.reply = reply].call = bridges[u].call
             /\ [bridges[u] EXCEPT !.reply = reply].code = bridges[u].code
             /\ [bridges[u] EXCEPT !.reply = reply].reply = reply
  BY DEF ChatShape, Bridge
<1>2. \A u \in Tabs : bridges'[u] = IF bridges[u].phase = "calling" /\ bridges[u].call = i /\ ~Lost(u)
                                    THEN [bridges[u] EXCEPT !.reply = reply] ELSE bridges[u]
  BY DEF Replied
<1>3. bridges' \in [Tabs -> Bridge]
  BY <1>1, <1>2 DEF Replied
<1> QED
  BY <1>1, <1>2, <1>3 DEF Calls
-----------------------------------------------------------------------------
(* The server.                                                                *)
LEMMA Alone ==
    ASSUME ServerInv, NEW t \in Tabs, bridges[t].phase # "none"
    PROVE  conversation.lock = t /\ \A u \in Tabs \ {t} : bridges[u].phase = "none"
BY DEF ServerInv, OneBridge

PromptsKept == gateway'.wire = gateway.wire /\ gateway'.taken = gateway.taken

LEMMA ServerSame ==
    ASSUME ServerInv, ChatShape', PromptsKept, UNCHANGED <<conversation, bridges>>
    PROVE  ServerInv'
BY DEF ServerInv, PromptsKept, PromptsHold, OneTurnEach, AcceptedIsTaken, OneBridge, CallHolds, Quiet, Receipt

(* A bridge that ends, or that waits for no answer, makes no promise.         *)
LEMMA ServerQuiet ==
    ASSUME ServerInv, ChatShape', PromptsKept, NEW t \in Tabs,
           bridges[t].phase # "none", bridges'[t].phase # "calling",
           \A u \in Tabs \ {t} : bridges'[u] = bridges[u],
           conversation'.receipts = conversation.receipts,
           bridges'[t].phase = "none" \/ conversation'.lock = conversation.lock
    PROVE  ServerInv'
<1>1. PromptsHold'
  BY DEF ServerInv, PromptsKept, PromptsHold, OneTurnEach, AcceptedIsTaken, Quiet, Receipt
<1>2. OneBridge'
  BY Alone DEF OneBridge
<1>3. \A u \in Tabs : CallHolds(u)'
  BY Alone DEF CallHolds
<1> QED
  BY <1>1, <1>2, <1>3 DEF ServerInv

LEMMA ServerConnect ==
    ASSUME ServerInv, ChatShape', UNCHANGED gateway, NEW t \in Tabs,
           conversation.lock = None, conversation'.lock = t,
           conversation'.receipts = conversation.receipts,
           bridges'[t].phase = "opening", \A u \in Tabs \ {t} : bridges'[u] = bridges[u]
    PROVE  ServerInv'
<1>1. \A u \in Tabs : bridges[u].phase = "none"
  BY ChatAssumption DEF ServerInv, OneBridge
<1>2. PromptsHold'
  BY DEF ServerInv, PromptsHold, OneTurnEach, AcceptedIsTaken, Quiet, Receipt
<1>3. OneBridge'
  BY <1>1 DEF OneBridge
<1>4. \A u \in Tabs : CallHolds(u)'
  BY <1>1 DEF CallHolds
<1> QED
  BY <1>2, <1>3, <1>4 DEF ServerInv

(* The receipt of a prompt is written before it is on the wire.               *)
LEMMA ServerSends ==
    ASSUME ServerInv, ChatShape', NEW t \in Tabs, NEW i \in Ids,
           bridges[t].phase = "serving", ~Receipt(i), conversation' = WithReceipt(i, "sending"),
           bridges'[t].phase = "calling", bridges'[t].call = i, bridges'[t].reply \in {"failed", "none"},
           \A u \in Tabs \ {t} : bridges'[u] = bridges[u],
           gateway'.taken = gateway.taken, gateway'.wire \subseteq gateway.wire \cup {i}
    PROVE  ServerInv'
<1> USE ReceiptStep DEF ServerInv
<1>1. PromptsHold'
  <2>1. \A j \in Ids : Receipt(j)' \/ Quiet(j)'
    BY DEF PromptsHold, Quiet
  <2>2. \A j \in gateway'.wire : gateway'.taken[j] = 0
    BY DEF PromptsHold, Quiet
  <2>3. OneTurnEach'
    BY DEF PromptsHold, OneTurnEach
  <2>4. AcceptedIsTaken'
    <3> SUFFICES ASSUME NEW j \in DOMAIN conversation'.receipts, conversation'.receipts[j] = "accepted"
                 PROVE  gateway'.taken[j] = 1
      BY DEF AcceptedIsTaken
    <3>1. Receipt(j)' /\ j # i
      BY DEF Receipt
    <3>2. Receipt(j) /\ conversation.receipts[j] = "accepted"
      BY <3>1
    <3> QED
      BY <3>2 DEF PromptsHold, AcceptedIsTaken, Receipt
  <2> QED
    BY <2>1, <2>2, <2>3, <2>4 DEF PromptsHold
<1>2. OneBridge'
  <2>1. conversation'.lock = conversation.lock
    OBVIOUS
  <2> QED
    BY <2>1, Alone DEF OneBridge
<1>3. \A u \in Tabs : CallHolds(u)'
  BY Alone DEF CallHolds
<1> QED
  BY <1>1, <1>2, <1>3

LEMMA ServerAccepts ==
    ASSUME ServerInv, ChatShape', NEW t \in Tabs, NEW i, i = bridges[t].call,
           bridges[t].phase = "calling", bridges[t].reply = "taken",
           conversation' = WithReceipt(i, "accepted"), bridges'[t].phase = "serving",
           \A u \in Tabs \ {t} : bridges'[u] = bridges[u], UNCHANGED gateway
    PROVE  ServerInv'
<1>1. i \in Ids /\ Receipt(i) /\ gateway.taken[i] = 1
  BY DEF ServerInv, CallHolds
<1> USE <1>1, ReceiptStep DEF ServerInv
<1>2. PromptsHold'
  <2>1. (\A j \in Ids : Receipt(j)' \/ Quiet(j)') /\ (\A j \in gateway'.wire : gateway'.taken[j] = 0) /\ OneTurnEach'
    BY DEF PromptsHold, Quiet, OneTurnEach
  <2>2. AcceptedIsTaken'
    <3> SUFFICES ASSUME NEW j \in DOMAIN conversation'.receipts, conversation'.receipts[j] = "accepted"
                 PROVE  gateway'.taken[j] = 1
      BY DEF AcceptedIsTaken
    <3>1. Receipt(j)'
      BY DEF Receipt
    <3>2. CASE j = i
      BY <3>2
    <3>3. CASE j # i
      <4>1. Receipt(j) /\ conversation.receipts[j] = "accepted"
        BY <3>1, <3>3
      <4> QED
        BY <4>1 DEF PromptsHold, AcceptedIsTaken, Receipt
    <3> QED
      BY <3>2, <3>3
  <2> QED
    BY <2>1, <2>2 DEF PromptsHold
<1>3. OneBridge'
  <2>1. conversation'.lock = conversation.lock
    OBVIOUS
  <2> QED
    BY <2>1, Alone DEF OneBridge
<1>4. \A u \in Tabs : CallHolds(u)'
  BY Alone DEF CallHolds
<1> QED
  BY <1>2, <1>3, <1>4

(* A prompt leaves the wire once: taken, or refused.                          *)
LEMMA ServerHears ==
    ASSUME ServerInv, ChatShape', NEW i \in gateway.wire,
           NEW reply \in {"taken", "failed", "invalid_thread"}, Replied(i, reply),
           gateway'.wire = gateway.wire \ {i},
           gateway'.taken = IF reply = "taken" THEN [gateway.taken EXCEPT ![i] = @ + 1] ELSE gateway.taken,
           UNCHANGED conversation
    PROVE  ServerInv'
<1>1. i \in Ids /\ gateway.taken \in [Ids -> Nat] /\ gateway.taken[i] = 0 /\ Receipt(i)
  BY DEF ServerInv, ChatShape, GatewayType, PromptsHold, Quiet
<1>2. \A j \in Ids : gateway'.taken[j] = IF j = i /\ reply = "taken" THEN 1 ELSE gateway.taken[j]
  BY <1>1
<1>3. PromptsHold'
  <2>1. (\A j \in Ids : Receipt(j)' \/ Quiet(j)') /\ OneTurnEach'
    BY <1>1, <1>2 DEF ServerInv, PromptsHold, Quiet, OneTurnEach, Receipt
  <2>2. \A j \in gateway'.wire : gateway'.taken[j] = 0
    BY <1>1, <1>2 DEF ServerInv, PromptsHold, ChatShape, GatewayType
  <2>3. AcceptedIsTaken'
    BY <1>1, <1>2, FileTyped DEF ServerInv, PromptsHold, AcceptedIsTaken, ChatShape
  <2> QED
    BY <2>1, <2>2, <2>3 DEF PromptsHold
<1>4. OneBridge'
  BY RepliedFacts, <1>1 DEF ServerInv, OneBridge
<1>5. ASSUME NEW u \in Tabs PROVE CallHolds(u)'
  <2> SUFFICES ASSUME bridges'[u].phase = "calling"
               PROVE  LET c == bridges'[u].call
                      IN  /\ c \in Ids /\ c \in DOMAIN conversation'.receipts /\ conversation'.receipts[c] = "sending"
                          /\ bridges'[u].reply = "taken" => gateway'.taken[c] = 1
                          /\ bridges'[u].reply = "invalid_thread" =>
                                gateway'.taken[c] = 0 /\ c \notin gateway'.wire
    BY DEF CallHolds, Quiet, Receipt
  <2> DEFINE c == bridges[u].call
  <2>1. /\ bridges'[u].call = c /\ bridges[u].phase = "calling"
        /\ bridges'[u].reply = bridges[u].reply \/ (c = i /\ bridges'[u].reply = reply)
    BY RepliedFacts, <1>1 DEF ServerInv, Calls
  <2>2. /\ c \in Ids /\ Receipt(c) /\ conversation.receipts[c] = "sending"
        /\ bridges[u].reply = "taken" => gateway.taken[c] = 1
        /\ bridges[u].reply = "invalid_thread" => Quiet(c)
    BY <2>1 DEF ServerInv, CallHolds
  <2>3. bridges'[u].reply = "taken" => gateway'.taken[c] = 1
    BY <1>1, <1>2, <2>1, <2>2
  <2>4. bridges'[u].reply = "invalid_thread" => gateway'.taken[c] = 0 /\ c \notin gateway'.wire
    BY <1>1, <1>2, <2>1, <2>2 DEF Quiet
  <2> QED
    BY <2>1, <2>2, <2>3, <2>4 DEF Receipt
<1> QED
  BY <1>3, <1>4, <1>5 DEF ServerInv

-----------------------------------------------------------------------------
(* The pages.                                                                 *)

(* A receipt stays, and one that says accepted goes on saying it.             *)
FileGrows == \A i : Receipt(i) =>
    Receipt(i)' /\ (conversation.receipts[i] = "accepted" => conversation'.receipts[i] = "accepted")

LEMMA TabKept ==
    ASSUME ChatShape, NEW u \in Tabs, TabInv(u), pages'[u] = pages[u], commands'[u] = commands[u],
           frames'[u] = frames[u], bridges'[u].phase = bridges[u].phase,
           bridges'[u].call = bridges[u].call, bridges'[u].code = bridges[u].code, FileGrows,
           bridges[u].phase = "calling" => UNCHANGED conversation,
           \A i \in Ids : i = pages[u].last /\ Quiet(i) => Quiet(i)'
    PROVE  TabInv(u)'
<1>1. (\A i : Submits(u, i)' <=> Submits(u, i)) /\ (\A i : Calls(u, i)' <=> Calls(u, i))
  BY DEF Submits, Calls
<1>2. PageInStep(u)'
  BY <1>1 DEF TabInv, PageInStep, FileGrows
<1>3. BridgeInStep(u)'
  BY <1>1 DEF TabInv, BridgeInStep, Receipt
<1>4. FramesInStep(u)'
  BY <1>1 DEF TabInv, FramesInStep, FileGrows
<1>5. pages[u].last \in Ids \cup {None}
  BY DEF ChatShape, Page
<1>6. ASSUME pages[u].last \in Ids
      PROVE  /\ Unsent(u) => Unsent(u)'
             /\ \A i : i = pages[u].last /\ OnItsWay(u, i) => OnItsWay(u, i)'
  BY <1>1, <1>6 DEF Unsent, OnItsWay, FirstInQueue
<1>7. pages[u].draft => pages[u].last # None
  BY DEF TabInv, PageInStep
<1>8. Warned(u)'
  BY <1>5, <1>6, <1>7 DEF TabInv, Warned
<1> QED
  BY <1>2, <1>3, <1>4, <1>8 DEF TabInv

Shrinks(t) == \A k \in DOMAIN commands'[t] : \E j \in DOMAIN commands[t] : commands'[t][k] = commands[t][j]

(* What a bridge tells its page.                                              *)
FrameHolds(t, fs, k) ==
    /\ fs[k].type = "snapshot" =>
          /\ k = 1 /\ bridges[t].phase = "opening" /\ bridges'[t].phase # "calling"
    /\ fs[k].type = "close" => k = Len(fs) /\ bridges'[t].phase = "none"
    /\ fs[k].type = "accepted" =>
          fs[k].about \in DOMAIN conversation'.receipts /\ conversation'.receipts[fs[k].about] = "accepted"

(* A step of a bridge, which may send frames and take commands.               *)
LEMMA TabServed ==
    ASSUME ChatShape, NEW t \in Tabs, TabInv(t), pages'[t] = pages[t], NEW fs \in Seq(PageFrame),
           frames'[t] = IF pages[t].socket THEN frames[t] \o fs ELSE frames[t],
           Shrinks(t), FileGrows, bridges[t].phase # "none", bridges'[t].phase # "opening",
           BridgeInStep(t)', \A k \in DOMAIN fs : FrameHolds(t, fs, k),
           bridges'[t].phase = "calling" => bridges[t].phase = "calling" \/ \E i \in Ids : Submits(t, i),
           pages[t].draft /\ Unsent(t) => Unsent(t)',
           NEW m, m = pages[t].last,
           OnItsWay(t, m) /\ pages[t].ready /\ pages[t].draft /\ ~pages[t].uncertain /\ pages[t].pending = m =>
              /\ \A k \in DOMAIN fs : Misleads(fs[k]) /\ (\A j \in DOMAIN fs : j < k => ~Clears(fs[j], m))
                                        => Unsent(t)'
              /\ (\A k \in DOMAIN fs : ~Clears(fs[k], m)) => OnItsWay(t, m)'
    PROVE  TabInv(t)'
<1>1. \A i : Submits(t, i)' => Submits(t, i)
  BY DEF Submits, Shrinks
<1>2. PageInStep(t)'
  BY <1>1 DEF TabInv, PageInStep, FileGrows, Shrinks
<1>3. frames[t] \in Seq(PageFrame) /\ pages[t] \in Page
  BY DEF ChatShape
<1> DEFINE q == frames[t]
           r == frames[t] \o fs
<1>4. /\ r \in Seq(PageFrame) /\ Len(r) = Len(q) + Len(fs) /\ Len(q) \in Nat /\ Len(fs) \in Nat
      /\ \A k \in DOMAIN q : k \in DOMAIN r /\ r[k] = q[k]
      /\ \A k \in DOMAIN fs : Len(q) + k \in DOMAIN r /\ r[Len(q) + k] = fs[k]
      /\ \A k \in DOMAIN r : k \in DOMAIN q \/ k - Len(q) \in DOMAIN fs
      /\ DOMAIN q = 1 .. Len(q) /\ DOMAIN fs = 1 .. Len(fs) /\ DOMAIN r = 1 .. Len(r)
  BY <1>3, ConcatFacts
<1>5. ASSUME NEW k \in DOMAIN r, k \notin DOMAIN q
      PROVE  \E j \in DOMAIN fs : k = Len(q) + j /\ r[k] = fs[j]
  <2> HIDE DEF q, r
  <2>1. k \in 1 .. Len(r) /\ k - Len(q) \in DOMAIN fs
    BY <1>4, <1>5
  <2>2. k = Len(q) + (k - Len(q))
    BY <1>4, <2>1
  <2>3. r[k] = fs[k - Len(q)]
    BY <1>4, <2>1, <2>2
  <2> QED
    BY <2>1, <2>2, <2>3
<1> HIDE DEF q, r
<1>6. FramesInStep(t)'
  <2>1. CASE ~pages[t].socket
    BY <2>1 DEF TabInv, FramesInStep
  <2>2. CASE pages[t].socket
    <3> SUFFICES ASSUME NEW k \in DOMAIN r
                 PROVE  /\ r[k].type = "snapshot" =>
                              /\ k = 1 /\ ~pages[t].ready /\ bridges'[t].phase # "calling"
                              /\ \A i \in Ids : ~Submits(t, i)'
                        /\ r[k].type = "close" => k = Len(r) /\ bridges'[t].phase = "none"
                        /\ r[k].type = "accepted" =>
                              r[k].about \in DOMAIN conversation'.receipts /\ conversation'.receipts[r[k].about] = "accepted"
      BY <2>2 DEF FramesInStep, Receipt, r
    <3>1. CASE k \in DOMAIN q
      <4>1. r[k] = q[k]
        BY <1>4, <3>1
      <4>2. r[k].type # "close"
        BY <3>1, <4>1 DEF TabInv, FramesInStep, q
      <4>3. r[k].type = "snapshot" => k = 1 /\ ~pages[t].ready /\ bridges'[t].phase # "calling"
                                       /\ \A i \in Ids : ~Submits(t, i)'
        BY <3>1, <4>1, <1>1 DEF TabInv, FramesInStep, q
      <4>4. r[k].type = "accepted" =>
                r[k].about \in DOMAIN conversation'.receipts /\ conversation'.receipts[r[k].about] = "accepted"
        BY <3>1, <4>1 DEF TabInv, FramesInStep, FileGrows, Receipt, q
      <4> QED
        BY <4>2, <4>3, <4>4
    <3>2. CASE k \notin DOMAIN q
      <4>1. PICK j \in DOMAIN fs : k = Len(q) + j /\ r[k] = fs[j]
        BY <1>5, <3>2
      <4>2. r[k].type = "snapshot" => k = 1 /\ ~pages[t].ready /\ bridges'[t].phase # "calling"
                                       /\ \A i \in Ids : ~Submits(t, i)'
        <5> SUFFICES ASSUME fs[j].type = "snapshot"
                     PROVE  k = 1 /\ ~pages[t].ready /\ bridges'[t].phase # "calling"
                            /\ \A i \in Ids : ~Submits(t, i)'
          BY <4>1
        <5>1. j = 1 /\ bridges[t].phase = "opening" /\ bridges'[t].phase # "calling"
          BY DEF FrameHolds
        <5>2. q = <<>> /\ ~pages[t].ready /\ \A i \in Ids : ~Submits(t, i)
          BY <5>1 DEF TabInv, BridgeInStep, q
        <5>3. Len(q) = 0
          BY <5>2
        <5> QED
          BY <1>1, <4>1, <5>1, <5>2, <5>3
      <4>3. r[k].type = "close" => k = Len(r) /\ bridges'[t].phase = "none"
        BY <1>4, <4>1 DEF FrameHolds
      <4> QED
        BY <4>1, <4>2, <4>3 DEF FrameHolds
    <3> QED
      BY <3>1, <3>2
  <2> QED
    BY <2>1, <2>2
<1>7. Warned(t)'
  <2> SUFFICES ASSUME pages[t].draft, ~pages[t].uncertain
               PROVE  /\ pages[t].pending = None => Unsent(t)'
                      /\ pages[t].pending # None =>
                            /\ \A k \in DOMAIN frames'[t] :
                                  Misleads(frames'[t][k])
                                  /\ (\A j \in DOMAIN frames'[t] : j < k => ~Clears(frames'[t][j], m))
                                      => Unsent(t)'
                            /\ (\A k \in DOMAIN frames'[t] : ~Clears(frames'[t][k], m)) => OnItsWay(t, m)'
    BY DEF Warned
  <2>1. pages[t].pending = None => Unsent(t)'
    BY DEF TabInv, Warned
  <2>2. ASSUME pages[t].pending # None
        PROVE  /\ \A k \in DOMAIN frames'[t] :
                     Misleads(frames'[t][k])
                     /\ (\A j \in DOMAIN frames'[t] : j < k => ~Clears(frames'[t][j], m))
                         => Unsent(t)'
               /\ (\A k \in DOMAIN frames'[t] : ~Clears(frames'[t][k], m)) => OnItsWay(t, m)'
    <3>1. pages[t].ready /\ pages[t].socket /\ pages[t].pending = m
      BY <2>2 DEF TabInv, PageInStep
    <3>2. frames'[t] = r
      BY <3>1 DEF r
    <3>3. \A k \in DOMAIN q : Misleads(q[k]) /\ (\A j \in DOMAIN q : j < k => ~Clears(q[j], m)) => Unsent(t)
      BY <2>2 DEF TabInv, Warned, q
    <3>4. (\A k \in DOMAIN q : ~Clears(q[k], m)) => OnItsWay(t, m)
      BY <2>2 DEF TabInv, Warned, q
    <3>5. ASSUME NEW k \in DOMAIN r, Misleads(r[k]), \A j \in DOMAIN r : j < k => ~Clears(r[j], m)
          PROVE  Unsent(t)'
      <4>1. CASE k \in DOMAIN q
        <5>1. Misleads(q[k]) /\ \A j \in DOMAIN q : j < k => ~Clears(q[j], m)
          BY <1>4, <3>5, <4>1
        <5> QED
          BY <3>3, <4>1, <5>1
      <4>2. CASE k \notin DOMAIN q
        <5>1. PICK j \in DOMAIN fs : k = Len(q) + j /\ r[k] = fs[j]
          BY <1>5, <4>2
        <5>2. ASSUME NEW n \in DOMAIN q PROVE ~Clears(q[n], m)
          <6>1. n \in 1 .. Len(q) /\ j \in 1 .. Len(fs) /\ n \in DOMAIN r /\ r[n] = q[n]
            BY <1>4
          <6>2. n < k
            BY <1>4, <5>1, <6>1
          <6> QED
            BY <3>5, <6>1, <6>2
        <5>3. ASSUME NEW n \in DOMAIN fs, n < j PROVE ~Clears(fs[n], m)
          <6>1. n \in 1 .. Len(fs) /\ j \in 1 .. Len(fs) /\ Len(q) + n \in DOMAIN r /\ r[Len(q) + n] = fs[n]
            BY <1>4
          <6>2. Len(q) + n < k
            BY <1>4, <5>1, <5>3, <6>1
          <6> QED
            BY <3>5, <6>1, <6>2
        <5>4. OnItsWay(t, m)
          BY <3>4, <5>2
        <5> QED
          BY <3>1, <3>5, <5>1, <5>3, <5>4
      <4> QED
        BY <3>1, <4>1, <4>2
    <3>6. ASSUME \A k \in DOMAIN r : ~Clears(r[k], m) PROVE OnItsWay(t, m)'
      <4>1. (\A k \in DOMAIN q : ~Clears(q[k], m)) /\ (\A k \in DOMAIN fs : ~Clears(fs[k], m))
        BY <1>4, <3>6
      <4> QED
        BY <3>1, <3>4, <4>1
    <3> QED
      BY <3>2, <3>5, <3>6
  <2> QED
    BY <2>1, <2>2
<1> QED
  BY <1>2, <1>6, <1>7 DEF TabInv

Elsewhere(t) == \A u \in Tabs \ {t} :
    /\ pages'[u] = pages[u] /\ commands'[u] = commands[u]
    /\ frames'[u] = frames[u] /\ bridges'[u] = bridges[u]

(* The message that a page shows is no other page's.                          *)
LEMMA TabAlone ==
    ASSUME ChatInv, ServerInv', NEW t \in Tabs, Elsewhere(t), TabInv(t)', OneAuthor', FileGrows,
           UNCHANGED conversation \/ bridges[t].phase # "none" \/ \A u \in Tabs : bridges[u].phase # "calling",
           \A i \in Ids : Quiet(i) => Quiet(i)' \/ Submits(t, i)
    PROVE  ChatInv'
<1>1. ASSUME NEW u \in Tabs \ {t} PROVE TabInv(u)'
  <2>1. bridges[u].phase = "calling" => UNCHANGED conversation
    BY Alone DEF ChatInv
  <2>2. ASSUME NEW i \in Ids, i = pages[u].last, Quiet(i) PROVE Quiet(i)'
    <3>1. ~Submits(t, i)
      BY <2>2, ChatAssumption DEF ChatInv, OneAuthor, TabInv, PageInStep
    <3> QED
      BY <2>2, <3>1
  <2>3. ChatShape /\ TabInv(u)
    BY DEF ChatInv, ServerInv
  <2>4. /\ pages'[u] = pages[u] /\ commands'[u] = commands[u] /\ frames'[u] = frames[u]
        /\ bridges'[u].phase = bridges[u].phase /\ bridges'[u].call = bridges[u].call
        /\ bridges'[u].code = bridges[u].code
    BY DEF Elsewhere
  <2> QED
    BY <2>1, <2>2, <2>3, <2>4, TabKept
<1> QED
  BY <1>1 DEF ChatInv

(* A step of a bridge that does not end with a call.                          *)
LEMMA BridgeTells ==
    ASSUME ChatInv, ServerInv', NEW t \in Tabs, Elsewhere(t), UNCHANGED pages, FileGrows,
           bridges[t].phase # "none", bridges'[t].phase \notin {"calling", "opening"},
           \A i \in Ids : Quiet(i) => Quiet(i)', Shrinks(t), NEW fs \in Seq(PageFrame),
           frames'[t] = IF pages[t].socket THEN frames[t] \o fs ELSE frames[t],
           \A k \in DOMAIN fs : FrameHolds(t, fs, k),
           NEW m, m = pages[t].last,
           OnItsWay(t, m) /\ m \in Ids /\ pages[t].socket =>
              /\ \A k \in DOMAIN fs : Misleads(fs[k]) /\ (\A j \in DOMAIN fs : j < k => ~Clears(fs[j], m))
                                        => Quiet(m)' /\ ~Submits(t, m)'
              /\ (\A k \in DOMAIN fs : ~Clears(fs[k], m)) => OnItsWay(t, m)'
    PROVE  ChatInv'
<1>1. ChatShape /\ TabInv(t)
  BY DEF ChatInv, ServerInv
<1>2. BridgeInStep(t)'
  BY DEF BridgeInStep
<1>3. m \in Ids \cup {None}
  BY <1>1 DEF ChatShape, Page
<1>4. \A i : Submits(t, i)' => Submits(t, i)
  BY DEF Submits, Shrinks
<1>5. m \in Ids /\ Quiet(m)' /\ ~Submits(t, m)' => Unsent(t)'
  BY DEF Unsent, Calls
<1>6. CASE m \in Ids
  <2>1. Unsent(t) => Unsent(t)'
    BY <1>4, <1>5, <1>6 DEF Unsent
  <2>2. pages[t].ready => pages[t].socket
    BY <1>1 DEF TabInv, PageInStep
  <2>3. OnItsWay(t, m) /\ pages[t].ready /\ pages[t].draft /\ ~pages[t].uncertain /\ pages[t].pending = m =>
              /\ \A k \in DOMAIN fs : Misleads(fs[k]) /\ (\A j \in DOMAIN fs : j < k => ~Clears(fs[j], m))
                                        => Unsent(t)'
              /\ (\A k \in DOMAIN fs : ~Clears(fs[k], m)) => OnItsWay(t, m)'
    BY <1>5, <1>6, <2>2
  <2>4. TabInv(t)'
    BY <1>1, <1>2, <2>1, <2>3, TabServed
  <2>5. OneAuthor'
    BY DEF ChatInv, OneAuthor
  <2> QED
    BY <2>4, <2>5, TabAlone
<1>7. CASE m = None
  <2>1. ~pages[t].draft
    BY <1>1, <1>7 DEF TabInv, PageInStep
  <2>2. TabInv(t)'
    BY <1>1, <1>2, <2>1, TabServed
  <2>3. OneAuthor'
    BY DEF ChatInv, OneAuthor
  <2> QED
    BY <2>2, <2>3, TabAlone
<1> QED
  BY <1>3, <1>6, <1>7

-----------------------------------------------------------------------------
(* The steps of a bridge.                                                     *)
LEMMA FrameSeqs ==
    /\ <<>> \in Seq(PageFrame)
    /\ \A f \in PageFrame : <<f>> \in Seq(PageFrame) /\ DOMAIN <<f>> = {1} /\ <<f>>[1] = f
    /\ DOMAIN <<>> = {}
  OBVIOUS

(* A bridge that sends one frame, which ends no wait for the page's message,  *)
(* or which says what became of it.                                           *)
LEMMA BridgeTellsOne ==
    ASSUME ChatInv, ServerInv', NEW t \in Tabs, Elsewhere(t), UNCHANGED pages, FileGrows,
           bridges[t].phase # "none", bridges'[t].phase \notin {"calling", "opening"},
           \A i \in Ids : Quiet(i) => Quiet(i)', Shrinks(t), NEW f \in PageFrame, ToPage(t, <<f>>),
           f.type \notin {"snapshot", "close"},
           f.type = "accepted" =>
               f.about \in DOMAIN conversation'.receipts /\ conversation'.receipts[f.about] = "accepted",
           NEW m, m = pages[t].last,
           OnItsWay(t, m) /\ m \in Ids /\ pages[t].socket =>
              /\ Misleads(f) => Quiet(m)' /\ ~Submits(t, m)'
              /\ ~Clears(f, m) => OnItsWay(t, m)'
    PROVE  ChatInv'
<1> DEFINE fs == <<f>>
<1>1. fs \in Seq(PageFrame) /\ DOMAIN fs = {1} /\ fs[1] = f
  OBVIOUS
<1>2. ChatShape
  BY DEF ChatInv, ServerInv
<1> HIDE DEF fs
<1>3. ToPage(t, fs)
  BY DEF fs
<1>4. frames'[t] = IF pages[t].socket THEN frames[t] \o fs ELSE frames[t]
  BY <1>1, <1>2, <1>3, FramesSent
<1>5. \A k \in DOMAIN fs : FrameHolds(t, fs, k)
  BY <1>1 DEF FrameHolds
<1>6. OnItsWay(t, m) /\ m \in Ids /\ pages[t].socket =>
        /\ \A k \in DOMAIN fs : Misleads(fs[k]) /\ (\A j \in DOMAIN fs : j < k => ~Clears(fs[j], m))
                                        => Quiet(m)' /\ ~Submits(t, m)'
        /\ (\A k \in DOMAIN fs : ~Clears(fs[k], m)) => OnItsWay(t, m)'
  BY <1>1
<1> QED
  BY <1>1, <1>4, <1>5, <1>6, BridgeTells

LEMMA BridgeTellsNothing ==
    ASSUME ChatInv, ServerInv', NEW t \in Tabs, Elsewhere(t), UNCHANGED pages, FileGrows,
           bridges[t].phase # "none", bridges'[t].phase \notin {"calling", "opening"},
           \A i \in Ids : Quiet(i) => Quiet(i)', Shrinks(t), UNCHANGED frames,
           NEW m, m = pages[t].last,
           OnItsWay(t, m) /\ m \in Ids /\ pages[t].socket => OnItsWay(t, m)'
    PROVE  ChatInv'
<1> DEFINE fs == <<>>
<1>1. fs \in Seq(PageFrame) /\ DOMAIN fs = {} /\ frames[t] \in Seq(PageFrame)
  BY DEF ChatInv, ServerInv, ChatShape
<1>2. frames'[t] = IF pages[t].socket THEN frames[t] \o fs ELSE frames[t]
  BY <1>1
<1> HIDE DEF fs
<1>3. \A k \in DOMAIN fs : FrameHolds(t, fs, k)
  BY <1>1
<1>4. OnItsWay(t, m) /\ m \in Ids /\ pages[t].socket =>
        /\ \A k \in DOMAIN fs : Misleads(fs[k]) /\ (\A j \in DOMAIN fs : j < k => ~Clears(fs[j], m))
                                        => Quiet(m)' /\ ~Submits(t, m)'
        /\ (\A k \in DOMAIN fs : ~Clears(fs[k], m)) => OnItsWay(t, m)'
  BY <1>1
<1> QED
  BY <1>1, <1>2, <1>3, <1>4, BridgeTells

LEMMA CommandFacts ==
    ASSUME ChatShape, NEW t \in Tabs, commands[t] # <<>>, CommandTaken(t)
    PROVE  /\ commands' \in [Tabs -> Seq(Command)] /\ Shrinks(t)
           /\ \A u \in Tabs \ {t} : commands'[u] = commands[u]
           /\ NextCommand(t) = commands[t][1] /\ NextCommand(t) \in Command /\ 1 \in DOMAIN commands[t]
           /\ \A i : Submits(t, i)' => Submits(t, i)
           /\ \A i : FirstInQueue(t, i) => ~Submits(t, i)'
<1>1. commands \in [Tabs -> Seq(Command)] /\ commands[t] \in Seq(Command)
  BY DEF ChatShape
<1> DEFINE q == commands[t]
<1>2. /\ Tail(q) \in Seq(Command) /\ Head(q) = q[1] /\ Head(q) \in Command
      /\ 1 \in DOMAIN q /\ Len(q) \in Nat /\ DOMAIN Tail(q) = 1 .. Len(q) - 1
      /\ \A k \in DOMAIN Tail(q) : k + 1 \in DOMAIN q /\ Tail(q)[k] = q[k + 1]
  BY <1>1, TailFacts
<1>3. commands'[t] = Tail(q) /\ commands' \in [Tabs -> Seq(Command)]
      /\ \A u \in Tabs \ {t} : commands'[u] = commands[u]
  BY <1>1, <1>2 DEF CommandTaken
<1>4. NextCommand(t) = q[1] /\ NextCommand(t) \in Command
  BY <1>2 DEF NextCommand
<1> HIDE DEF q
<1>5. Shrinks(t)
  BY <1>2, <1>3 DEF Shrinks, q
<1>6. \A i : Submits(t, i)' => Submits(t, i)
  BY <1>5 DEF Shrinks, Submits
<1>7. ASSUME NEW i, FirstInQueue(t, i), Submits(t, i)' PROVE FALSE
  <2>1. PICK k \in DOMAIN Tail(q) : Tail(q)[k] = FrameOf("submit", i)
    BY <1>3, <1>7 DEF Submits
  <2>2. k + 1 \in DOMAIN q /\ q[k + 1] = FrameOf("submit", i) /\ k \in 1 .. Len(q) - 1
    BY <1>2, <2>1
  <2>3. k + 1 = 1
    BY <1>7, <2>2 DEF FirstInQueue, q
  <2> QED
    BY <1>2, <2>2, <2>3
<1> QED
  BY <1>2, <1>3, <1>4, <1>5, <1>6, <1>7 DEF q

LEMMA FileSame == UNCHANGED conversation => FileGrows
BY DEF FileGrows, Receipt

LEMMA PromptsSame == PromptsKept => \A i \in Ids : Quiet(i) => Quiet(i)'
BY DEF PromptsKept, Quiet

LEMMA ShapeServed ==
    ASSUME ChatShape, conversation' \in FileType, UNCHANGED gateway, UNCHANGED pages,
           bridges' \in [Tabs -> Bridge],
           UNCHANGED commands \/ commands' \in [Tabs -> Seq(Command)],
           UNCHANGED frames \/ frames' \in [Tabs -> Seq(PageFrame)],
           UNCHANGED events
              \/ (events' \in [Tabs -> Seq(GatewayEvent)] /\ \A t \in Tabs : Len(events'[t]) <= MaxEvents)
    PROVE  ChatShape'
BY DEF ChatShape

LEMMA ShrinksSame == ASSUME NEW t \in Tabs, UNCHANGED commands PROVE Shrinks(t)
BY DEF Shrinks

LEMMA EventSet ==
    ASSUME ChatShape, NEW t \in Tabs, NEW q \in Seq(GatewayEvent), Len(q) <= MaxEvents,
           events' = [events EXCEPT ![t] = q]
    PROVE  events' \in [Tabs -> Seq(GatewayEvent)] /\ \A u \in Tabs : Len(events'[u]) <= MaxEvents
BY DEF ChatShape

LEMMA AttachKeeps == ASSUME ChatInv, NEW t \in Tabs, Attach(t) PROVE ChatInv'
<1> USE DEF Attach
<1>1. ChatShape /\ gateway \in GatewayType
  BY DEF ChatInv, ServerInv, ChatShape
<1> DEFINE b == [NoBridge EXCEPT !.phase = "serving", !.open = gateway.open,
                                 !.running = gateway.turn # "idle"]
           n == Cardinality(gateway.open)
           snap == Snapshot(gateway.turn # "idle", gateway.open)
<1>2. b \in Bridge /\ b.phase = "serving"
  BY <1>1 DEF NoBridge, Bridge, GatewayType
<1>3. /\ bridges' \in [Tabs -> Bridge] /\ bridges'[t].phase = "serving"
      /\ \A u \in Tabs \ {t} : bridges'[u] = bridges[u]
  <2>1. SetBridge(t, b)
    OBVIOUS
  <2> HIDE DEF b
  <2> QED
    BY <1>1, <1>2, <2>1, BridgeSet
<1>4. n \in Nat /\ gateway.open \subseteq Questions
  <2>1. IsFiniteSet(gateway.open)
    BY <1>1, ChatAssumption, FS_Subset DEF GatewayType
  <2> QED
    BY <1>1, <2>1, FS_CardinalityType DEF GatewayType
<1>5. PICK asked \in [1 .. n -> gateway.open] :
          ToPage(t, <<snap>> \o [k \in DOMAIN asked |-> FrameOf("request", asked[k])])
  OBVIOUS
<1> DEFINE rest == [k \in DOMAIN asked |-> FrameOf("request", asked[k])]
           fs == <<snap>> \o rest
<1>6. snap \in PageFrame /\ snap.type = "snapshot"
  BY <1>1, Codings DEF Snapshot, GatewayType
<1>7. rest \in [1 .. n -> PageFrame] /\ \A k \in DOMAIN rest : rest[k].type = "request"
  BY <1>4, Codings DEF FrameOf
<1> HIDE DEF snap, rest, b, n
<1>8. rest \in Seq(PageFrame) /\ <<snap>> \in Seq(PageFrame) /\ Len(<<snap>>) = 1 /\ <<snap>>[1] = snap
      /\ DOMAIN <<snap>> = {1}
  BY <1>4, <1>6, <1>7
<1>9. fs \in Seq(PageFrame) /\ \A k \in DOMAIN fs : k = 1 \/ fs[k].type = "request"
  <2>1. /\ fs \in Seq(PageFrame) /\ \A k \in DOMAIN rest : 1 + k \in DOMAIN fs /\ fs[1 + k] = rest[k]
        /\ \A k \in DOMAIN fs : k \in DOMAIN <<snap>> \/ k - 1 \in DOMAIN rest
        /\ DOMAIN fs = 1 .. Len(fs)
    BY <1>8, ConcatFacts
  <2> HIDE DEF fs
  <2>2. ASSUME NEW k \in DOMAIN fs, k # 1 PROVE fs[k].type = "request"
    <3>1. k - 1 \in DOMAIN rest /\ k \in Int
      BY <1>8, <2>1, <2>2
    <3>2. fs[1 + (k - 1)] = rest[k - 1] /\ 1 + (k - 1) = k
      BY <2>1, <3>1
    <3> QED
      BY <1>7, <3>1, <3>2
  <2> QED
    BY <2>1, <2>2
<1>10. fs[1] = snap
  BY <1>8
<1>11. ToPage(t, fs)
  BY <1>5 DEF rest, snap
<1> HIDE DEF fs
<1>12. /\ frames' \in [Tabs -> Seq(PageFrame)]
       /\ frames'[t] = IF pages[t].socket THEN frames[t] \o fs ELSE frames[t]
       /\ \A u \in Tabs \ {t} : frames'[u] = frames[u]
  BY <1>1, <1>9, <1>11, FramesSent
<1>13. events' \in [Tabs -> Seq(GatewayEvent)] /\ \A u \in Tabs : Len(events'[u]) <= MaxEvents
  <2>1. <<>> \in Seq(GatewayEvent) /\ Len(<<>>) <= MaxEvents
    BY ChatAssumption
  <2> QED
    BY <1>1, <2>1, EventSet
<1>14. ChatShape'
  BY <1>1, <1>3, <1>12, <1>13 DEF ChatShape
<1>15. ServerInv'
  BY <1>3, <1>14, ServerQuiet DEF ChatInv, PromptsKept
<1>16. \A k \in DOMAIN fs : FrameHolds(t, fs, k)
  BY <1>3, <1>6, <1>9, <1>10 DEF FrameHolds
<1>17. ASSUME NEW m, m = pages[t].last, OnItsWay(t, m), m \in Ids, pages[t].socket
       PROVE FALSE
  BY <1>17 DEF ChatInv, TabInv, BridgeInStep, OnItsWay, FirstInQueue, Submits, Calls
<1> QED
  BY <1>3, <1>9, <1>12, <1>15, <1>16, <1>17, FileSame, PromptsSame, ShrinksSame, BridgeTells
     DEF Elsewhere, PromptsKept

LEMMA CannotAttachKeeps == ASSUME ChatInv, NEW t \in Tabs, CannotAttach(t) PROVE ChatInv'
<1>1. ChatShape
  BY DEF ChatInv, ServerInv
<1>2. /\ bridges' \in [Tabs -> Bridge] /\ bridges'[t].phase = "closing"
      /\ \A u \in Tabs \ {t} : bridges'[u] = bridges[u]
  BY <1>1, BridgeEnds DEF CannotAttach, Codes
<1>3. /\ UNCHANGED <<conversation, gateway, events, commands, frames, pages>> /\ bridges[t].phase = "opening"
  BY DEF CannotAttach
<1>4. ChatShape'
  BY <1>1, <1>2, <1>3 DEF ChatShape
<1>5. ServerInv'
  BY <1>2, <1>3, <1>4, ServerQuiet DEF ChatInv, PromptsKept
<1>6. ASSUME NEW m, m = pages[t].last, OnItsWay(t, m), m \in Ids
      PROVE FALSE
  <2>1. FirstInQueue(t, m) => Submits(t, m)
    <3>1. commands[t] \in Seq(Command)
      BY <1>1 DEF ChatShape
    <3>2. commands[t] # <<>> => 1 \in DOMAIN commands[t]
      BY <3>1
    <3> QED
      BY <3>2 DEF FirstInQueue, Submits
  <2>2. ~Submits(t, m)
    BY <1>3, <1>6 DEF ChatInv, TabInv, BridgeInStep
  <2> QED
    BY <1>3, <1>6, <2>1, <2>2 DEF OnItsWay, Calls
<1> QED
  BY <1>2, <1>3, <1>5, <1>6, FileSame, PromptsSame, ShrinksSame, BridgeTellsNothing
     DEF Elsewhere, PromptsKept

LEMMA SubmitServed ==
    ASSUME ChatShape, NEW t \in Tabs, Serves(t, "submit"), CommandTaken(t), NEW i, i = NextCommand(t).about
    PROVE  /\ i \in Ids /\ commands[t][1] = FrameOf("submit", i) /\ Submits(t, i) /\ commands[t] # <<>>
           /\ bridges[t].phase = "serving"
<1>1. commands[t] # <<>> /\ NextCommand(t).type = "submit" /\ bridges[t].phase = "serving"
  BY DEF Serves
<1>2. NextCommand(t) = commands[t][1] /\ NextCommand(t) \in Command /\ 1 \in DOMAIN commands[t]
  BY <1>1, CommandFacts
<1>3. i \in Ids /\ NextCommand(t) = FrameOf("submit", i)
  BY <1>1, <1>2 DEF Command, FrameOf
<1> QED
  BY <1>1, <1>2, <1>3 DEF Submits

LEMMA VerdictFacts ==
    ASSUME ChatShape, NEW t \in Tabs, NEW i \in Ids
    PROVE  /\ Verdict(t, i) \in PageFrame /\ Verdict(t, i).type \in {"accepted", "error"}
           /\ Verdict(t, i).type = "accepted" =>
                 Verdict(t, i).about = i /\ Receipt(i) /\ conversation.receipts[i] = "accepted"
BY Codings DEF Verdict, Codes, Error, FrameOf

(* A submission that the bridge answers itself.                               *)
LEMMA SubmitAnswered ==
    ASSUME ChatInv, NEW t \in Tabs, NEW i, i = NextCommand(t).about, Serves(t, "submit"), CommandTaken(t),
           ToPage(t, <<Verdict(t, i)>>), UNCHANGED <<conversation, bridges, gateway, events, pages>>
    PROVE  ChatInv'
<1>1. ChatShape
  BY DEF ChatInv, ServerInv
<1>2. i \in Ids /\ commands[t][1] = FrameOf("submit", i) /\ commands[t] # <<>> /\ bridges[t].phase = "serving"
  BY <1>1, SubmitServed
<1>3. /\ commands' \in [Tabs -> Seq(Command)] /\ Shrinks(t)
      /\ \A u \in Tabs \ {t} : commands'[u] = commands[u]
      /\ \A j : FirstInQueue(t, j) => ~Submits(t, j)'
  BY <1>1, <1>2, CommandFacts
<1>4. PICK f : f = Verdict(t, i)
  OBVIOUS
<1>5. /\ f \in PageFrame /\ f.type \in {"accepted", "error"} /\ ToPage(t, <<f>>)
      /\ f.type = "accepted" => f.about = i /\ i \in DOMAIN conversation'.receipts
                                /\ conversation'.receipts[i] = "accepted"
  BY <1>1, <1>2, <1>4, VerdictFacts DEF Receipt
<1>6. /\ frames' \in [Tabs -> Seq(PageFrame)] /\ \A u \in Tabs \ {t} : frames'[u] = frames[u]
  <2>1. <<f>> \in Seq(PageFrame)
    BY <1>5
  <2> QED
    BY <1>1, <1>5, <2>1, FramesSent
<1>7. ChatShape'
  BY <1>1, <1>3, <1>6 DEF ChatShape
<1>8. ServerInv'
  BY <1>7, ServerSame DEF ChatInv, PromptsKept
<1>9. ASSUME NEW m, m = pages[t].last, OnItsWay(t, m), m \in Ids
      PROVE  Quiet(m)' /\ ~Submits(t, m)' /\ Clears(f, m)
  <2>1. FirstInQueue(t, m)
    BY <1>2, <1>9 DEF OnItsWay, Calls
  <2>2. m = i
    BY <1>2, <2>1 DEF FirstInQueue, FrameOf
  <2> QED
    BY <1>3, <1>5, <2>1, <2>2 DEF FirstInQueue, Quiet, Clears
<1>10. FileGrows /\ \A j \in Ids : Quiet(j) => Quiet(j)'
  BY FileSame, PromptsSame DEF PromptsKept
<1>11. Elsewhere(t)
  BY <1>3, <1>6 DEF Elsewhere
<1> QED
  BY <1>2, <1>3, <1>5, <1>8, <1>9, <1>10, <1>11, BridgeTellsOne

(* A submission that goes out to Hermes, after its receipt.                   *)
LEMMA SubmitSent ==
    ASSUME ChatInv, NEW t \in Tabs, NEW i, i = NextCommand(t).about, Serves(t, "submit"), CommandTaken(t),
           ~Receipt(i), conversation' = WithReceipt(i, "sending"),
           SetBridge(t, [bridges[t] EXCEPT !.phase = "calling", !.running = TRUE, !.call = i,
                                           !.reply = IF Lost(t) THEN "failed" ELSE "none"]),
           gateway' = [gateway EXCEPT !.wire = @ \cup {i}] \/ UNCHANGED gateway,
           UNCHANGED <<frames, events, pages>>
    PROVE  ChatInv'
<1>1. ChatShape /\ TabInv(t)
  BY DEF ChatInv, ServerInv
<1>2. /\ i \in Ids /\ commands[t][1] = FrameOf("submit", i) /\ Submits(t, i) /\ commands[t] # <<>>
      /\ bridges[t].phase = "serving"
  BY <1>1, SubmitServed
<1>3. /\ commands' \in [Tabs -> Seq(Command)] /\ Shrinks(t)
      /\ \A u \in Tabs \ {t} : commands'[u] = commands[u]
      /\ \A j : FirstInQueue(t, j) => ~Submits(t, j)'
  BY <1>1, <1>2, CommandFacts
<1> DEFINE b == [bridges[t] EXCEPT !.phase = "calling", !.running = TRUE, !.call = i,
                                   !.reply = IF Lost(t) THEN "failed" ELSE "none"]
<1>4. b \in Bridge /\ b.phase = "calling" /\ b.call = i /\ b.reply \in {"failed", "none"}
  <2>1. bridges[t] \in Bridge
    BY <1>1 DEF ChatShape
  <2> QED
    BY <1>2, <2>1 DEF Bridge
<1>5. SetBridge(t, b)
  OBVIOUS
<1> HIDE DEF b
<1>6. /\ bridges' \in [Tabs -> Bridge] /\ bridges'[t] = b /\ \A u \in Tabs \ {t} : bridges'[u] = bridges[u]
  BY <1>1, <1>4, <1>5, BridgeSet
<1>7. /\ conversation' \in FileType /\ \A j : Receipt(j)' <=> Receipt(j) \/ j = i
      /\ \A j : Receipt(j) /\ j # i => conversation'.receipts[j] = conversation.receipts[j]
  BY <1>1, <1>2, ReceiptStep
<1>8. /\ gateway' \in GatewayType /\ gateway'.open \subseteq gateway'.asked
      /\ gateway'.taken = gateway.taken /\ gateway'.wire \subseteq gateway.wire \cup {i}
  <2>1. gateway \in GatewayType /\ gateway.open \subseteq gateway.asked
    BY <1>1 DEF ChatShape
  <2>2. CASE UNCHANGED gateway
    BY <2>1, <2>2
  <2>3. CASE gateway' = [gateway EXCEPT !.wire = @ \cup {i}]
    <3>1. /\ gateway'.open = gateway.open /\ gateway'.asked = gateway.asked
          /\ gateway'.taken = gateway.taken /\ gateway'.wire = gateway.wire \cup {i}
      BY <2>1, <2>3 DEF GatewayType
    <3>2. gateway' \in GatewayType
      BY <1>2, <2>1, <2>3 DEF GatewayType
    <3> QED
      BY <2>1, <3>1, <3>2
  <2> QED
    BY <2>2, <2>3
<1>9. ChatShape'
  BY <1>1, <1>3, <1>6, <1>7, <1>8 DEF ChatShape
<1>10. ServerInv'
  BY <1>2, <1>4, <1>6, <1>8, <1>9, ServerSends DEF ChatInv
<1>11. FileGrows /\ \A j \in Ids : Quiet(j) => Quiet(j)' \/ Submits(t, j)
  BY <1>2, <1>7, <1>8 DEF FileGrows, Quiet
<1>12. pages[t].last = i /\ pages[t].draft /\ (pages[t].uncertain \/ pages[t].pending = i)
  <2>1. pages[t].last = i /\ i # None
    BY <1>1, <1>2, ChatAssumption DEF TabInv, PageInStep
  <2>2. pages[t].draft
    BY <1>1, <2>1 DEF TabInv, PageInStep
  <2>3. ~Unsent(t)
    BY <1>2, <2>1 DEF Unsent
  <2> QED
    BY <1>1, <2>1, <2>2, <2>3 DEF TabInv, PageInStep, Warned
<1>13. BridgeInStep(t)'
  BY <1>4, <1>6, <1>12 DEF BridgeInStep
<1>14. ~Unsent(t)
  BY <1>2, <1>12 DEF Unsent
<1>15. OnItsWay(t, i) => OnItsWay(t, i)'
  <2>1. OnItsWay(t, i) => FirstInQueue(t, i)
    BY <1>2 DEF OnItsWay, Calls
  <2>2. Calls(t, i)'
    BY <1>4, <1>6 DEF Calls
  <2> QED
    BY <1>3, <2>1, <2>2 DEF OnItsWay
<1>16. TabInv(t)'
  <2> DEFINE fs == <<>>
  <2>1. fs \in Seq(PageFrame) /\ DOMAIN fs = {} /\ frames[t] \in Seq(PageFrame)
    BY <1>1 DEF ChatShape
  <2>2. frames'[t] = IF pages[t].socket THEN frames[t] \o fs ELSE frames[t]
    BY <2>1
  <2> HIDE DEF fs
  <2>3. bridges'[t].phase # "opening" /\ bridges[t].phase # "none" /\ pages'[t] = pages[t]
    BY <1>2, <1>4, <1>6
  <2>4. \A k \in DOMAIN fs : FrameHolds(t, fs, k)
    BY <2>1
  <2> QED
    BY <1>1, <1>2, <1>3, <1>11, <1>12, <1>13, <1>14, <1>15, <2>1, <2>2, <2>3, <2>4, TabServed
<1>17. Elsewhere(t) /\ OneAuthor'
  BY <1>3, <1>6 DEF Elsewhere, ChatInv, OneAuthor
<1> QED
  BY <1>2, <1>10, <1>11, <1>16, <1>17, TabAlone

LEMMA BridgeSubmitKeeps == ASSUME ChatInv, NEW t \in Tabs, BridgeSubmit(t) PROVE ChatInv'
<1> DEFINE i == NextCommand(t).about
<1>1. CASE /\ ToPage(t, <<Verdict(t, i)>>)
           /\ UNCHANGED <<conversation, bridges, gateway>>
  BY <1>1, SubmitAnswered DEF BridgeSubmit
<1>2. CASE /\ ~Receipt(i)
           /\ conversation' = WithReceipt(i, "sending")
           /\ SetBridge(t, [bridges[t] EXCEPT !.phase = "calling", !.running = TRUE, !.call = i,
                                              !.reply = IF Lost(t) THEN "failed" ELSE "none"])
           /\ gateway' = [gateway EXCEPT !.wire = @ \cup {i}] \/ UNCHANGED gateway
           /\ UNCHANGED frames
  BY <1>2, SubmitSent DEF BridgeSubmit
<1> QED
  BY <1>1, <1>2 DEF BridgeSubmit

(* What a step of a bridge leaves in order.                                   *)
Orderly(t) ==
    /\ UNCHANGED <<conversation, pages>> /\ PromptsKept
    /\ gateway' \in GatewayType /\ gateway'.open \subseteq gateway'.asked
    /\ bridges[t].phase # "none" /\ bridges' \in [Tabs -> Bridge]
    /\ bridges'[t].phase \in {"serving", "closing"}
    /\ \A u \in Tabs \ {t} : bridges'[u] = bridges[u] /\ commands'[u] = commands[u]
    /\ commands' \in [Tabs -> Seq(Command)] /\ Shrinks(t)
    /\ events' \in [Tabs -> Seq(GatewayEvent)] /\ \A u \in Tabs : Len(events'[u]) <= MaxEvents

LEMMA BridgeReports ==
    ASSUME ChatInv, NEW t \in Tabs, Orderly(t), NEW f \in PageFrame, ToPage(t, <<f>>),
           f.type \notin {"snapshot", "close", "accepted"}, NEW m, m = pages[t].last,
           OnItsWay(t, m) /\ m \in Ids /\ pages[t].socket =>
              /\ Misleads(f) => Quiet(m)' /\ ~Submits(t, m)'
              /\ ~Clears(f, m) => OnItsWay(t, m)'
    PROVE  ChatInv'
<1>1. ChatShape
  BY DEF ChatInv, ServerInv
<1>2. /\ frames' \in [Tabs -> Seq(PageFrame)] /\ \A u \in Tabs \ {t} : frames'[u] = frames[u]
  <2>1. <<f>> \in Seq(PageFrame)
    OBVIOUS
  <2> QED
    BY <1>1, <2>1, FramesSent
<1>3. ChatShape'
  BY <1>1, <1>2 DEF ChatShape, Orderly
<1>4. ServerInv'
  BY <1>3, ServerQuiet DEF ChatInv, Orderly
<1>5. Elsewhere(t) /\ FileGrows /\ \A j \in Ids : Quiet(j) => Quiet(j)'
  BY <1>2, FileSame, PromptsSame DEF Elsewhere, Orderly
<1> QED
  BY <1>4, <1>5, BridgeTellsOne DEF Orderly

LEMMA BridgeSilent ==
    ASSUME ChatInv, NEW t \in Tabs, Orderly(t), UNCHANGED frames, NEW m, m = pages[t].last,
           OnItsWay(t, m) /\ m \in Ids /\ pages[t].socket => OnItsWay(t, m)'
    PROVE  ChatInv'
<1>1. ChatShape'
  BY DEF ChatInv, ServerInv, ChatShape, Orderly
<1>2. ServerInv'
  BY <1>1, ServerQuiet DEF ChatInv, Orderly
<1>3. Elsewhere(t) /\ FileGrows /\ \A j \in Ids : Quiet(j) => Quiet(j)'
  BY FileSame, PromptsSame DEF Elsewhere, Orderly
<1> QED
  BY <1>2, <1>3, BridgeTellsNothing DEF Orderly

LEMMA ReleasedFacts ==
    ASSUME ChatShape, NEW t \in Tabs, SetBridge(t, Released(t))
    PROVE  /\ bridges' \in [Tabs -> Bridge] /\ bridges'[t].phase = "serving"
           /\ \A u \in Tabs \ {t} : bridges'[u] = bridges[u]
<1>1. Released(t) \in Bridge /\ Released(t).phase = "serving"
  BY DEF ChatShape, Bridge, Released
<1> QED
  BY <1>1, BridgeSet

LEMMA CallAcceptedKeeps == ASSUME ChatInv, NEW t \in Tabs, CallAccepted(t) PROVE ChatInv'
<1>1. ChatShape
  BY DEF ChatInv, ServerInv
<1>2. PICK i : i = bridges[t].call
  OBVIOUS
<1>3. /\ bridges[t].phase = "calling" /\ bridges[t].reply = "taken"
      /\ conversation' = WithReceipt(i, "accepted") /\ SetBridge(t, Released(t))
      /\ ToPage(t, <<FrameOf("accepted", i)>>)
      /\ UNCHANGED <<gateway, events, commands, pages>>
  BY <1>2 DEF CallAccepted
<1>4. i \in Ids /\ Receipt(i)
  BY <1>2, <1>3 DEF ChatInv, ServerInv, CallHolds
<1>5. /\ bridges' \in [Tabs -> Bridge] /\ bridges'[t].phase = "serving"
      /\ \A u \in Tabs \ {t} : bridges'[u] = bridges[u]
  BY <1>1, <1>3, ReleasedFacts
<1>6. /\ conversation' \in FileType /\ conversation'.receipts[i] = "accepted"
      /\ \A j : Receipt(j)' <=> Receipt(j) \/ j = i
      /\ \A j : Receipt(j) /\ j # i => conversation'.receipts[j] = conversation.receipts[j]
  BY <1>1, <1>3, <1>4, ReceiptStep
<1>7. PICK f \in PageFrame : f = FrameOf("accepted", i)
  BY <1>4, Codings
<1>8. f.type = "accepted" /\ f.about = i /\ ToPage(t, <<f>>)
  BY <1>3, <1>7 DEF FrameOf
<1>9. /\ frames' \in [Tabs -> Seq(PageFrame)] /\ \A u \in Tabs \ {t} : frames'[u] = frames[u]
  <2>1. <<f>> \in Seq(PageFrame)
    OBVIOUS
  <2> QED
    BY <1>1, <1>8, <2>1, FramesSent
<1>10. ChatShape'
  BY <1>1, <1>3, <1>5, <1>6, <1>9 DEF ChatShape
<1>11. ServerInv'
  BY <1>2, <1>3, <1>5, <1>10, ServerAccepts DEF ChatInv
<1>12. Elsewhere(t) /\ FileGrows /\ Shrinks(t) /\ \A j \in Ids : Quiet(j) => Quiet(j)'
  BY <1>3, <1>5, <1>6, <1>9 DEF Elsewhere, FileGrows, Shrinks, Quiet
<1>13. ASSUME NEW m, m = pages[t].last, OnItsWay(t, m), m \in Ids
       PROVE  ~Misleads(f) /\ Clears(f, m)
  <2>1. m = i
    BY <1>2, <1>3, <1>13 DEF OnItsWay, FirstInQueue, Calls
  <2> QED
    BY <1>8, <2>1 DEF Misleads, Clears
<1>14. f.about \in DOMAIN conversation'.receipts
  BY <1>4, <1>6, <1>8 DEF Receipt
<1> QED
  BY <1>3, <1>5, <1>6, <1>8, <1>11, <1>12, <1>13, <1>14, BridgeTellsOne

LEMMA OrderlyStep ==
    ASSUME ChatInv, NEW t \in Tabs, UNCHANGED <<conversation, pages>>,
           UNCHANGED gateway \/ \E q : gateway' = [gateway EXCEPT !.open = @ \ {q}],
           bridges[t].phase # "none", bridges' \in [Tabs -> Bridge],
           bridges'[t].phase \in {"serving", "closing"}, \A u \in Tabs \ {t} : bridges'[u] = bridges[u],
           UNCHANGED commands \/ (commands[t] # <<>> /\ CommandTaken(t)),
           UNCHANGED events \/ \E q \in Seq(GatewayEvent) : Len(q) <= MaxEvents /\ events' = [events EXCEPT ![t] = q]
    PROVE  Orderly(t)
<1>1. ChatShape
  BY DEF ChatInv, ServerInv
<1>2. events' \in [Tabs -> Seq(GatewayEvent)] /\ \A u \in Tabs : Len(events'[u]) <= MaxEvents
  BY <1>1, EventSet DEF ChatShape
<1>3. /\ commands' \in [Tabs -> Seq(Command)] /\ Shrinks(t)
      /\ \A u \in Tabs \ {t} : commands'[u] = commands[u]
  BY <1>1, CommandFacts, ShrinksSame DEF ChatShape
<1>4. PromptsKept /\ gateway' \in GatewayType /\ gateway'.open \subseteq gateway'.asked
  <2>1. gateway \in GatewayType /\ gateway.open \subseteq gateway.asked
    BY <1>1 DEF ChatShape
  <2>2. ASSUME NEW q, gateway' = [gateway EXCEPT !.open = @ \ {q}]
        PROVE  PromptsKept /\ gateway' \in GatewayType /\ gateway'.open \subseteq gateway'.asked
    BY <2>1, <2>2 DEF GatewayType, PromptsKept
  <2> QED
    BY <2>1, <2>2 DEF PromptsKept
<1> QED
  BY <1>1, <1>2, <1>3, <1>4 DEF Orderly

LEMMA ErrorFacts ==
    ASSUME NEW code \in Codes
    PROVE  /\ Error(code) \in PageFrame /\ Error(code).type = "error" /\ Error(code).about = code
           /\ \A m : Clears(Error(code), m)
           /\ code \in UncertainCodes => ~Misleads(Error(code))
BY Codings DEF Clears, Misleads

LEMMA CallFailedKeeps == ASSUME ChatInv, NEW t \in Tabs, CallFailed(t) PROVE ChatInv'
<1>1. ChatShape
  BY DEF ChatInv, ServerInv
<1>2. bridges[t].phase = "calling" /\ UNCHANGED <<conversation, gateway, events, commands, pages>>
  BY DEF CallFailed
<1>3. ASSUME Fail(t, "gateway_request_failed"), ToPage(t, <<Error("gateway_request_failed")>>)
      PROVE  ChatInv'
  <2>1. /\ bridges' \in [Tabs -> Bridge] /\ bridges'[t].phase = "closing"
        /\ \A u \in Tabs \ {t} : bridges'[u] = bridges[u]
    BY <1>1, <1>3, BridgeEnds DEF Codes
  <2>2. Orderly(t)
    BY <1>2, <2>1, OrderlyStep
  <2>3. "gateway_request_failed" \in Codes /\ "gateway_request_failed" \in UncertainCodes
    BY DEF Codes, UncertainCodes
  <2> QED
    BY <1>3, <2>2, <2>3, ErrorFacts, BridgeReports
<1>4. ASSUME SetBridge(t, Released(t)), ToPage(t, <<Error("gateway_disconnected")>>)
      PROVE  ChatInv'
  <2>1. Orderly(t)
    BY <1>1, <1>2, <1>4, ReleasedFacts, OrderlyStep
  <2>2. "gateway_disconnected" \in Codes /\ "gateway_disconnected" \in UncertainCodes
    BY DEF Codes, UncertainCodes
  <2> QED
    BY <1>4, <2>1, <2>2, ErrorFacts, BridgeReports
<1>5. ASSUME SetBridge(t, Released(t)), ToPage(t, <<Error("invalid_thread")>>),
             bridges[t].reply = "invalid_thread"
      PROVE  ChatInv'
  <2>1. Orderly(t)
    BY <1>1, <1>2, <1>5, ReleasedFacts, OrderlyStep
  <2>2. "invalid_thread" \in Codes
    BY DEF Codes
  <2>3. ASSUME NEW m, m = pages[t].last, OnItsWay(t, m), m \in Ids
        PROVE  Quiet(m)' /\ ~Submits(t, m)'
    <3>1. m = bridges[t].call /\ ~Submits(t, m)
      BY <1>2, <2>3 DEF OnItsWay, FirstInQueue, Calls
    <3>2. Quiet(m)
      BY <1>2, <1>5, <3>1 DEF ChatInv, ServerInv, CallHolds
    <3> QED
      BY <1>2, <3>1, <3>2 DEF Quiet, Submits
  <2> QED
    BY <1>5, <2>1, <2>2, <2>3, ErrorFacts, BridgeReports
<1> QED
  BY <1>3, <1>4, <1>5 DEF CallFailed

LEMMA QueuedLost ==
    ASSUME ChatShape, NEW t \in Tabs, events' = [events EXCEPT ![t] = Queued(@, Frame("lost"))]
    PROVE  \E q \in Seq(GatewayEvent) : Len(q) <= MaxEvents /\ events' = [events EXCEPT ![t] = q]
<1>1. events[t] \in Seq(GatewayEvent) /\ Len(events[t]) <= MaxEvents /\ Frame("lost") \in GatewayEvent
  BY Codings DEF ChatShape
<1> QED
  BY <1>1, QueuedType

(* A command that is not a submission is served: no message of the page is on *)
(* its way without an answer.                                                 *)
LEMMA NotOnItsWay ==
    ASSUME ChatShape, NEW t \in Tabs, NEW type \in {"answer", "stop"}, Serves(t, type), CommandTaken(t), NEW m
    PROVE  ~OnItsWay(t, m)
<1>1. commands[t] # <<>> /\ NextCommand(t).type = type /\ bridges[t].phase = "serving"
  BY DEF Serves
<1>2. NextCommand(t) = commands[t][1]
  BY <1>1, CommandFacts
<1> QED
  BY <1>1, <1>2 DEF OnItsWay, FirstInQueue, Calls, FrameOf

LEMMA AnswerKeeps == ASSUME ChatInv, NEW t \in Tabs, Answer(t) PROVE ChatInv'
<1>1. ChatShape
  BY DEF ChatInv, ServerInv
<1>2. PICK q : q = NextCommand(t).about
  OBVIOUS
<1>3. /\ Serves(t, "answer") /\ CommandTaken(t) /\ UNCHANGED <<conversation, pages>>
      /\ bridges[t].phase = "serving" /\ commands[t] # <<>>
  BY DEF Answer, Serves
<1>4. q \in Questions
  <2>1. NextCommand(t) \in Command /\ NextCommand(t).type = "answer"
    BY <1>1, <1>3, CommandFacts DEF Serves
  <2> QED
    BY <1>2, <2>1 DEF Command
<1>5. \A m : ~OnItsWay(t, m)
  BY <1>1, <1>3, NotOnItsWay
<1>6. CASE /\ ToPage(t, <<Error("request_expired")>>)
           /\ UNCHANGED <<bridges, gateway, events, losses>>
  <2>1. bridges' \in [Tabs -> Bridge] /\ \A u \in Tabs \ {t} : bridges'[u] = bridges[u]
    BY <1>1, <1>6 DEF ChatShape
  <2>2. Orderly(t)
    BY <1>3, <1>6, <2>1, OrderlyStep
  <2>3. "request_expired" \in Codes
    BY DEF Codes
  <2> QED
    BY <1>5, <1>6, <2>2, <2>3, ErrorFacts, BridgeReports
<1>7. CASE /\ SetBridge(t, [bridges[t] EXCEPT !.open = @ \ {q}])
           /\ ToPage(t, <<FrameOf("request_cancel", q)>>)
           /\ UNCHANGED gateway \/ gateway' = [gateway EXCEPT !.open = @ \ {q}]
           /\ UNCHANGED events \/ events' = [events EXCEPT ![t] = Queued(@, Frame("lost"))]
  <2> DEFINE b == [bridges[t] EXCEPT !.open = @ \ {q}]
  <2>1. b \in Bridge /\ b.phase = "serving"
    BY <1>1, <1>3 DEF ChatShape, Bridge
  <2>2. SetBridge(t, b)
    BY <1>7
  <2> HIDE DEF b
  <2>3. /\ bridges' \in [Tabs -> Bridge] /\ bridges'[t].phase = "serving"
        /\ \A u \in Tabs \ {t} : bridges'[u] = bridges[u]
    BY <1>1, <2>1, <2>2, BridgeSet
  <2>4. UNCHANGED events \/ \E r \in Seq(GatewayEvent) : Len(r) <= MaxEvents /\ events' = [events EXCEPT ![t] = r]
    BY <1>1, <1>7, QueuedLost
  <2>5. UNCHANGED gateway \/ \E r : gateway' = [gateway EXCEPT !.open = @ \ {r}]
    BY <1>7
  <2>6. Orderly(t)
    BY <1>3, <2>3, <2>4, <2>5, OrderlyStep
  <2>7. FrameOf("request_cancel", q) \in PageFrame /\ FrameOf("request_cancel", q).type = "request_cancel"
    BY <1>4, Codings DEF FrameOf
  <2> QED
    BY <1>5, <1>7, <2>6, <2>7, BridgeReports
<1>8. CASE Fail(t, "gateway_unavailable") /\ UNCHANGED <<gateway, events, frames, losses>>
  <2>1. /\ bridges' \in [Tabs -> Bridge] /\ bridges'[t].phase = "closing"
        /\ \A u \in Tabs \ {t} : bridges'[u] = bridges[u]
    BY <1>1, <1>8, BridgeEnds DEF Codes
  <2>2. Orderly(t)
    BY <1>3, <1>8, <2>1, OrderlyStep
  <2> QED
    BY <1>5, <1>8, <2>2, BridgeSilent
<1> QED
  BY <1>2, <1>6, <1>7, <1>8 DEF Answer

LEMMA InterruptKeeps == ASSUME ChatInv, NEW t \in Tabs, Interrupt(t) PROVE ChatInv'
<1>1. ChatShape
  BY DEF ChatInv, ServerInv
<1>2. /\ Serves(t, "stop") /\ CommandTaken(t) /\ UNCHANGED <<conversation, gateway, pages>>
      /\ bridges[t].phase = "serving" /\ commands[t] # <<>>
  BY DEF Interrupt, Serves
<1>3. \A m : ~OnItsWay(t, m)
  BY <1>1, <1>2, NotOnItsWay
<1>4. bridges \in [Tabs -> Bridge]
  BY <1>1 DEF ChatShape
<1>5. "invalid_thread" \in Codes /\ "gateway_disconnected" \in Codes /\ "gateway_request_failed" \in Codes
  BY DEF Codes
<1>6. CASE UNCHANGED <<bridges, events, frames, losses>>
  <2>1. Orderly(t)
    BY <1>2, <1>4, <1>6, OrderlyStep
  <2> QED
    BY <1>3, <1>6, <2>1, BridgeSilent
<1>7. CASE /\ ToPage(t, <<Error("invalid_thread")>>)
           /\ UNCHANGED <<bridges, events, losses>>
  <2>1. Orderly(t)
    BY <1>2, <1>4, <1>7, OrderlyStep
  <2> QED
    BY <1>3, <1>5, <1>7, <2>1, ErrorFacts, BridgeReports
<1>8. CASE /\ events' = [events EXCEPT ![t] = Queued(@, Frame("lost"))]
           /\ ToPage(t, <<Error("gateway_disconnected")>>)
           /\ UNCHANGED bridges
  <2>1. \E r \in Seq(GatewayEvent) : Len(r) <= MaxEvents /\ events' = [events EXCEPT ![t] = r]
    BY <1>1, <1>8, QueuedLost
  <2>2. Orderly(t)
    BY <1>2, <1>4, <1>8, <2>1, OrderlyStep
  <2> QED
    BY <1>3, <1>5, <1>8, <2>2, ErrorFacts, BridgeReports
<1>9. CASE /\ Fail(t, "gateway_request_failed")
           /\ ToPage(t, <<Error("gateway_request_failed")>>)
           /\ UNCHANGED <<events, losses>>
  <2>1. /\ bridges' \in [Tabs -> Bridge] /\ bridges'[t].phase = "closing"
        /\ \A u \in Tabs \ {t} : bridges'[u] = bridges[u]
    BY <1>1, <1>5, <1>9, BridgeEnds
  <2>2. Orderly(t)
    BY <1>2, <1>9, <2>1, OrderlyStep
  <2> QED
    BY <1>3, <1>5, <1>9, <2>2, ErrorFacts, BridgeReports
<1> QED
  BY <1>6, <1>7, <1>8, <1>9 DEF Interrupt

LEMMA DetachKeeps == ASSUME ChatInv, NEW t \in Tabs, Detach(t) PROVE ChatInv'
<1>1. ChatShape /\ commands[t] \in Seq(Command)
  BY DEF ChatInv, ServerInv, ChatShape
<1>2. /\ bridges[t].phase = "serving" /\ Frame("gone") \in Range(commands[t]) /\ Fail(t, "none")
      /\ UNCHANGED <<conversation, gateway, events, commands, frames, pages>>
  BY DEF Detach
<1>3. /\ bridges' \in [Tabs -> Bridge] /\ bridges'[t].phase = "closing"
      /\ \A u \in Tabs \ {t} : bridges'[u] = bridges[u]
  BY <1>1, <1>2, BridgeEnds
<1>4. Orderly(t)
  BY <1>2, <1>3, OrderlyStep
<1>5. ~pages[t].socket
  <2>1. PICK k \in DOMAIN commands[t] : commands[t][k] = Frame("gone")
    BY <1>2 DEF Range
  <2>2. commands[t][k].type = "gone"
    BY <2>1 DEF Frame
  <2> QED
    BY <2>2 DEF ChatInv, TabInv, PageInStep
<1> QED
  BY <1>2, <1>4, <1>5, BridgeSilent

(* The bridge goes on serving: the message of the page stays where it is.     *)
LEMMA StillOnItsWay ==
    ASSUME NEW t \in Tabs, Orderly(t), UNCHANGED commands, bridges[t].phase = "serving",
           bridges'[t].phase = "serving", NEW m \in Ids, OnItsWay(t, m)
    PROVE  OnItsWay(t, m)'
<1>1. FirstInQueue(t, m)
  BY DEF OnItsWay, Calls
<1>2. Quiet(m)'
  BY <1>1, PromptsSame DEF FirstInQueue, Orderly
<1> QED
  BY <1>1, <1>2 DEF OnItsWay, FirstInQueue

LEMMA EventTaken ==
    ASSUME ChatShape, NEW t \in Tabs, events[t] # <<>>, events' = [events EXCEPT ![t] = Tail(@)]
    PROVE  /\ \E q \in Seq(GatewayEvent) : Len(q) <= MaxEvents /\ events' = [events EXCEPT ![t] = q]
           /\ Head(events[t]) \in GatewayEvent
<1>1. events[t] \in Seq(GatewayEvent) /\ Len(events[t]) <= MaxEvents
  BY DEF ChatShape
<1>2. /\ Tail(events[t]) \in Seq(GatewayEvent) /\ Len(Tail(events[t])) = Len(events[t]) - 1
      /\ Len(events[t]) \in Nat /\ Head(events[t]) \in GatewayEvent
  BY <1>1, TailFacts
<1>3. Len(Tail(events[t])) <= MaxEvents
  BY <1>1, <1>2, ChatAssumption
<1> QED
  BY <1>2, <1>3

LEMMA UpstreamKeeps == ASSUME ChatInv, NEW t \in Tabs, Upstream(t) PROVE ChatInv'
<1>1. ChatShape /\ bridges \in [Tabs -> Bridge]
  BY DEF ChatInv, ServerInv, ChatShape
<1>2. PICK e : e = Head(events[t])
  OBVIOUS
<1>3. /\ events[t] # <<>>
      /\ bridges[t].phase = "serving" \/ (bridges[t].phase = "calling" /\ e.type = "lost")
      /\ events' = [events EXCEPT ![t] = Tail(@)]
      /\ UNCHANGED <<conversation, gateway, commands, pages>>
  BY <1>2 DEF Upstream
<1>4. /\ \E q \in Seq(GatewayEvent) : Len(q) <= MaxEvents /\ events' = [events EXCEPT ![t] = q]
      /\ e \in GatewayEvent
  <2>1. events[t] # <<>> /\ events' = [events EXCEPT ![t] = Tail(@)]
    BY <1>3
  <2> QED
    BY <1>1, <1>2, <2>1, EventTaken
<1> DEFINE Running(b) == [bridges[t] EXCEPT !.running = b]
           Open(qs) == [bridges[t] EXCEPT !.open = qs]
<1>5. ASSUME NEW b \in Bridge, SetBridge(t, b) \/ (UNCHANGED bridges /\ b = bridges[t]),
             b.phase = "serving", bridges[t].phase = "serving"
      PROVE  /\ Orderly(t)
             /\ \A m \in Ids : OnItsWay(t, m) => OnItsWay(t, m)'
  <2>1. /\ bridges' \in [Tabs -> Bridge] /\ bridges'[t].phase = "serving"
        /\ \A u \in Tabs \ {t} : bridges'[u] = bridges[u]
    BY <1>1, <1>5, BridgeSet
  <2>2. Orderly(t)
    BY <1>3, <1>4, <1>5, <2>1, OrderlyStep
  <2> QED
    BY <1>3, <1>5, <2>1, <2>2, StillOnItsWay
<1>6. ASSUME NEW f \in PageFrame, ToPage(t, <<f>>), Orderly(t),
             f.type \in {"token", "done", "turn_error", "request", "request_cancel"},
             \A m \in Ids : OnItsWay(t, m) => OnItsWay(t, m)'
      PROVE  ChatInv'
  BY <1>6, BridgeReports DEF Misleads
<1>7. ASSUME UNCHANGED frames, Orderly(t), \A m \in Ids : OnItsWay(t, m) => OnItsWay(t, m)'
      PROVE  ChatInv'
  BY <1>7, BridgeSilent
<1>8. CASE e.type = "start" /\ SetBridge(t, Running(TRUE)) /\ UNCHANGED frames
  <2>1. Running(TRUE) \in Bridge /\ Running(TRUE).phase = "serving" /\ bridges[t].phase = "serving"
    BY <1>1, <1>3, <1>8 DEF Bridge
  <2> QED
    BY <1>5, <1>7, <1>8, <2>1
<1>9. CASE e.type = "token" /\ ToPage(t, <<e>>) /\ UNCHANGED bridges
  <2>1. e \in PageFrame /\ bridges[t] \in Bridge /\ bridges[t].phase = "serving"
    BY <1>1, <1>3, <1>4, <1>9 DEF GatewayEvent, PageFrame
  <2>2. Orderly(t) /\ \A m \in Ids : OnItsWay(t, m) => OnItsWay(t, m)'
    BY <1>5, <1>9, <2>1
  <2> QED
    BY <1>6, <1>9, <2>1, <2>2
<1>10. CASE e.type \in {"done", "turn_error"} /\ SetBridge(t, Running(FALSE)) /\ ToPage(t, <<e>>)
  <2>1. e \in PageFrame /\ Running(FALSE) \in Bridge /\ Running(FALSE).phase = "serving"
        /\ bridges[t].phase = "serving"
    BY <1>1, <1>3, <1>4, <1>10 DEF GatewayEvent, PageFrame, Bridge
  <2>2. Orderly(t) /\ \A m \in Ids : OnItsWay(t, m) => OnItsWay(t, m)'
    BY <1>5, <1>10, <2>1
  <2> QED
    BY <1>6, <1>10, <2>1, <2>2
<1>11. CASE /\ e.type = "ask" /\ SetBridge(t, Open(bridges[t].open \cup {e.about}))
            /\ ToPage(t, <<FrameOf("request", e.about)>>)
  <2>1. e.about \in Questions /\ bridges[t].phase = "serving"
    BY <1>3, <1>4, <1>11 DEF GatewayEvent
  <2>2. Open(bridges[t].open \cup {e.about}) \in Bridge /\ Open(bridges[t].open \cup {e.about}).phase = "serving"
    BY <1>1, <2>1 DEF Bridge
  <2>3. FrameOf("request", e.about) \in PageFrame /\ FrameOf("request", e.about).type = "request"
    BY <2>1, Codings DEF FrameOf
  <2>4. Orderly(t) /\ \A m \in Ids : OnItsWay(t, m) => OnItsWay(t, m)'
    BY <1>5, <1>11, <2>1, <2>2
  <2> QED
    BY <1>6, <1>11, <2>3, <2>4
<1>12. CASE /\ e.type = "cancel" /\ SetBridge(t, Open(bridges[t].open \ {e.about}))
            /\ ToPage(t, IF e.about \in bridges[t].open THEN <<FrameOf("request_cancel", e.about)>> ELSE <<>>)
  <2>1. e.about \in Questions /\ bridges[t].phase = "serving"
    BY <1>3, <1>4, <1>12 DEF GatewayEvent
  <2>2. Open(bridges[t].open \ {e.about}) \in Bridge /\ Open(bridges[t].open \ {e.about}).phase = "serving"
    BY <1>1, <2>1 DEF Bridge
  <2>3. FrameOf("request_cancel", e.about) \in PageFrame
        /\ FrameOf("request_cancel", e.about).type = "request_cancel"
    BY <2>1, Codings DEF FrameOf
  <2>4. Orderly(t) /\ \A m \in Ids : OnItsWay(t, m) => OnItsWay(t, m)'
    BY <1>5, <1>12, <2>1, <2>2
  <2>5. CASE e.about \in bridges[t].open
    BY <1>6, <1>12, <2>3, <2>4, <2>5
  <2>6. CASE e.about \notin bridges[t].open
    <3>1. ToPage(t, <<>>)
      BY <1>12, <2>6
    <3>2. UNCHANGED frames
      <4>1. frames \in [Tabs -> Seq(PageFrame)] /\ \A u \in Tabs : frames[u] \o <<>> = frames[u]
        BY <1>1 DEF ChatShape
      <4> QED
        BY <3>1, <4>1 DEF ToPage
    <3> QED
      BY <1>7, <2>4, <3>2
  <2> QED
    BY <2>5, <2>6
<1>13. CASE e.type = "lost" /\ Fail(t, "gateway_disconnected") /\ UNCHANGED frames
  <2>1. /\ bridges' \in [Tabs -> Bridge] /\ bridges'[t].phase = "closing"
        /\ bridges'[t].code = "gateway_disconnected"
        /\ \A u \in Tabs \ {t} : bridges'[u] = bridges[u]
    BY <1>1, <1>13, BridgeEnds DEF Codes
  <2>2. Orderly(t)
    BY <1>3, <1>4, <2>1, OrderlyStep
  <2>3. \A m \in Ids : OnItsWay(t, m)'
    BY <2>1 DEF OnItsWay, UncertainCodes
  <2> QED
    BY <1>7, <1>13, <2>2, <2>3
<1> QED
  BY <1>2, <1>8, <1>9, <1>10, <1>11, <1>12, <1>13 DEF Upstream

LEMMA EndSteps ==
    ASSUME ChatInv, NEW t \in Tabs, bridges[t].phase # "none", SetBridge(t, NoBridge),
           conversation' = [conversation EXCEPT !.lock = None], UNCHANGED gateway
    PROVE  /\ conversation' \in FileType /\ conversation'.receipts = conversation.receipts /\ FileGrows
           /\ bridges' \in [Tabs -> Bridge] /\ bridges'[t].phase = "none"
           /\ \A u \in Tabs \ {t} : bridges'[u] = bridges[u]
           /\ ChatShape' => ServerInv'
           /\ PromptsKept /\ \A i \in Ids : Quiet(i) => Quiet(i)'
<1>1. ChatShape
  BY DEF ChatInv, ServerInv
<1>2. NoBridge \in Bridge /\ NoBridge.phase = "none"
  BY DEF NoBridge, Bridge
<1>3. /\ bridges' \in [Tabs -> Bridge] /\ bridges'[t].phase = "none"
      /\ \A u \in Tabs \ {t} : bridges'[u] = bridges[u]
  BY <1>1, <1>2, BridgeSet
<1>4. conversation' \in FileType /\ conversation'.receipts = conversation.receipts
  BY <1>1, LockStep
<1>5. FileGrows
  BY <1>4 DEF FileGrows, Receipt
<1>6. PromptsKept
  BY DEF PromptsKept
<1>7. ChatShape' => ServerInv'
  BY <1>3, <1>4, <1>6, ServerQuiet DEF ChatInv
<1> QED
  BY <1>3, <1>4, <1>5, <1>6, <1>7, PromptsSame

LEMMA TearDownKeeps == ASSUME ChatInv, NEW t \in Tabs, TearDown(t) PROVE ChatInv'
<1>1. ChatShape
  BY DEF ChatInv, ServerInv
<1>2. PICK code : code = bridges[t].code
  OBVIOUS
<1> DEFINE first == IF code = "none" THEN <<>> ELSE <<Error(code)>>
           fs == first \o <<Frame("close")>>
<1>3. /\ bridges[t].phase = "closing" /\ SetBridge(t, NoBridge)
      /\ conversation' = [conversation EXCEPT !.lock = None]
      /\ events' = [events EXCEPT ![t] = <<>>] /\ commands' = [commands EXCEPT ![t] = <<>>]
      /\ ToPage(t, fs) /\ UNCHANGED <<gateway, pages>>
  BY <1>2 DEF TearDown
<1>4. code \in Codes \cup {"none"}
  BY <1>1, <1>2 DEF ChatShape, Bridge
<1>5. /\ fs \in Seq(PageFrame)
      /\ \A k \in DOMAIN fs : \/ k = Len(fs) /\ fs[k] = Frame("close")
                              \/ k = 1 /\ code # "none" /\ fs[k] = Error(code)
      /\ Len(fs) \in DOMAIN fs /\ fs[Len(fs)] = Frame("close")
  <2>1. CASE code = "none"
    <3>1. fs = <<Frame("close")>> /\ Frame("close") \in PageFrame
      BY <2>1, Codings
    <3> HIDE DEF fs
    <3>2. fs \in Seq(PageFrame) /\ Len(fs) = 1 /\ DOMAIN fs = {1} /\ fs[1] = Frame("close")
      BY <3>1
    <3> QED
      BY <3>2
  <2>2. CASE code # "none"
    <3>1. Frame("close") \in PageFrame /\ Error(code) \in PageFrame
      BY <1>4, <2>2, Codings
    <3>2. /\ <<Error(code)>> \in Seq(PageFrame) /\ Len(<<Error(code)>>) = 1 /\ DOMAIN <<Error(code)>> = {1}
          /\ <<Frame("close")>> \in Seq(PageFrame) /\ Len(<<Frame("close")>>) = 1
          /\ DOMAIN <<Frame("close")>> = {1}
          /\ <<Error(code)>>[1] = Error(code) /\ <<Frame("close")>>[1] = Frame("close")
      BY <3>1
    <3>3. fs = <<Error(code)>> \o <<Frame("close")>>
      BY <2>2
    <3> HIDE DEF fs
    <3>4. /\ fs \in Seq(PageFrame) /\ Len(fs) = 1 + 1 /\ DOMAIN fs = 1 .. Len(fs)
          /\ fs[1] = Error(code) /\ fs[1 + 1] = Frame("close")
      BY <3>2, <3>3, ConcatFacts
    <3>5. Len(fs) = 2 /\ fs[2] = Frame("close") /\ DOMAIN fs = {1, 2}
      BY <3>4
    <3> QED
      BY <2>2, <3>4, <3>5
  <2> QED
    BY <2>1, <2>2
<1> HIDE DEF fs
<1>6. /\ conversation' \in FileType /\ conversation'.receipts = conversation.receipts /\ FileGrows
      /\ bridges' \in [Tabs -> Bridge] /\ bridges'[t].phase = "none"
      /\ \A u \in Tabs \ {t} : bridges'[u] = bridges[u]
      /\ ChatShape' => ServerInv'
      /\ PromptsKept /\ \A i \in Ids : Quiet(i) => Quiet(i)'
  BY <1>3, EndSteps
<1>7. /\ frames' \in [Tabs -> Seq(PageFrame)]
      /\ frames'[t] = IF pages[t].socket THEN frames[t] \o fs ELSE frames[t]
      /\ \A u \in Tabs \ {t} : frames'[u] = frames[u]
  BY <1>1, <1>3, <1>5, FramesSent
<1>8. /\ commands' \in [Tabs -> Seq(Command)] /\ commands'[t] = <<>> /\ Shrinks(t)
      /\ \A u \in Tabs \ {t} : commands'[u] = commands[u]
  BY <1>1, <1>3 DEF ChatShape, Shrinks
<1>9. events' \in [Tabs -> Seq(GatewayEvent)] /\ \A u \in Tabs : Len(events'[u]) <= MaxEvents
  <2>1. <<>> \in Seq(GatewayEvent) /\ Len(<<>>) <= MaxEvents
    BY ChatAssumption
  <2> QED
    BY <1>1, <1>3, <2>1, EventSet
<1>10. ChatShape'
  BY <1>1, <1>3, <1>6, <1>7, <1>8, <1>9 DEF ChatShape
<1>11. \A k \in DOMAIN fs : FrameHolds(t, fs, k)
  BY <1>4, <1>5, <1>6, Codings DEF FrameHolds, Frame
<1>12. ASSUME NEW m, m = pages[t].last, OnItsWay(t, m), m \in Ids
       PROVE  /\ \A k \in DOMAIN fs : Misleads(fs[k]) => Quiet(m)' /\ ~Submits(t, m)'
              /\ ~(\A k \in DOMAIN fs : ~Clears(fs[k], m))
  <2>1. ~Submits(t, m)'
    BY <1>8 DEF Submits
  <2>2. ASSUME NEW k \in DOMAIN fs, Misleads(fs[k]) PROVE Quiet(m)'
    <3>1. fs[k] = Error(code) /\ code \in Codes
      BY <1>4, <1>5, <2>2 DEF Misleads, Frame
    <3>2. code \notin UncertainCodes
      BY <2>2, <3>1, ErrorFacts
    <3>3. FirstInQueue(t, m)
      BY <1>2, <1>3, <1>12, <3>2 DEF OnItsWay, Calls
    <3> QED
      BY <1>6, <1>12, <3>3 DEF FirstInQueue
  <2>3. Clears(fs[Len(fs)], m)
    BY <1>5 DEF Clears, Frame
  <2> QED
    BY <1>5, <2>1, <2>2, <2>3
<1>13. Elsewhere(t)
  BY <1>3, <1>6, <1>7, <1>8 DEF Elsewhere
<1> QED
  BY <1>3, <1>5, <1>6, <1>7, <1>8, <1>10, <1>11, <1>12, <1>13, BridgeTells

LEMMA DisconnectedFacts ==
    ASSUME NEW p \in Page, NEW d, d = Disconnected(p)
    PROVE  /\ d \in Page /\ ~d.socket /\ ~d.ready /\ d.draft = p.draft
           /\ d.last = p.last /\ d.pending = p.pending
           /\ d.uncertain = (p.uncertain \/ p.pending # None)
<1> DEFINE C == [q \in Questions |-> IF p.cards[q] = "absent" THEN "absent" ELSE "stale"]
<1>1. C \in [Questions -> {"absent", "stale", "fresh", "sent"}]
  OBVIOUS
<1>2. d = [p EXCEPT !.socket = FALSE, !.ready = FALSE, !.uncertain = p.uncertain \/ p.pending # None,
                    !.cards = C]
  BY DEF Disconnected
<1> HIDE DEF C
<1>3. (p.uncertain \/ p.pending # None) \in BOOLEAN
  BY DEF Page
<1> QED
  BY <1>1, <1>2, <1>3 DEF Page

(* A page whose connection ended has nothing in its hands but its message.    *)
LEMMA TabDisconnected ==
    ASSUME ChatShape, NEW t \in Tabs, TabInv(t), NEW d, d = Disconnected(pages[t]), pages'[t].last = d.last,
           pages'[t].draft = d.draft, pages'[t].pending = d.pending, pages'[t].uncertain = d.uncertain,
           ~pages'[t].ready, ~pages'[t].socket, frames'[t] = <<>>, FileGrows,
           \/ bridges'[t].phase = bridges[t].phase /\ bridges'[t].call = bridges[t].call
           \/ bridges'[t].phase = "none",
           bridges[t].phase = "calling" => conversation'.receipts = conversation.receipts,
           \A i \in Ids : Submits(t, i)' => Submits(t, i),
           \A i \in Ids : i = pages[t].last /\ Quiet(i) => Quiet(i)'
    PROVE  TabInv(t)'
<1>1. pages[t] \in Page
  BY DEF ChatShape
<1>2. /\ ~d.socket /\ ~d.ready /\ d.draft = pages[t].draft /\ d.last = pages[t].last
      /\ d.pending = pages[t].pending /\ d.uncertain = (pages[t].uncertain \/ pages[t].pending # None)
  BY <1>1, DisconnectedFacts
<1>3. PageInStep(t)'
  BY <1>2 DEF TabInv, PageInStep, FileGrows
<1>4. BridgeInStep(t)'
  BY <1>2 DEF TabInv, BridgeInStep, Receipt
<1>5. FramesInStep(t)'
  BY DEF FramesInStep
<1>6. pages[t].last \in Ids \cup {None}
  BY <1>1 DEF Page
<1>7. pages[t].draft => pages[t].last # None
  BY DEF TabInv, PageInStep
<1>8. pages[t].last \in Ids /\ Unsent(t) => Unsent(t)'
  BY <1>2 DEF Unsent, Calls
<1>9. Warned(t)'
  BY <1>2, <1>6, <1>7, <1>8 DEF TabInv, Warned
<1> QED
  BY <1>3, <1>4, <1>5, <1>9 DEF TabInv

LEMMA ServerDiesKeeps == ASSUME ChatInv, NEW t \in Tabs, ServerDies(t) PROVE ChatInv'
<1>1. ChatShape /\ TabInv(t) /\ pages[t] \in Page
  BY DEF ChatInv, ServerInv, ChatShape
<1>2. /\ bridges[t].phase # "none" /\ SetBridge(t, NoBridge)
      /\ conversation' = [conversation EXCEPT !.lock = None]
      /\ events' = [events EXCEPT ![t] = <<>>] /\ commands' = [commands EXCEPT ![t] = <<>>]
      /\ frames' = [frames EXCEPT ![t] = <<>>] /\ SetPage(t, Disconnected(pages[t]))
      /\ UNCHANGED gateway
  BY DEF ServerDies
<1>3. /\ conversation' \in FileType /\ conversation'.receipts = conversation.receipts /\ FileGrows
      /\ bridges' \in [Tabs -> Bridge] /\ bridges'[t].phase = "none"
      /\ \A u \in Tabs \ {t} : bridges'[u] = bridges[u]
      /\ ChatShape' => ServerInv'
      /\ \A i \in Ids : Quiet(i) => Quiet(i)'
  BY <1>2, EndSteps
<1>4. PICK d : d = Disconnected(pages[t])
  OBVIOUS
<1>5. d \in Page /\ ~d.socket /\ ~d.ready /\ d.last = pages[t].last
  BY <1>1, <1>4, DisconnectedFacts
<1>6. pages' \in [Tabs -> Page] /\ pages'[t] = d /\ \A u \in Tabs \ {t} : pages'[u] = pages[u]
  BY <1>1, <1>2, <1>4, <1>5, PageSet
<1>7. /\ commands' \in [Tabs -> Seq(Command)] /\ commands'[t] = <<>>
      /\ \A u \in Tabs \ {t} : commands'[u] = commands[u]
  BY <1>1, <1>2 DEF ChatShape
<1>8. /\ frames' \in [Tabs -> Seq(PageFrame)] /\ frames'[t] = <<>>
      /\ \A u \in Tabs \ {t} : frames'[u] = frames[u]
  BY <1>1, <1>2 DEF ChatShape
<1>9. events' \in [Tabs -> Seq(GatewayEvent)] /\ \A u \in Tabs : Len(events'[u]) <= MaxEvents
  <2>1. <<>> \in Seq(GatewayEvent) /\ Len(<<>>) <= MaxEvents
    BY ChatAssumption
  <2> QED
    BY <1>1, <1>2, <2>1, EventSet
<1>10. ChatShape'
  BY <1>1, <1>2, <1>3, <1>6, <1>7, <1>8, <1>9 DEF ChatShape
<1>11. \A i : ~Submits(t, i)'
  BY <1>7 DEF Submits
<1>12. TabInv(t)'
  BY <1>1, <1>3, <1>4, <1>5, <1>6, <1>8, <1>11, TabDisconnected
<1>13. Elsewhere(t)
  BY <1>3, <1>6, <1>7, <1>8 DEF Elsewhere
<1>14. OneAuthor'
  BY <1>5, <1>6 DEF ChatInv, OneAuthor
<1> QED
  BY <1>2, <1>3, <1>10, <1>12, <1>13, <1>14, TabAlone

-----------------------------------------------------------------------------
(* The steps of a page.                                                       *)

(* A step of a page changes its page, its commands and its frames.            *)
LEMMA PageSteps ==
    ASSUME ChatInv, NEW t \in Tabs, NEW p \in Page, SetPage(t, p),
           UNCHANGED <<conversation, bridges, gateway, events>>,
           commands' \in [Tabs -> Seq(Command)], \A u \in Tabs \ {t} : commands'[u] = commands[u],
           frames' \in [Tabs -> Seq(PageFrame)], \A u \in Tabs \ {t} : frames'[u] = frames[u],
           OneAuthor', TabInv(t)'
    PROVE  ChatInv'
<1>1. ChatShape
  BY DEF ChatInv, ServerInv
<1>2. pages' \in [Tabs -> Page] /\ pages'[t] = p /\ \A u \in Tabs \ {t} : pages'[u] = pages[u]
  BY <1>1, PageSet
<1>3. ChatShape'
  BY <1>1, <1>2 DEF ChatShape
<1>4. ServerInv'
  BY <1>3, ServerSame DEF ChatInv, PromptsKept
<1>5. Elsewhere(t)
  BY <1>2 DEF Elsewhere
<1> QED
  BY <1>4, <1>5, FileSame, PromptsSame, TabAlone DEF PromptsKept

LEMMA SameAuthor ==
    ASSUME ChatInv, NEW t \in Tabs, NEW p \in Page, SetPage(t, p), p.last = pages[t].last
    PROVE  OneAuthor'
<1>1. ChatShape
  BY DEF ChatInv, ServerInv
<1>2. pages'[t] = p /\ \A u \in Tabs \ {t} : pages'[u] = pages[u]
  BY <1>1, PageSet
<1> QED
  BY <1>2 DEF ChatInv, OneAuthor

LEMMA AppendFacts ==
    ASSUME NEW S, NEW q \in Seq(S), NEW c \in S
    PROVE  LET r == Append(q, c) IN
           /\ r \in Seq(S) /\ r # <<>>
           /\ \A k \in DOMAIN q : k \in DOMAIN r /\ r[k] = q[k]
           /\ \A k \in DOMAIN r : r[k] = c \/ (k \in DOMAIN q /\ r[k] = q[k])
           /\ q # <<>> => 1 \in DOMAIN q
           /\ q = <<>> => r = <<c>>
<1> DEFINE r == Append(q, c)
<1>1. /\ r \in Seq(S) /\ Len(r) = Len(q) + 1 /\ Len(q) \in Nat /\ r[Len(q) + 1] = c
      /\ \A k \in 1 .. Len(q) : r[k] = q[k]
  OBVIOUS
<1>2. DOMAIN r = 1 .. Len(q) + 1 /\ DOMAIN q = 1 .. Len(q)
  BY <1>1
<1>5. q = <<>> => r = <<c>>
  OBVIOUS
<1> HIDE DEF r
<1>3. r # <<>>
  BY <1>2
<1>4. q # <<>> => 1 \in DOMAIN q
  OBVIOUS
<1>6. \A k \in DOMAIN q : k \in DOMAIN r /\ r[k] = q[k]
  BY <1>1, <1>2
<1>7. \A k \in DOMAIN r : r[k] = c \/ (k \in DOMAIN q /\ r[k] = q[k])
  BY <1>1, <1>2
<1> QED
  BY <1>1, <1>3, <1>4, <1>5, <1>6, <1>7 DEF r

LEMMA Appended ==
    ASSUME ChatShape, NEW t \in Tabs, NEW c \in Command, commands' = [commands EXCEPT ![t] = Append(@, c)]
    PROVE  /\ commands' \in [Tabs -> Seq(Command)] /\ \A u \in Tabs \ {t} : commands'[u] = commands[u]
           /\ commands'[t] # <<>>
           /\ \A k \in DOMAIN commands[t] : k \in DOMAIN commands'[t] /\ commands'[t][k] = commands[t][k]
           /\ \A k \in DOMAIN commands'[t] :
                 commands'[t][k] = c \/ (k \in DOMAIN commands[t] /\ commands'[t][k] = commands[t][k])
           /\ \A i : Submits(t, i)' => Submits(t, i) \/ c = FrameOf("submit", i)
           /\ commands[t] # <<>> => 1 \in DOMAIN commands[t]
           /\ commands[t] = <<>> => commands'[t] = <<c>>
<1>1. commands \in [Tabs -> Seq(Command)] /\ commands[t] \in Seq(Command)
  BY DEF ChatShape
<1> DEFINE q == commands[t]
<1>9. PICK r : r = Append(q, c)
  OBVIOUS
<1>2. /\ r \in Seq(Command) /\ r # <<>>
      /\ \A k \in DOMAIN q : k \in DOMAIN r /\ r[k] = q[k]
      /\ \A k \in DOMAIN r : r[k] = c \/ (k \in DOMAIN q /\ r[k] = q[k])
      /\ q # <<>> => 1 \in DOMAIN q
      /\ q = <<>> => r = <<c>>
  BY <1>1, <1>9, AppendFacts
<1>3. commands'[t] = r /\ commands' \in [Tabs -> Seq(Command)]
      /\ \A u \in Tabs \ {t} : commands'[u] = commands[u]
  BY <1>1, <1>2, <1>9
<1>4. \A i : Submits(t, i)' => Submits(t, i) \/ c = FrameOf("submit", i)
  BY <1>2, <1>3 DEF Submits
<1> QED
  BY <1>2, <1>3, <1>4

LEMMA LoseBrowserKeeps == ASSUME ChatInv, NEW t \in Tabs, LoseBrowser(t) PROVE ChatInv'
<1>1. ChatShape /\ TabInv(t) /\ pages[t] \in Page
  BY DEF ChatInv, ServerInv, ChatShape
<1>2. PICK d : d = Disconnected(pages[t])
  OBVIOUS
<1>3. /\ SetPage(t, d) /\ frames' = [frames EXCEPT ![t] = <<>>]
      /\ commands' = [commands EXCEPT ![t] = Append(@, Frame("gone"))]
      /\ UNCHANGED <<conversation, bridges, gateway, events>>
  BY <1>2 DEF LoseBrowser
<1>4. d \in Page /\ ~d.socket /\ ~d.ready /\ d.last = pages[t].last
  BY <1>1, <1>2, DisconnectedFacts
<1>5. pages'[t] = d
  BY <1>1, <1>3, <1>4, PageSet
<1>6. /\ frames' \in [Tabs -> Seq(PageFrame)] /\ frames'[t] = <<>>
      /\ \A u \in Tabs \ {t} : frames'[u] = frames[u]
  BY <1>1, <1>3 DEF ChatShape
<1>7. /\ commands' \in [Tabs -> Seq(Command)] /\ \A u \in Tabs \ {t} : commands'[u] = commands[u]
      /\ \A i : Submits(t, i)' => Submits(t, i)
  <2>1. Frame("gone") \in Command /\ \A i : Frame("gone") # FrameOf("submit", i)
    <3>1. Frame("gone").type = "gone" /\ \A i : FrameOf("submit", i).type = "submit"
      BY DEF Frame, FrameOf
    <3> QED
      BY <3>1, Codings
  <2>2. PICK c \in Command : c = Frame("gone")
    BY <2>1
  <2>3. commands' = [commands EXCEPT ![t] = Append(@, c)]
    BY <1>3, <2>2
  <2>4. \A i : c # FrameOf("submit", i)
    BY <2>1, <2>2
  <2>5. ChatShape
    BY <1>1
  <2>6. /\ commands' \in [Tabs -> Seq(Command)] /\ \A u \in Tabs \ {t} : commands'[u] = commands[u]
        /\ \A i : Submits(t, i)' => Submits(t, i) \/ c = FrameOf("submit", i)
    BY <2>3, <2>5, Appended
  <2> QED
    BY <2>4, <2>6
<1>8. FileGrows /\ \A i \in Ids : Quiet(i) => Quiet(i)'
  BY <1>3, FileSame, PromptsSame DEF PromptsKept
<1>9. TabInv(t)'
  BY <1>1, <1>2, <1>3, <1>4, <1>5, <1>6, <1>7, <1>8, TabDisconnected
<1>10. OneAuthor'
  BY <1>3, <1>4, SameAuthor
<1> QED
  BY <1>3, <1>4, <1>6, <1>7, <1>9, <1>10, PageSteps

LEMMA ConnectKeeps == ASSUME ChatInv, NEW t \in Tabs, Connect(t) PROVE ChatInv'
<1>1. ChatShape /\ TabInv(t) /\ pages[t] \in Page
  BY DEF ChatInv, ServerInv, ChatShape
<1>2. ~pages[t].socket /\ UNCHANGED <<gateway, events, frames>>
  BY DEF Connect
<1>3. ~pages[t].ready /\ frames[t] = <<>>
  BY <1>1, <1>2 DEF TabInv, PageInStep, FramesInStep
<1>4. ASSUME conversation.lock = None, conversation' = [conversation EXCEPT !.lock = t],
             commands' = [commands EXCEPT ![t] = <<>>],
             bridges' = [bridges EXCEPT ![t] = [NoBridge EXCEPT !.phase = "opening"]],
             SetPage(t, [pages[t] EXCEPT !.socket = TRUE, !.in_use = FALSE])
      PROVE  ChatInv'
  <2>1. PICK p : p = [pages[t] EXCEPT !.socket = TRUE, !.in_use = FALSE]
    OBVIOUS
  <2>2. /\ p \in Page /\ p.socket /\ ~p.ready /\ p.last = pages[t].last /\ p.pending = pages[t].pending
        /\ p.draft = pages[t].draft /\ p.uncertain = pages[t].uncertain
    BY <1>1, <1>3, <2>1 DEF Page
  <2>3. pages' \in [Tabs -> Page] /\ pages'[t] = p /\ \A u \in Tabs \ {t} : pages'[u] = pages[u]
    BY <1>1, <1>4, <2>1, <2>2, PageSet
  <2>4. PICK b : b = [NoBridge EXCEPT !.phase = "opening"]
    OBVIOUS
  <2>5. b \in Bridge /\ b.phase = "opening" /\ SetBridge(t, b)
    BY <1>4, <2>4 DEF NoBridge, Bridge, SetBridge
  <2>6. /\ bridges' \in [Tabs -> Bridge] /\ bridges'[t] = b
        /\ \A u \in Tabs \ {t} : bridges'[u] = bridges[u]
    BY <1>1, <2>5, BridgeSet
  <2>7. /\ conversation' \in FileType /\ conversation'.lock = t
        /\ conversation'.receipts = conversation.receipts
    BY <1>1, <1>4, LockStep
  <2>8. /\ commands' \in [Tabs -> Seq(Command)] /\ commands'[t] = <<>>
        /\ \A u \in Tabs \ {t} : commands'[u] = commands[u]
    BY <1>1, <1>4 DEF ChatShape
  <2>9. ChatShape'
    BY <1>1, <1>2, <2>3, <2>6, <2>7, <2>8 DEF ChatShape
  <2>10. ServerInv'
    BY <1>2, <1>4, <2>5, <2>6, <2>7, <2>9, ServerConnect DEF ChatInv
  <2>11. \A u \in Tabs : bridges[u].phase = "none"
    BY <1>4, ChatAssumption DEF ChatInv, ServerInv, OneBridge
  <2>12. FileGrows /\ \A i \in Ids : Quiet(i) => Quiet(i)'
    BY <1>2, <2>7, PromptsSame DEF FileGrows, Receipt, PromptsKept
  <2>13. TabInv(t)'
    <3>1. \A i : ~Submits(t, i)'
      BY <2>8 DEF Submits
    <3>2. PageInStep(t)'
      BY <1>1, <1>3, <2>2, <2>3, <2>8, <2>12, <3>1 DEF TabInv, PageInStep, FileGrows
    <3>3. BridgeInStep(t)'
      BY <1>2, <1>3, <2>2, <2>3, <2>5, <2>6, <3>1 DEF BridgeInStep
    <3>4. FramesInStep(t)'
      BY <1>2, <1>3 DEF FramesInStep
    <3>5. pages[t].draft /\ ~pages[t].uncertain => pages[t].pending = None /\ pages[t].last \in Ids /\ Unsent(t)
      BY <1>1, <1>3 DEF TabInv, PageInStep, Warned, Page
    <3>6. pages[t].last \in Ids /\ Unsent(t) => Unsent(t)'
      BY <2>2, <2>3, <2>5, <2>6, <2>12, <3>1 DEF Unsent, Calls
    <3>7. Warned(t)'
      BY <2>2, <2>3, <3>5, <3>6 DEF Warned
    <3> QED
      BY <3>2, <3>3, <3>4, <3>7 DEF TabInv
  <2>14. Elsewhere(t)
    BY <1>2, <2>3, <2>6, <2>8 DEF Elsewhere
  <2>15. SetPage(t, p)
    BY <1>4, <2>1
  <2>16. OneAuthor'
    BY <2>2, <2>15, SameAuthor
  <2> QED
    BY <2>10, <2>11, <2>12, <2>13, <2>14, <2>16, TabAlone
<1>5. ASSUME SetPage(t, [Disconnected(pages[t]) EXCEPT !.in_use = TRUE]),
             UNCHANGED <<conversation, bridges, commands>>
      PROVE  ChatInv'
  <2>1. PICK d : d = Disconnected(pages[t])
    OBVIOUS
  <2>2. PICK p : p = [d EXCEPT !.in_use = TRUE]
    OBVIOUS
  <2>3. d \in Page /\ ~d.socket /\ ~d.ready /\ d.last = pages[t].last
    BY <1>1, <2>1, DisconnectedFacts
  <2>4. /\ p \in Page /\ p.last = d.last /\ p.draft = d.draft /\ p.pending = d.pending
        /\ p.uncertain = d.uncertain /\ ~p.ready /\ ~p.socket
    BY <2>2, <2>3 DEF Page
  <2>5. SetPage(t, p)
    BY <1>5, <2>1, <2>2
  <2>6. pages'[t] = p
    BY <1>1, <2>4, <2>5, PageSet
  <2>7. FileGrows /\ (\A i \in Ids : Quiet(i) => Quiet(i)') /\ \A i : Submits(t, i)' => Submits(t, i)
    BY <1>2, <1>5, FileSame, PromptsSame DEF PromptsKept, Submits
  <2>8. frames'[t] = <<>>
    BY <1>2, <1>3
  <2>9. TabInv(t)'
    BY <1>1, <1>5, <2>1, <2>4, <2>6, <2>7, <2>8, TabDisconnected
  <2>10. OneAuthor'
    BY <2>3, <2>4, <2>5, SameAuthor
  <2> QED
    BY <1>1, <1>2, <1>5, <2>4, <2>5, <2>9, <2>10, PageSteps DEF ChatShape
<1> QED
  BY <1>4, <1>5 DEF Connect

(* A command that carries no message.                                         *)
LEMMA TabAsks ==
    ASSUME ChatInv, NEW t \in Tabs, NEW c \in Command, c.type \notin {"submit", "gone"},
           commands' = [commands EXCEPT ![t] = Append(@, c)],
           UNCHANGED <<conversation, bridges, gateway, events, frames>>,
           NEW p \in Page, SetPage(t, p), p.socket = pages[t].socket, p.ready = pages[t].ready,
           p.pending = pages[t].pending, p.last = pages[t].last, p.draft = pages[t].draft,
           p.uncertain = pages[t].uncertain
    PROVE  ChatInv'
<1>1. ChatShape /\ TabInv(t)
  BY DEF ChatInv, ServerInv
<1>2. /\ commands' \in [Tabs -> Seq(Command)] /\ \A u \in Tabs \ {t} : commands'[u] = commands[u]
      /\ commands'[t] # <<>>
      /\ \A k \in DOMAIN commands[t] : k \in DOMAIN commands'[t] /\ commands'[t][k] = commands[t][k]
      /\ \A k \in DOMAIN commands'[t] :
            commands'[t][k] = c \/ (k \in DOMAIN commands[t] /\ commands'[t][k] = commands[t][k])
      /\ commands[t] # <<>> => 1 \in DOMAIN commands[t]
  BY <1>1, Appended
<1>3. pages'[t] = p
  BY <1>1, PageSet
<1>4. \A i : c # FrameOf("submit", i)
  BY DEF FrameOf
<1>5. \A i : Submits(t, i)' => Submits(t, i)
  BY <1>2, <1>4 DEF Submits
<1>6. PageInStep(t)'
  BY <1>1, <1>2, <1>3, <1>5 DEF TabInv, PageInStep, Receipt
<1>7. BridgeInStep(t)'
  BY <1>1, <1>3, <1>5 DEF TabInv, BridgeInStep, Receipt
<1>8. FramesInStep(t)'
  BY <1>1, <1>3, <1>5 DEF TabInv, FramesInStep, Receipt
<1>9. Unsent(t) => Unsent(t)'
  BY <1>3, <1>5 DEF Unsent, Quiet, Calls
<1>10. ASSUME NEW i, i = pages[t].last, OnItsWay(t, i) PROVE OnItsWay(t, i)'
  <2>1. CASE FirstInQueue(t, i)
    <3>1. commands'[t][1] = FrameOf("submit", i) /\ Quiet(i)'
      BY <1>2, <2>1 DEF FirstInQueue, Quiet
    <3>2. \A k \in DOMAIN commands'[t] : commands'[t][k] = FrameOf("submit", i) => k = 1
      BY <1>2, <1>4, <2>1 DEF FirstInQueue
    <3> QED
      BY <1>2, <2>1, <3>1, <3>2 DEF FirstInQueue, OnItsWay
  <2>2. CASE Calls(t, i) /\ ~Submits(t, i)
    BY <1>5, <2>2 DEF OnItsWay, Calls
  <2>3. CASE bridges[t].phase = "closing" /\ bridges[t].code \in UncertainCodes
    BY <2>3 DEF OnItsWay
  <2> QED
    BY <1>10, <2>1, <2>2, <2>3 DEF OnItsWay
<1>11. Warned(t)'
  BY <1>1, <1>3, <1>9, <1>10 DEF TabInv, Warned
<1>12. TabInv(t)' /\ OneAuthor'
  BY <1>6, <1>7, <1>8, <1>11, SameAuthor DEF TabInv
<1> QED
  BY <1>1, <1>2, <1>12, PageSteps DEF ChatShape

LEMMA AnswerRequestKeeps == ASSUME ChatInv, NEW t \in Tabs, NEW q \in Questions, AnswerRequest(t, q) PROVE ChatInv'
<1>1. pages[t] \in Page
  BY DEF ChatInv, ServerInv, ChatShape
<1>2. PICK p : p = [pages[t] EXCEPT !.cards[q] = "sent"]
  OBVIOUS
<1>3. PICK c \in Command : c = FrameOf("answer", q)
  BY Codings
<1>4. /\ p \in Page /\ p.socket = pages[t].socket /\ p.ready = pages[t].ready
      /\ p.pending = pages[t].pending /\ p.last = pages[t].last /\ p.draft = pages[t].draft
      /\ p.uncertain = pages[t].uncertain
  BY <1>1, <1>2 DEF Page
<1>5. /\ c.type = "answer" /\ commands' = [commands EXCEPT ![t] = Append(@, c)] /\ SetPage(t, p)
      /\ UNCHANGED <<conversation, bridges, gateway, events, frames>>
  BY <1>2, <1>3 DEF AnswerRequest, FrameOf
<1> QED
  BY <1>4, <1>5, TabAsks

LEMMA PressStopKeeps == ASSUME ChatInv, NEW t \in Tabs, PressStop(t) PROVE ChatInv'
<1>1. pages[t] \in Page
  BY DEF ChatInv, ServerInv, ChatShape
<1>2. PICK p : p = [pages[t] EXCEPT !.stopping = TRUE]
  OBVIOUS
<1>3. PICK c \in Command : c = Frame("stop")
  BY Codings
<1>4. /\ p \in Page /\ p.socket = pages[t].socket /\ p.ready = pages[t].ready
      /\ p.pending = pages[t].pending /\ p.last = pages[t].last /\ p.draft = pages[t].draft
      /\ p.uncertain = pages[t].uncertain
  BY <1>1, <1>2 DEF Page
<1>5. /\ c.type = "stop" /\ commands' = [commands EXCEPT ![t] = Append(@, c)] /\ SetPage(t, p)
      /\ UNCHANGED <<conversation, bridges, gateway, events, frames>>
  BY <1>2, <1>3 DEF PressStop, Frame
<1> QED
  BY <1>4, <1>5, TabAsks

(* A message is sent when nothing on its way can be taken for its answer.     *)
LEMMA TabSubmits ==
    ASSUME ChatInv, Unhurried, NEW t \in Tabs, NEW i \in Ids,
           commands' = [commands EXCEPT ![t] = Append(@, FrameOf("submit", i))],
           UNCHANGED <<conversation, bridges, gateway, events, frames>>,
           pages[t].ready, pages[t].pending = None, NEW p \in Page, SetPage(t, p),
           p.socket = pages[t].socket, p.ready, p.pending = i, p.last = i, p.uncertain = pages[t].uncertain,
           \/ i = pages[t].last /\ p.draft = pages[t].draft
           \/ i \notin UsedIds /\ p.draft
    PROVE  ChatInv'
<1>1. ChatShape /\ TabInv(t) /\ i # None
  BY ChatAssumption DEF ChatInv, ServerInv
<1>2. pages'[t] = p /\ \A u \in Tabs \ {t} : pages'[u] = pages[u]
  BY <1>1, PageSet
<1>3. commands[t] = <<>> /\ \A k \in DOMAIN frames[t] : frames[t][k].type # "error"
  BY <1>1, <1>2 DEF Unhurried
<1>4. PICK c \in Command : c = FrameOf("submit", i)
  BY Codings
<1>5. /\ commands' \in [Tabs -> Seq(Command)] /\ \A u \in Tabs \ {t} : commands'[u] = commands[u]
      /\ commands'[t] = <<c>>
  <2>1. commands' = [commands EXCEPT ![t] = Append(@, c)]
    BY <1>4
  <2> QED
    BY <1>1, <1>3, <2>1, Appended
<1>6. DOMAIN commands'[t] = {1} /\ commands'[t][1] = c /\ commands'[t] # <<>>
  <2>1. <<c>> \in Seq(Command) /\ Len(<<c>>) = 1 /\ <<c>>[1] = c
    OBVIOUS
  <2>2. DOMAIN <<c>> = {1} /\ <<c>> # <<>>
    BY <2>1
  <2> QED
    BY <1>5, <2>1, <2>2
<1>7. \A j : Submits(t, j)' => j = i
  BY <1>4, <1>6 DEF Submits, FrameOf
<1>8. ~pages[t].uncertain => bridges[t].phase # "calling"
  BY <1>1, ChatAssumption DEF TabInv, BridgeInStep, ChatInv, ServerInv, CallHolds
<1>9. pages[t].ready /\ pages[t].socket
  BY <1>1 DEF TabInv, PageInStep
<1>10. PageInStep(t)'
  <2>1. ~p.draft => Receipt(i)
    BY <1>1 DEF TabInv, PageInStep
  <2>2. \A k \in DOMAIN commands'[t] : commands'[t][k].type # "gone"
    BY <1>4, <1>6 DEF FrameOf
  <2> QED
    BY <1>1, <1>2, <1>7, <1>9, <2>1, <2>2 DEF PageInStep, Receipt
<1>11. BridgeInStep(t)'
  <2>1. bridges[t].phase # "opening"
    BY <1>1, <1>9 DEF TabInv, BridgeInStep
  <2>2. ASSUME bridges[t].phase = "calling"
        PROVE  p.draft /\ p.uncertain /\ (i = bridges[t].call \/ ~Receipt(i))
    <3>1. pages[t].draft /\ (pages[t].last = bridges[t].call \/ ~Receipt(pages[t].last))
      BY <1>1, <2>2 DEF TabInv, BridgeInStep
    <3>2. i \notin UsedIds => ~Receipt(i)
      BY DEF UsedIds, Receipt
    <3> QED
      BY <1>8, <2>2, <3>1, <3>2
  <2> QED
    BY <1>2, <2>1, <2>2 DEF BridgeInStep, Receipt
<1>12. FramesInStep(t)'
  BY <1>1, <1>2, <1>9 DEF TabInv, FramesInStep, Receipt
<1>13. Warned(t)'
  <2> SUFFICES ASSUME p.draft, ~p.uncertain
               PROVE  /\ \A k \in DOMAIN frames[t] : ~Misleads(frames[t][k])
                      /\ FirstInQueue(t, i)'
    BY <1>1, <1>2 DEF Warned, OnItsWay
  <2>1. Quiet(i)
    <3>1. CASE i = pages[t].last /\ p.draft = pages[t].draft
      BY <1>1, <3>1 DEF TabInv, Warned, Unsent
    <3>2. CASE i \notin UsedIds
      BY <3>2 DEF UsedIds, ChatInv, ServerInv, PromptsHold, Receipt
    <3> QED
      BY <3>1, <3>2
  <2>2. bridges[t].phase # "calling"
    BY <1>8
  <2>3. FirstInQueue(t, i)'
    BY <1>4, <1>6, <2>1, <2>2 DEF FirstInQueue, Quiet
  <2> QED
    BY <1>3, <2>3 DEF Misleads
<1>14. OneAuthor'
  <2>1. CASE i = pages[t].last
    BY <2>1, SameAuthor
  <2>2. CASE i \notin UsedIds
    BY <1>2, <2>2 DEF ChatInv, OneAuthor, UsedIds
  <2> QED
    BY <2>1, <2>2
<1> QED
  BY <1>1, <1>5, <1>10, <1>11, <1>12, <1>13, <1>14, PageSteps DEF ChatShape, TabInv

LEMMA SubmitKeeps ==
    ASSUME ChatInv, Unhurried, NEW t \in Tabs, NEW i \in Ids, Submit(t, i) PROVE ChatInv'
<1>1. pages[t] \in Page
  BY DEF ChatInv, ServerInv, ChatShape
<1>2. PICK p : p = [pages[t] EXCEPT !.pending = i, !.last = i, !.draft = TRUE]
  OBVIOUS
<1>3. /\ p \in Page /\ p.socket = pages[t].socket /\ p.ready = pages[t].ready
      /\ p.pending = i /\ p.last = i /\ p.draft /\ p.uncertain = pages[t].uncertain
  BY <1>1, <1>2 DEF Page
<1>4. /\ commands' = [commands EXCEPT ![t] = Append(@, FrameOf("submit", i))] /\ SetPage(t, p)
      /\ UNCHANGED <<conversation, bridges, gateway, events, frames>>
      /\ pages[t].ready /\ pages[t].pending = None /\ i \notin UsedIds
  BY <1>2 DEF Submit
<1> QED
  BY <1>3, <1>4, TabSubmits

LEMMA RepeatKeeps ==
    ASSUME ChatInv, Unhurried, NEW t \in Tabs, Repeat(t) PROVE ChatInv'
<1>1. pages[t] \in Page
  BY DEF ChatInv, ServerInv, ChatShape
<1>2. PICK i \in Ids : i = pages[t].last
  BY <1>1 DEF Repeat, Page
<1>3. PICK p : p = [pages[t] EXCEPT !.pending = i]
  OBVIOUS
<1>4. /\ p \in Page /\ p.socket = pages[t].socket /\ p.ready = pages[t].ready
      /\ p.pending = i /\ p.last = i /\ p.draft = pages[t].draft /\ p.uncertain = pages[t].uncertain
  BY <1>1, <1>2, <1>3 DEF Page
<1>5. /\ commands' = [commands EXCEPT ![t] = Append(@, FrameOf("submit", i))] /\ SetPage(t, p)
      /\ UNCHANGED <<conversation, bridges, gateway, events, frames>>
      /\ pages[t].ready /\ pages[t].pending = None
  BY <1>2, <1>3 DEF Repeat
<1> QED
  BY <1>2, <1>4, <1>5, TabSubmits

(* What a frame does to the message of a page.                                *)
SameMessage(p, page) ==
    /\ p.pending = page.pending /\ p.draft = page.draft /\ p.uncertain = page.uncertain
    /\ p.ready = page.ready /\ p.socket = page.socket

Answered(p, page) ==
    /\ p.pending = None /\ p.draft = page.draft
    /\ p.socket = page.socket

LEMMA ReceivedFacts ==
    ASSUME NEW page \in Page, NEW f \in PageFrame, NEW p, p = Received(page, f)
    PROVE  /\ p \in Page /\ p.last = page.last
           /\ \/ f.type = "snapshot" /\ Answered(p, page) /\ p.ready /\ p.uncertain = page.uncertain
              \/ /\ f.type = "accepted" /\ page.pending = f.about
                 /\ p.pending = None /\ ~p.draft /\ p.socket = page.socket /\ p.ready = page.ready
              \/ f.type = "accepted" /\ page.pending # f.about /\ SameMessage(p, page)
              \/ f.type \in {"token", "done", "request", "request_cancel"} /\ SameMessage(p, page)
              \/ /\ f.type = "error" /\ Answered(p, page) /\ p.ready = page.ready
                 /\ p.uncertain = Notice(page, f.about)
              \/ /\ f.type = "turn_error" /\ Answered(p, page) /\ p.ready = page.ready
                 /\ p.uncertain = (page.uncertain \/ page.pending # None)
              \/ f.type = "close" /\ p = Disconnected(page)
<1> USE DEF SameMessage, Answered
<1>1. CASE f.type = "snapshot"
  <2>1. f.running \in BOOLEAN /\ f.open \subseteq Questions
    BY <1>1 DEF PageFrame
  <2>2. PICK C : C = CardsAfter(page, f.open)
    OBVIOUS
  <2>3. C \in [Questions -> {"absent", "stale", "fresh", "sent"}]
    BY <2>2 DEF CardsAfter, Page
  <2>4. p = [page EXCEPT !.running = f.running, !.stopping = FALSE, !.pending = None,
                         !.ready = TRUE, !.cards = C]
    BY <1>1, <2>2 DEF Received
  <2> QED
    BY <1>1, <2>1, <2>3, <2>4 DEF Page
<1>2. CASE f.type = "accepted" /\ page.pending = f.about
  <2>1. p = [page EXCEPT !.pending = None, !.running = TRUE, !.uncertain = FALSE, !.draft = FALSE]
    BY <1>2 DEF Received
  <2> QED
    BY <1>2, <2>1 DEF Page
<1>3. CASE f.type = "accepted" /\ page.pending # f.about
  <2>1. p = page
    BY <1>3 DEF Received
  <2> QED
    BY <1>3, <2>1
<1>4. CASE f.type = "token"
  <2>1. p = [page EXCEPT !.running = TRUE]
    BY <1>4 DEF Received
  <2> QED
    BY <1>4, <2>1 DEF Page
<1>5. CASE f.type = "done"
  <2>1. p = [page EXCEPT !.running = FALSE, !.stopping = FALSE]
    BY <1>5 DEF Received
  <2> QED
    BY <1>5, <2>1 DEF Page
<1>6. CASE f.type = "request"
  <2>1. f.about \in Questions
    BY <1>6 DEF PageFrame
  <2>2. p = IF page.cards[f.about] \in {"absent", "stale"}
            THEN [page EXCEPT !.cards[f.about] = "fresh"] ELSE page
    BY <1>6 DEF Received
  <2> QED
    BY <1>6, <2>1, <2>2 DEF Page
<1>7. CASE f.type = "request_cancel"
  <2>1. f.about \in Questions
    BY <1>7 DEF PageFrame
  <2>2. p = [page EXCEPT !.cards[f.about] = "absent"]
    BY <1>7 DEF Received
  <2> QED
    BY <1>7, <2>1, <2>2 DEF Page
<1>8. CASE f.type = "error"
  <2>1. PICK n : n = Notice(page, f.about)
    OBVIOUS
  <2>2. n \in BOOLEAN
    BY <2>1 DEF Notice, Page
  <2>3. p = [page EXCEPT !.uncertain = n, !.pending = None, !.stopping = FALSE]
    BY <1>8, <2>1 DEF Received
  <2> QED
    BY <1>8, <2>1, <2>2, <2>3 DEF Page
<1>9. CASE f.type = "turn_error"
  <2>1. PICK n : n = Notice(page, "gateway_request_failed")
    OBVIOUS
  <2>2. n = (page.uncertain \/ page.pending # None) /\ n \in BOOLEAN
    BY <2>1 DEF Notice, Page, UncertainCodes
  <2>3. p = [page EXCEPT !.uncertain = n, !.pending = None, !.stopping = FALSE, !.running = FALSE]
    BY <1>9, <2>1 DEF Received
  <2> QED
    BY <1>9, <2>2, <2>3 DEF Page
<1>10. CASE f.type = "close"
  <2>1. p = Disconnected(page)
    BY <1>10 DEF Received
  <2> QED
    BY <1>10, <2>1, DisconnectedFacts
<1> QED
  BY <1>1, <1>2, <1>3, <1>4, <1>5, <1>6, <1>7, <1>8, <1>9, <1>10 DEF PageFrame

LEMMA ReceiveFrameKeeps == ASSUME ChatInv, NEW t \in Tabs, ReceiveFrame(t) PROVE ChatInv'
<1>1. ChatShape /\ TabInv(t) /\ pages[t] \in Page /\ frames[t] \in Seq(PageFrame)
      /\ frames \in [Tabs -> Seq(PageFrame)]
  BY DEF ChatInv, ServerInv, ChatShape
<1>2. PICK q : q = frames[t]
  OBVIOUS
<1>3. q \in Seq(PageFrame) /\ q # <<>>
  BY <1>1, <1>2 DEF ReceiveFrame
<1>4. PICK r : r = Tail(q)
  OBVIOUS
<1>5. /\ r \in Seq(PageFrame) /\ Len(r) = Len(q) - 1 /\ Head(q) = q[1] /\ Head(q) \in PageFrame
      /\ 1 \in DOMAIN q /\ Len(q) \in Nat
      /\ DOMAIN q = 1 .. Len(q) /\ DOMAIN r = 1 .. Len(q) - 1
      /\ \A k \in DOMAIN r : k + 1 \in DOMAIN q /\ r[k] = q[k + 1]
      /\ \A k \in DOMAIN q : k = 1 \/ (k - 1 \in DOMAIN r /\ r[k - 1] = q[k])
  BY <1>3, <1>4, TailFacts
<1>6. PICK f \in PageFrame : f = q[1]
  BY <1>5
<1>7. PICK p : p = Received(pages[t], f)
  OBVIOUS
<1>8. /\ SetPage(t, p) /\ frames' = [frames EXCEPT ![t] = r]
      /\ UNCHANGED <<conversation, bridges, gateway, events, commands>>
  BY <1>2, <1>4, <1>5, <1>6, <1>7 DEF ReceiveFrame
<1> DEFINE page == pages[t]
<1>9. p \in Page /\ p.last = page.last
  BY <1>1, <1>6, <1>7, ReceivedFacts
<1>10. pages'[t] = p
  BY <1>1, <1>8, <1>9, PageSet
<1>11. /\ frames' \in [Tabs -> Seq(PageFrame)] /\ frames'[t] = r
       /\ \A u \in Tabs \ {t} : frames'[u] = frames[u]
  BY <1>1, <1>5, <1>8
<1>12. page.socket
  BY <1>1, <1>2, <1>3 DEF TabInv, FramesInStep
<1>13. FileGrows /\ (\A i : Submits(t, i)' <=> Submits(t, i)) /\ (Unsent(t) <=> Unsent(t)')
       /\ \A i \in Ids : Quiet(i) => Quiet(i)'
  BY <1>8, <1>9, <1>10, FileSame DEF Submits, Unsent, Quiet, Calls
<1>14. \A k \in DOMAIN r : /\ r[k].type # "snapshot"
                           /\ r[k].type = "close" => k = Len(r) /\ bridges[t].phase = "none"
                           /\ r[k].type = "accepted" =>
                                 Receipt(r[k].about) /\ conversation.receipts[r[k].about] = "accepted"
  <2> SUFFICES ASSUME NEW k \in DOMAIN r
               PROVE  /\ r[k].type # "snapshot"
                      /\ r[k].type = "close" => k = Len(r) /\ bridges[t].phase = "none"
                      /\ r[k].type = "accepted" =>
                            Receipt(r[k].about) /\ conversation.receipts[r[k].about] = "accepted"
    OBVIOUS
  <2>1. k + 1 \in DOMAIN q /\ r[k] = q[k + 1] /\ k + 1 # 1 /\ k \in Int
    BY <1>5
  <2>2. /\ q[k + 1].type = "snapshot" => k + 1 = 1
        /\ q[k + 1].type = "close" => k + 1 = Len(q) /\ bridges[t].phase = "none"
        /\ q[k + 1].type = "accepted" =>
              Receipt(q[k + 1].about) /\ conversation.receipts[q[k + 1].about] = "accepted"
    BY <1>1, <1>2, <2>1 DEF TabInv, FramesInStep
  <2> QED
    BY <1>5, <2>1, <2>2
<1>15. ASSUME p.socket PROVE FramesInStep(t)'
  BY <1>8, <1>10, <1>11, <1>14, <1>15 DEF FramesInStep, Receipt
<1>16. ASSUME PageInStep(t)', BridgeInStep(t)', FramesInStep(t)', Warned(t)' PROVE ChatInv'
  <2>1. TabInv(t)' /\ OneAuthor'
    BY <1>8, <1>9, <1>16, SameAuthor DEF TabInv
  <2> QED
    BY <1>1, <1>8, <1>9, <1>11, <2>1, PageSteps DEF ChatShape
<1>17. bridges[t].phase # "opening"
  BY <1>1, <1>2, <1>3 DEF TabInv, BridgeInStep
<1>18. page.last \in Ids \cup {None} /\ (page.pending # None => page.pending = page.last)
       /\ (page.draft => page.last # None)
  BY <1>1 DEF TabInv, PageInStep, Page
<1>19. page.draft /\ ~page.uncertain /\ page.pending = None => Unsent(t)
  BY <1>1 DEF TabInv, Warned
<1>20. page.draft /\ ~page.uncertain /\ page.pending # None /\ Misleads(f) => Unsent(t)
  <2>1. \A j \in DOMAIN q : ~(j < 1)
    BY <1>5
  <2> QED
    BY <1>1, <1>2, <1>5, <1>6, <2>1 DEF TabInv, Warned
<1>21. bridges[t].phase = "calling" =>
         /\ page.draft /\ (page.uncertain \/ page.pending = bridges[t].call)
         /\ page.last = bridges[t].call \/ ~Receipt(page.last)
         /\ bridges[t].call \in Ids /\ bridges[t].call # None
         /\ conversation.receipts[bridges[t].call] = "sending"
  BY <1>1, ChatAssumption DEF TabInv, BridgeInStep, ChatInv, ServerInv, CallHolds
\* A frame that leaves the message alone.
<1>22. ASSUME SameMessage(p, page), ~Clears(f, page.last) \/ page.pending = None PROVE ChatInv'
  <2> USE DEF SameMessage
  <2>1. PageInStep(t)'
    BY <1>1, <1>8, <1>9, <1>10, <1>13, <1>22 DEF TabInv, PageInStep, FileGrows
  <2>2. BridgeInStep(t)'
    BY <1>8, <1>9, <1>10, <1>17, <1>21, <1>22 DEF BridgeInStep, Receipt
  <2>3. FramesInStep(t)'
    BY <1>12, <1>15, <1>22
  <2>4. Warned(t)'
    <3> SUFFICES ASSUME page.draft, ~page.uncertain, page.pending # None
                 PROVE  /\ \A k \in DOMAIN r :
                              Misleads(r[k]) /\ (\A j \in DOMAIN r : j < k => ~Clears(r[j], page.last))
                                  => Unsent(t)
                        /\ (\A k \in DOMAIN r : ~Clears(r[k], page.last)) => OnItsWay(t, page.last)'
      BY <1>9, <1>10, <1>11, <1>13, <1>19, <1>22 DEF Warned
    <3>1. ~Clears(q[1], page.last)
      BY <1>6, <1>22
    <3>2. ASSUME NEW k \in DOMAIN r, Misleads(r[k]), \A j \in DOMAIN r : j < k => ~Clears(r[j], page.last)
          PROVE  Unsent(t)
      <4>1. k + 1 \in DOMAIN q /\ Misleads(q[k + 1])
        BY <1>5, <3>2
      <4>2. ASSUME NEW j \in DOMAIN q, j < k + 1 PROVE ~Clears(q[j], page.last)
        <5>1. CASE j = 1
          BY <3>1, <5>1
        <5>2. CASE j # 1
          <6>1. j - 1 \in DOMAIN r /\ r[j - 1] = q[j] /\ j - 1 < k
            BY <1>5, <4>2, <5>2
          <6> QED
            BY <3>2, <6>1
        <5> QED
          BY <5>1, <5>2
      <4> QED
        BY <1>1, <1>2, <4>1, <4>2 DEF TabInv, Warned
    <3>3. ASSUME \A k \in DOMAIN r : ~Clears(r[k], page.last) PROVE OnItsWay(t, page.last)'
      <4>1. ASSUME NEW k \in DOMAIN q PROVE ~Clears(q[k], page.last)
        BY <1>5, <3>1, <3>3
      <4>2. OnItsWay(t, page.last)
        BY <1>1, <1>2, <4>1 DEF TabInv, Warned
      <4>3. PICK m \in Ids : m = page.last
        BY <1>18
      <4>4. OnItsWay(t, m) => OnItsWay(t, m)'
        BY <1>8, <1>13 DEF OnItsWay, FirstInQueue, Calls
      <4> QED
        BY <1>9, <1>10, <4>2, <4>3, <4>4
    <3> QED
      BY <3>2, <3>3
  <2> QED
    BY <1>16, <2>1, <2>2, <2>3, <2>4
\* A frame that ends the page's wait.
<1>23. ASSUME Answered(p, page), p.ready => page.ready \/ f.type = "snapshot",
              page.ready => p.ready, page.uncertain => p.uncertain,
              page.draft /\ ~p.uncertain => Unsent(t), bridges[t].phase = "calling" => p.uncertain
       PROVE  ChatInv'
  <2> USE DEF Answered
  <2>1. PageInStep(t)'
    BY <1>1, <1>8, <1>9, <1>10, <1>12, <1>13, <1>23 DEF TabInv, PageInStep, FileGrows
  <2>2. BridgeInStep(t)'
    BY <1>8, <1>9, <1>10, <1>17, <1>21, <1>23 DEF BridgeInStep, Receipt
  <2>3. FramesInStep(t)'
    BY <1>12, <1>15, <1>23
  <2>4. Warned(t)'
    BY <1>10, <1>13, <1>23 DEF Warned
  <2> QED
    BY <1>16, <2>1, <2>2, <2>3, <2>4
<1>24. CASE f.type = "snapshot" /\ Answered(p, page) /\ p.ready /\ p.uncertain = page.uncertain
  <2>1. ~page.ready /\ bridges[t].phase # "calling"
    BY <1>1, <1>2, <1>5, <1>6, <1>24 DEF TabInv, FramesInStep
  <2>2. page.draft /\ ~page.uncertain => Unsent(t)
    BY <1>1, <1>19, <2>1 DEF TabInv, PageInStep
  <2> QED
    BY <1>23, <1>24, <2>1, <2>2
<1>25. CASE /\ f.type = "accepted" /\ page.pending = f.about
            /\ p.pending = None /\ ~p.draft /\ p.socket = page.socket /\ p.ready = page.ready
  <2>1. Receipt(f.about) /\ conversation.receipts[f.about] = "accepted"
    BY <1>1, <1>2, <1>5, <1>6, <1>25 DEF TabInv, FramesInStep
  <2>2. f.about # None
    BY <1>25, ChatAssumption DEF PageFrame
  <2>3. page.last = f.about
    BY <1>18, <1>25, <2>2
  <2>4. bridges[t].phase # "calling"
    BY <1>21, <2>1, <2>3
  <2>5. PageInStep(t)'
    BY <1>1, <1>8, <1>9, <1>10, <1>12, <1>13, <1>25, <2>1, <2>3 DEF TabInv, PageInStep, FileGrows
  <2>6. BridgeInStep(t)'
    BY <1>8, <1>17, <2>4 DEF BridgeInStep
  <2>7. FramesInStep(t)'
    BY <1>12, <1>15, <1>25
  <2>8. Warned(t)'
    BY <1>10, <1>25 DEF Warned
  <2> QED
    BY <1>16, <2>5, <2>6, <2>7, <2>8
<1>26. CASE f.type = "accepted" /\ page.pending # f.about /\ SameMessage(p, page)
  <2>1. ~Clears(f, page.last) \/ page.pending = None
    BY <1>18, <1>26 DEF Clears
  <2> QED
    BY <1>22, <1>26, <2>1
<1>27. CASE f.type \in {"token", "done", "request", "request_cancel"} /\ SameMessage(p, page)
  <2>1. ~Clears(f, page.last)
    BY <1>27 DEF Clears
  <2> QED
    BY <1>22, <1>27, <2>1
<1>28. CASE /\ f.type = "error" /\ Answered(p, page) /\ p.ready = page.ready
            /\ p.uncertain = Notice(page, f.about)
  <2>1. page.uncertain => p.uncertain
    BY <1>28 DEF Notice
  <2>2. page.pending # None /\ ~p.uncertain => Misleads(f)
    BY <1>28 DEF Notice, Misleads
  <2>3. page.draft /\ ~p.uncertain => Unsent(t)
    BY <1>19, <1>20, <2>1, <2>2
  <2>4. bridges[t].phase = "calling" => p.uncertain
    <3> SUFFICES ASSUME bridges[t].phase = "calling", ~p.uncertain PROVE FALSE
      OBVIOUS
    <3>1. page.pending = bridges[t].call /\ page.last = bridges[t].call /\ page.draft
      BY <1>18, <1>21, <2>1
    <3>2. Unsent(t)
      BY <2>3, <3>1
    <3> QED
      BY <3>1, <3>2 DEF Unsent, Calls
  <2> QED
    BY <1>23, <1>28, <2>1, <2>3, <2>4
<1>29. CASE /\ f.type = "turn_error" /\ Answered(p, page) /\ p.ready = page.ready
            /\ p.uncertain = (page.uncertain \/ page.pending # None)
  <2>1. (page.draft /\ ~p.uncertain => Unsent(t)) /\ (bridges[t].phase = "calling" => p.uncertain)
    BY <1>19, <1>21, <1>29
  <2> QED
    BY <1>23, <1>29, <2>1
<1>30. CASE f.type = "close" /\ p = Disconnected(page)
  <2>1. 1 = Len(q)
    BY <1>1, <1>2, <1>5, <1>6, <1>30 DEF TabInv, FramesInStep
  <2>2. r = <<>>
    <3>1. r \in Seq(PageFrame) /\ Len(r) = Len(q) - 1
      BY <1>5
    <3>2. Len(r) = 0
      BY <2>1, <3>1
    <3> QED
      BY <3>1, <3>2
  <2>3. ~p.ready /\ ~p.socket
    BY <1>1, <1>30, DisconnectedFacts
  <2>4. TabInv(t)'
    BY <1>1, <1>8, <1>10, <1>11, <1>13, <1>30, <2>2, <2>3, TabDisconnected
  <2>5. OneAuthor'
    BY <1>8, <1>9, SameAuthor
  <2> QED
    BY <1>1, <1>8, <1>9, <1>11, <2>4, <2>5, PageSteps DEF ChatShape
<1> QED
  BY <1>1, <1>6, <1>7, <1>24, <1>25, <1>26, <1>27, <1>28, <1>29, <1>30, ReceivedFacts

-----------------------------------------------------------------------------
(* The steps of the gateway.                                                  *)
LEMMA GatewayKeeps ==
    ASSUME ChatInv, ServerInv', UNCHANGED <<conversation, commands, frames, pages>>,
           \A u \in Tabs : /\ bridges'[u].phase = bridges[u].phase /\ bridges'[u].call = bridges[u].call
                           /\ bridges'[u].code = bridges[u].code,
           \A i \in Ids : Quiet(i) => Quiet(i)'
    PROVE  ChatInv'
<1>1. ASSUME NEW u \in Tabs PROVE TabInv(u)'
  BY TabKept, FileSame DEF ChatInv, ServerInv
<1>2. OneAuthor'
  BY DEF ChatInv, OneAuthor
<1> QED
  BY <1>1, <1>2 DEF ChatInv

LEMMA HearsKeeps ==
    ASSUME ChatInv, NEW i \in gateway.wire, NEW reply \in {"taken", "failed", "invalid_thread"}, Replied(i, reply),
           gateway' \in GatewayType, gateway'.open = gateway.open, gateway'.asked = gateway.asked,
           gateway'.wire = gateway.wire \ {i},
           gateway'.taken = IF reply = "taken" THEN [gateway.taken EXCEPT ![i] = @ + 1] ELSE gateway.taken,
           events' \in [Tabs -> Seq(GatewayEvent)], \A t \in Tabs : Len(events'[t]) <= MaxEvents,
           UNCHANGED <<conversation, commands, frames, pages>>
    PROVE  ChatInv'
<1>1. ChatShape /\ i \in Ids /\ gateway.taken \in [Ids -> Nat]
  BY DEF ChatInv, ServerInv, ChatShape, GatewayType
<1>2. /\ bridges' \in [Tabs -> Bridge]
      /\ \A u \in Tabs : /\ bridges'[u].phase = bridges[u].phase /\ bridges'[u].call = bridges[u].call
                         /\ bridges'[u].code = bridges[u].code
  BY <1>1, RepliedFacts
<1>3. ChatShape'
  BY <1>1, <1>2 DEF ChatShape
<1>4. ServerInv'
  BY <1>3, ServerHears DEF ChatInv
<1>5. \A j \in Ids : Quiet(j) => Quiet(j)'
  BY <1>1 DEF Quiet
<1> QED
  BY <1>2, <1>4, <1>5, GatewayKeeps

(* An event of the turn.                                                      *)
LEMMA SpeaksKeeps ==
    ASSUME ChatInv, NEW e \in GatewayEvent, Emit(e), gateway' \in GatewayType,
           gateway'.open \subseteq gateway'.asked, PromptsKept,
           UNCHANGED <<conversation, bridges, commands, frames, pages>>
    PROVE  ChatInv'
<1>1. ChatShape
  BY DEF ChatInv, ServerInv
<1>2. events' \in [Tabs -> Seq(GatewayEvent)] /\ \A t \in Tabs : Len(events'[t]) <= MaxEvents
  BY <1>1, EmitType
<1>3. ChatShape'
  BY <1>1, <1>2 DEF ChatShape
<1>4. ServerInv'
  BY <1>3, ServerSame DEF ChatInv
<1> QED
  BY <1>4, PromptsSame, GatewayKeeps

LEMMA GatewayNextKeeps == ASSUME ChatInv, GatewayNext PROVE ChatInv'
<1>1. ChatShape /\ gateway \in GatewayType /\ gateway.open \subseteq gateway.asked
  BY DEF ChatInv, ServerInv, ChatShape
<1>2. ASSUME NEW i \in Ids, TakePrompt(i) PROVE ChatInv'
  <2>1. /\ i \in gateway.wire /\ Replied(i, "taken") /\ Emit(Frame("start"))
        /\ gateway' = [gateway EXCEPT !.wire = @ \ {i}, !.taken[i] = @ + 1, !.turn = "started"]
        /\ UNCHANGED <<conversation, commands, frames, pages>>
    BY <1>2 DEF TakePrompt
  <2>2. PICK w, n : w = gateway.wire \ {i} /\ n = [gateway.taken EXCEPT ![i] = @ + 1]
    OBVIOUS
  <2>3. w \subseteq Ids /\ n \in [Ids -> Nat]
    BY <1>1, <1>2, <2>2 DEF GatewayType
  <2>4. gateway' = [gateway EXCEPT !.wire = w, !.taken = n, !.turn = "started"]
    BY <1>1, <2>1, <2>2 DEF GatewayType
  <2>5. /\ gateway' \in GatewayType /\ gateway'.open = gateway.open /\ gateway'.asked = gateway.asked
        /\ gateway'.wire = w /\ gateway'.taken = n
    BY <1>1, <2>3, <2>4 DEF GatewayType
  <2>6. events' \in [Tabs -> Seq(GatewayEvent)] /\ \A t \in Tabs : Len(events'[t]) <= MaxEvents
    BY <1>1, <2>1, EmitType, Codings
  <2> QED
    BY <2>1, <2>2, <2>5, <2>6, HearsKeeps
<1>3. ASSUME NEW i \in Ids, NEW reply \in {"failed", "invalid_thread"}, RefusePrompt(i, reply) PROVE ChatInv'
  <2>1. /\ i \in gateway.wire /\ Replied(i, reply) /\ gateway' = [gateway EXCEPT !.wire = @ \ {i}]
        /\ UNCHANGED <<conversation, events, commands, frames, pages>>
    BY <1>3 DEF RefusePrompt
  <2>2. /\ gateway' \in GatewayType /\ gateway'.open = gateway.open /\ gateway'.asked = gateway.asked
        /\ gateway'.wire = gateway.wire \ {i} /\ gateway'.taken = gateway.taken
    BY <1>1, <2>1 DEF GatewayType
  <2>3. events' \in [Tabs -> Seq(GatewayEvent)] /\ \A t \in Tabs : Len(events'[t]) <= MaxEvents
    BY <1>1, <2>1 DEF ChatShape
  <2> QED
    BY <2>1, <2>2, <2>3, HearsKeeps
<1>4. CASE Speak
  <2>1. gateway' \in GatewayType /\ gateway'.open \subseteq gateway'.asked /\ PromptsKept
    BY <1>1, <1>4 DEF Speak, GatewayType, PromptsKept
  <2> QED
    BY <1>4, <2>1, Codings, SpeaksKeeps DEF Speak
<1>5. ASSUME NEW outcome \in {"done", "turn_error"}, EndTurn(outcome) PROVE ChatInv'
  <2>1. gateway' \in GatewayType /\ gateway'.open \subseteq gateway'.asked /\ PromptsKept
    BY <1>1, <1>5 DEF EndTurn, GatewayType, PromptsKept
  <2>2. Frame(outcome) \in GatewayEvent
    BY Codings
  <2> QED
    BY <1>5, <2>1, <2>2, SpeaksKeeps DEF EndTurn
<1>6. ASSUME NEW q \in Questions, Ask(q) PROVE ChatInv'
  <2>1. gateway' = [gateway EXCEPT !.open = gateway.open \cup {q}, !.asked = gateway.asked \cup {q}]
    BY <1>6 DEF Ask
  <2>2. gateway' \in GatewayType /\ gateway'.open \subseteq gateway'.asked /\ PromptsKept
    BY <1>1, <2>1 DEF GatewayType, PromptsKept
  <2> QED
    BY <1>6, <2>2, Codings, SpeaksKeeps DEF Ask
<1>7. ASSUME NEW q \in Questions, CancelRequest(q) PROVE ChatInv'
  <2>1. gateway' = [gateway EXCEPT !.open = gateway.open \ {q}]
    BY <1>7 DEF CancelRequest
  <2>2. gateway' \in GatewayType /\ gateway'.open \subseteq gateway'.asked /\ PromptsKept
    BY <1>1, <2>1 DEF GatewayType, PromptsKept
  <2> QED
    BY <1>7, <2>2, Codings, SpeaksKeeps DEF CancelRequest
<1>8. ASSUME NEW t \in Tabs, LoseGateway(t) PROVE ChatInv'
  <2>1. \E q \in Seq(GatewayEvent) : Len(q) <= MaxEvents /\ events' = [events EXCEPT ![t] = q]
    BY <1>1, <1>8, QueuedLost DEF LoseGateway
  <2>2. events' \in [Tabs -> Seq(GatewayEvent)] /\ \A u \in Tabs : Len(events'[u]) <= MaxEvents
    BY <1>1, <2>1, EventSet
  <2>3. UNCHANGED <<conversation, bridges, gateway, commands, frames, pages>>
    BY <1>8 DEF LoseGateway
  <2>4. ChatShape'
    BY <1>1, <2>2, <2>3 DEF ChatShape
  <2>5. ServerInv'
    BY <2>3, <2>4, ServerSame DEF ChatInv, PromptsKept
  <2> QED
    BY <2>3, <2>5, GatewayKeeps, PromptsSame DEF PromptsKept
<1> QED
  BY <1>2, <1>3, <1>4, <1>5, <1>6, <1>7, <1>8 DEF GatewayNext

-----------------------------------------------------------------------------
LEMMA ChatStarts == ChatInit => ChatInv
<1> SUFFICES ASSUME ChatInit PROVE ChatInv
  OBVIOUS
<1> USE DEF ChatInit
<1>1. conversation.receipts = <<>> /\ DOMAIN conversation.receipts = {} /\ conversation.lock = None
  OBVIOUS
<1>2. conversation \in FileType
  <2>1. <<>> \in [{} -> {"sending", "accepted"}]
    OBVIOUS
  <2> QED
    BY <2>1 DEF FileType
<1>3. gateway \in GatewayType /\ gateway.open \subseteq gateway.asked
  BY DEF GatewayType
<1>4. bridges \in [Tabs -> Bridge] /\ \A t \in Tabs : bridges[t].phase = "none"
  BY DEF Bridge, NoBridge
<1>5. pages \in [Tabs -> Page]
      /\ \A t \in Tabs : ~pages[t].socket /\ ~pages[t].ready /\ pages[t].pending = None
                         /\ pages[t].last = None /\ ~pages[t].draft
  BY DEF Page
<1>6. /\ commands \in [Tabs -> Seq(Command)] /\ frames \in [Tabs -> Seq(PageFrame)]
      /\ events \in [Tabs -> Seq(GatewayEvent)] /\ \A t \in Tabs : Len(events[t]) <= MaxEvents
      /\ \A t \in Tabs : DOMAIN commands[t] = {} /\ frames[t] = <<>> /\ DOMAIN frames[t] = {}
  BY ChatAssumption
<1>7. ChatShape
  BY <1>2, <1>3, <1>4, <1>5, <1>6 DEF ChatShape
<1>8. PromptsHold
  <2>1. \A i \in Ids : Quiet(i) /\ gateway.taken[i] = 0
    BY DEF Quiet
  <2>2. gateway.wire = {}
    OBVIOUS
  <2> QED
    BY <1>1, <2>1, <2>2 DEF PromptsHold, OneTurnEach, AcceptedIsTaken
<1>9. OneBridge /\ \A t \in Tabs : CallHolds(t)
  BY <1>4 DEF OneBridge, CallHolds
<1>10. OneAuthor
  BY <1>5 DEF OneAuthor
<1>11. ASSUME NEW t \in Tabs PROVE TabInv(t)
  <2>1. \A i : ~Submits(t, i)
    BY <1>6 DEF Submits
  <2> QED
    BY <1>4, <1>5, <1>6, <2>1 DEF TabInv, PageInStep, BridgeInStep, FramesInStep, Warned
<1> QED
  BY <1>7, <1>8, <1>9, <1>10, <1>11 DEF ChatInv, ServerInv

LEMMA ChatStep == ChatInv /\ [ChatNext /\ Unhurried]_chatVars => ChatInv'
<1> SUFFICES ASSUME ChatInv, [ChatNext /\ Unhurried]_chatVars PROVE ChatInv'
  OBVIOUS
<1>1. CASE UNCHANGED chatVars
  <2>1. ChatShape'
    BY <1>1 DEF ChatInv, ServerInv, ChatShape, chatVars
  <2>2. ServerInv'
    BY <1>1, <2>1, ServerSame DEF ChatInv, PromptsKept, chatVars
  <2> QED
    BY <1>1, <2>2, GatewayKeeps, PromptsSame DEF PromptsKept, chatVars
<1>2. CASE GatewayNext
  BY <1>2, GatewayNextKeeps
<1>3. ASSUME NEW t \in Tabs, PageNext(t), Unhurried PROVE ChatInv'
  BY <1>3, ConnectKeeps, RepeatKeeps, PressStopKeeps, ReceiveFrameKeeps, LoseBrowserKeeps, SubmitKeeps,
     AnswerRequestKeeps DEF PageNext
<1>4. ASSUME NEW t \in Tabs, BridgeNext(t) PROVE ChatInv'
  BY <1>4, AttachKeeps, BridgeSubmitKeeps, CallAcceptedKeeps, CallFailedKeeps, AnswerKeeps, InterruptKeeps,
     DetachKeeps, UpstreamKeeps, TearDownKeeps, CannotAttachKeeps, ServerDiesKeeps DEF BridgeNext, BridgeStep
<1> QED
  BY <1>1, <1>2, <1>3, <1>4 DEF ChatNext

LEMMA ChatInvHolds == ChatInv => TurnsHold
<1> SUFFICES ASSUME ChatInv PROVE TurnsHold
  OBVIOUS
<1>1. ChatTypeOK
  BY ShapeTyped DEF ChatInv, ServerInv
<1>2. OneTurnEach /\ AcceptedIsTaken
  BY DEF ChatInv, ServerInv, PromptsHold
<1>3. UncertaintyShown
  <2> SUFFICES ASSUME NEW t \in Tabs, pages[t].draft, pages[t].last # None, gateway.taken[pages[t].last] > 0,
                      pages[t].pending = None
               PROVE  pages[t].uncertain
    BY DEF UncertaintyShown
  <2>1. Unsent(t) => gateway.taken[pages[t].last] = 0
    BY DEF Unsent, Quiet
  <2> QED
    BY <2>1 DEF ChatInv, TabInv, Warned
<1> QED
  BY <1>1, <1>2, <1>3 DEF TurnsHold

(* As long as no page sends a message while an error for an earlier command   *)
(* may still arrive, a message is taken at most once, an accepted receipt     *)
(* stands for a turn, and a page whose message was taken is waiting for the   *)
(* answer or says that the delivery is uncertain, for any number of tabs,     *)
(* messages, losses and receipts.                                             *)
THEOREM MessagesAreNotMisreported == ChatSpec /\ [][Unhurried]_chatVars => []TurnsHold
<1>1. ChatInv /\ [ChatNext]_chatVars /\ [Unhurried]_chatVars => ChatInv'
  BY ChatStep
<1> QED
  BY ChatStarts, <1>1, ChatInvHolds, PTL DEF ChatSpec

-----------------------------------------------------------------------------
(* What a page shows *)

(* What a sequence of frames or events leaves of something that is on or off: *)
(* the last one that switches it decides.                                     *)
After(s, On, Off, x) ==
    \/ \E k \in DOMAIN s : s[k] \in On /\ \A j \in DOMAIN s : k < j => s[j] \notin Off
    \/ x /\ \A k \in DOMAIN s : s[k] \notin Off

LEMMA AfterNothing == \A On, Off, x : After(<<>>, On, Off, x) <=> x
<1>1. DOMAIN <<>> = {}
  OBVIOUS
<1> QED
  BY <1>1 DEF After

LEMMA AfterLast ==
    ASSUME NEW S, NEW s \in Seq(S), NEW e \in S, NEW On, NEW Off, e \in On => e \notin Off, NEW x
    PROVE  After(s \o <<e>>, On, Off, x) <=> e \in On \/ (e \notin Off /\ After(s, On, Off, x))
<1> DEFINE r == s \o <<e>>
           n == Len(s) + 1
<1>1. /\ n \in DOMAIN r /\ r[n] = e /\ DOMAIN r = 1 .. n /\ DOMAIN s = 1 .. n - 1 /\ n \in Nat
      /\ \A k \in DOMAIN s : k \in DOMAIN r /\ r[k] = s[k] /\ k < n /\ k \in Nat
      /\ \A k \in DOMAIN r : k = n \/ k \in DOMAIN s
  OBVIOUS
<1> HIDE DEF r, n
<1>2. CASE e \in On
  <2>1. r[n] \in On /\ \A j \in DOMAIN r : n < j => r[j] \notin Off
    BY <1>1, <1>2
  <2> QED
    BY <1>1, <1>2, <2>1 DEF After, r
<1>3. CASE e \in Off
  <2>1. \A k \in DOMAIN r : r[k] \in On => k < n
    BY <1>1, <1>3
  <2> QED
    BY <1>1, <1>3, <2>1 DEF After, r
<1>4. CASE e \notin On /\ e \notin Off
  <2>1. (\A k \in DOMAIN r : r[k] \notin Off) <=> \A k \in DOMAIN s : s[k] \notin Off
    BY <1>1, <1>4
  <2>2. ASSUME NEW k \in DOMAIN s
        PROVE (\A j \in DOMAIN r : k < j => r[j] \notin Off) <=> \A j \in DOMAIN s : k < j => s[j] \notin Off
    BY <1>1, <1>4
  <2>3. (\E k \in DOMAIN r : r[k] \in On /\ \A j \in DOMAIN r : k < j => r[j] \notin Off)
          <=> \E k \in DOMAIN s : s[k] \in On /\ \A j \in DOMAIN s : k < j => s[j] \notin Off
    BY <1>1, <1>4, <2>2
  <2> QED
    BY <1>4, <2>1, <2>3 DEF After, r
<1> QED
  BY <1>2, <1>3, <1>4

LEMMA AfterFirst ==
    ASSUME NEW S, NEW s \in Seq(S), s # <<>>, NEW On, NEW Off, s[1] \in On => s[1] \notin Off, NEW x
    PROVE  After(s, On, Off, x) <=> After(Tail(s), On, Off, s[1] \in On \/ (s[1] \notin Off /\ x))
<1> DEFINE r == Tail(s)
           n == Len(s)
           y == s[1] \in On \/ (s[1] \notin Off /\ x)
<1>1. /\ n \in Nat /\ DOMAIN s = 1 .. n /\ DOMAIN r = 1 .. n - 1 /\ 1 \in DOMAIN s
      /\ \A k \in DOMAIN r : k + 1 \in DOMAIN s /\ r[k] = s[k + 1] /\ k \in Nat /\ 1 < k + 1
      /\ \A k \in DOMAIN s : k \in Nat /\ (k = 1 \/ (k - 1 \in DOMAIN r /\ r[k - 1] = s[k]))
  BY TailFacts
<1> HIDE DEF r, n
<1>2. (\A k \in DOMAIN s : s[k] \notin Off) <=> s[1] \notin Off /\ \A k \in DOMAIN r : r[k] \notin Off
  BY <1>1
<1>3. (\A j \in DOMAIN s : 1 < j => s[j] \notin Off) <=> \A k \in DOMAIN r : r[k] \notin Off
  BY <1>1
<1>4. ASSUME NEW k \in DOMAIN r
      PROVE  (\A j \in DOMAIN s : k + 1 < j => s[j] \notin Off) <=> \A j \in DOMAIN r : k < j => r[j] \notin Off
  <2>1. ASSUME \A j \in DOMAIN s : k + 1 < j => s[j] \notin Off, NEW j \in DOMAIN r, k < j
        PROVE  r[j] \notin Off
    BY <1>1, <2>1
  <2>2. ASSUME \A j \in DOMAIN r : k < j => r[j] \notin Off, NEW j \in DOMAIN s, k + 1 < j
        PROVE  s[j] \notin Off
    <3>1. k \in Nat /\ j \in Nat /\ j # 1 /\ j - 1 \in DOMAIN r /\ r[j - 1] = s[j] /\ k < j - 1
      BY <1>1, <2>2
    <3> QED
      BY <2>2, <3>1
  <2> QED
    BY <2>1, <2>2
<1>5. (\E k \in DOMAIN s : s[k] \in On /\ \A j \in DOMAIN s : k < j => s[j] \notin Off)
        <=> \/ s[1] \in On /\ \A k \in DOMAIN r : r[k] \notin Off
            \/ \E k \in DOMAIN r : r[k] \in On /\ \A j \in DOMAIN r : k < j => r[j] \notin Off
  <2>1. ASSUME NEW k \in DOMAIN s, s[k] \in On, \A j \in DOMAIN s : k < j => s[j] \notin Off
        PROVE  \/ s[1] \in On /\ \A i \in DOMAIN r : r[i] \notin Off
               \/ \E i \in DOMAIN r : r[i] \in On /\ \A j \in DOMAIN r : i < j => r[j] \notin Off
    <3>1. CASE k = 1
      BY <1>3, <2>1, <3>1
    <3>2. CASE k # 1
      <4>1. k - 1 \in DOMAIN r /\ r[k - 1] = s[k] /\ (k - 1) + 1 = k
        BY <1>1, <3>2
      <4> QED
        BY <1>4, <2>1, <4>1
    <3> QED
      BY <3>1, <3>2
  <2>2. ASSUME NEW k \in DOMAIN r, r[k] \in On, \A j \in DOMAIN r : k < j => r[j] \notin Off
        PROVE  \E i \in DOMAIN s : s[i] \in On /\ \A j \in DOMAIN s : i < j => s[j] \notin Off
    BY <1>1, <1>4, <2>2
  <2>3. ASSUME s[1] \in On, \A k \in DOMAIN r : r[k] \notin Off
        PROVE  \E i \in DOMAIN s : s[i] \in On /\ \A j \in DOMAIN s : i < j => s[j] \notin Off
    BY <1>1, <1>3, <2>3
  <2> QED
    BY <2>1, <2>2, <2>3
<1>6. s[1] \in On => s[1] \notin Off
  OBVIOUS
<1> QED
  BY <1>2, <1>5, <1>6 DEF After, r

LEMMA AfterMore ==
    ASSUME NEW s, NEW On, NEW More, NEW Off, NEW x, NEW y, x => y
    PROVE  /\ After(s, On, Off, x) => After(s, On, Off, y)
           /\ After(s, On, Off, x) => After(s, On \cup More, Off, x)
BY DEF After

(* The frames and events that move what a page shows.                         *)
Speaks == {e \in GatewayEvent : e.type = "token"}
Ends == {e \in GatewayEvent : e.type \in {"done", "turn_error"}}
AskOf(q) == {e \in GatewayEvent : e.type = "ask" /\ e.about = q}
CancelOf(q) == {e \in GatewayEvent : e.type = "cancel" /\ e.about = q}

RunsFrame == {f \in PageFrame : f.type = "token" \/ (f.type = "snapshot" /\ f.running)}
EndsFrame == {f \in PageFrame : f.type \in {"done", "turn_error"} \/ (f.type = "snapshot" /\ ~f.running)}
AcceptsFrame == {f \in PageFrame : f.type = "accepted"}
Raises(q) == {f \in PageFrame : f.type = "request" /\ f.about = q}
Drops(q) == {f \in PageFrame : \/ f.type = "request_cancel" /\ f.about = q
                               \/ f.type = "snapshot" /\ q \notin f.open}

(* What a page will show once the frames, and then the events, have arrived.  *)
(* Whether an acceptance is of the message that waits is not said: the turn   *)
(* is shown at least as if none were, and at most as if all of them were.     *)
WillShow(t, More) == After(frames[t], RunsFrame \cup More, EndsFrame, pages[t].running)
WillRun(t, More) == After(events[t], Speaks, Ends, WillShow(t, More))
WillAsk(t, q) == After(frames[t], Raises(q), Drops(q), pages[t].cards[q] # "absent")
WillOpen(t, q) == After(events[t], AskOf(q), CancelOf(q), q \in bridges[t].open)

StopCleared(t) ==
    \/ \E k \in DOMAIN frames[t] : frames[t][k].type \in {"snapshot", "done", "error", "turn_error"}
    \/ \E k \in DOMAIN events[t] : events[t][k] \in Ends

CallTaken(t) == bridges[t].phase = "calling" /\ bridges[t].reply = "taken"

CardsFollow(t) == t \in Attached /\ pages[t].socket =>
    \A q \in Questions : WillAsk(t, q) <=> q \in bridges[t].open

TurnFollows(t) == t \in Attached /\ pages[t].socket /\ ~Lost(t) =>
    /\ gateway.turn = "speaking" => WillRun(t, {})
    /\ gateway.turn = "idle" => ~WillRun(t, AcceptsFrame)
    /\ gateway.turn = "idle" /\ pages[t].stopping => StopCleared(t)
    /\ gateway.turn = "idle" /\ CallTaken(t) => ~After(events[t], Speaks, Ends, TRUE)
    /\ \A q \in Questions : WillOpen(t, q) <=> q \in gateway.open

(* A question is asked once, and reaches each bridge once.                    *)
AsksOnce(t) == t \in Attached =>
    /\ bridges[t].open \subseteq gateway.asked
    /\ \A q \in Questions : \A k \in DOMAIN events[t] : events[t][k] \in AskOf(q) =>
          /\ q \in gateway.asked /\ q \notin bridges[t].open
          /\ \A j \in DOMAIN events[t] : events[t][j] \in AskOf(q) => j = k

(* A page that does not repeat itself has one message in its commands, which  *)
(* has no receipt.                                                            *)
SentOnce(t) == \A k \in DOMAIN commands[t] : commands[t][k].type = "submit" =>
    /\ ~Receipt(commands[t][k].about)
    /\ \A j \in DOMAIN commands[t] : commands[t][j].type = "submit" => j = k

Follows(t) == CardsFollow(t) /\ TurnFollows(t) /\ AsksOnce(t) /\ SentOnce(t)

FollowInv == \A t \in Tabs \ Repeaters : Follows(t)

-----------------------------------------------------------------------------
LEMMA FrameKinds ==
    ASSUME NEW f \in PageFrame
    PROVE  /\ f.type = "snapshot" => f.running \in BOOLEAN /\ f.open \subseteq Questions
           /\ f.type = "accepted" => f.about \in Ids
           /\ f.type = "error" => f.about \in Codes
           /\ f.type \in {"request", "request_cancel"} => f.about \in Questions
           /\ f.type \in {"token", "done", "turn_error", "close", "accepted", "request", "request_cancel",
                          "error", "snapshot"}
BY DEF PageFrame

LEMMA EventKinds ==
    ASSUME NEW e \in GatewayEvent
    PROVE  /\ e.type \in {"start", "token", "done", "turn_error", "lost", "ask", "cancel"}
           /\ e.type \in {"ask", "cancel"} => e.about \in Questions
BY DEF GatewayEvent

(* Nothing both switches on and off.                                          *)
LEMMA Apartness ==
    /\ \A e : e \in Speaks => e \notin Ends
    /\ \A f : /\ f \in RunsFrame \cup {} => f \notin EndsFrame
              /\ f \in RunsFrame \cup AcceptsFrame => f \notin EndsFrame
    /\ \A q, f : f \in Raises(q) => f \notin Drops(q)
    /\ \A q, e : e \in AskOf(q) => e \notin CancelOf(q)
BY DEF Speaks, Ends, RunsFrame, EndsFrame, AcceptsFrame, Raises, Drops, AskOf, CancelOf

(* What is on its way to a page that is served.                               *)
LEMMA TabShape ==
    ASSUME ChatShape, NEW t \in Tabs
    PROVE  /\ frames[t] \in Seq(PageFrame) /\ events[t] \in Seq(GatewayEvent) /\ commands[t] \in Seq(Command)
           /\ pages[t] \in Page /\ bridges[t] \in Bridge
           /\ pages[t].running \in BOOLEAN /\ pages[t].stopping \in BOOLEAN /\ pages[t].socket \in BOOLEAN
<1>1. pages[t] \in Page /\ bridges[t] \in Bridge
  BY DEF ChatShape
<1>2. pages[t].running \in BOOLEAN /\ pages[t].stopping \in BOOLEAN /\ pages[t].socket \in BOOLEAN
  BY <1>1 DEF Page
<1> QED
  BY <1>1, <1>2 DEF ChatShape

(* A tab that nothing happens to.                                             *)
SentStays(u) == \A i : Submits(u, i) /\ Receipt(i)' => Receipt(i)

LEMMA SentOnceStays ==
    ASSUME ChatShape, NEW u \in Tabs, SentOnce(u), commands'[u] = commands[u], SentStays(u)
    PROVE  SentOnce(u)'
<1>1. ASSUME NEW k \in DOMAIN commands[u], commands[u][k].type = "submit"
      PROVE  Submits(u, commands[u][k].about)
  <2>1. commands[u][k] \in Command
    BY <1>1, TabShape
  <2>2. commands[u][k] = FrameOf("submit", commands[u][k].about)
    BY <1>1, <2>1 DEF FrameOf, Command
  <2> QED
    BY <2>2 DEF Submits
<1>2. \A i : Receipt(i)' <=> i \in DOMAIN conversation'.receipts
  BY DEF Receipt
<1> QED
  BY <1>1, <1>2 DEF SentOnce, SentStays, Receipt

LEMMA FollowsStays ==
    ASSUME ChatShape, NEW u \in Tabs, Follows(u), pages'[u] = pages[u], frames'[u] = frames[u],
           events'[u] = events[u], commands'[u] = commands[u], bridges'[u] = bridges[u],
           bridges[u].phase = "none"
              \/ (gateway'.turn = gateway.turn /\ gateway'.open = gateway.open /\ gateway'.asked = gateway.asked),
           SentStays(u)
    PROVE  Follows(u)'
<1>1. SentOnce(u)'
  BY SentOnceStays DEF Follows
<1>2. u \in Attached' <=> u \in Attached
  BY DEF Attached
<1>3. CASE bridges[u].phase = "none"
  <2>1. u \notin Attached'
    BY <1>3 DEF Attached
  <2> QED
    BY <1>1, <2>1 DEF Follows, CardsFollow, TurnFollows, AsksOnce
<1>4. CASE gateway'.turn = gateway.turn /\ gateway'.open = gateway.open /\ gateway'.asked = gateway.asked
  <2>1. CardsFollow(u)'
    BY <1>2 DEF Follows, CardsFollow, WillAsk
  <2>2. AsksOnce(u)'
    BY <1>2, <1>4 DEF Follows, AsksOnce
  <2>3. /\ \A More : WillRun(u, More)' <=> WillRun(u, More)
        /\ \A q : WillOpen(u, q)' <=> WillOpen(u, q)
        /\ StopCleared(u)' <=> StopCleared(u)
        /\ CallTaken(u)' <=> CallTaken(u)
        /\ Lost(u)' <=> Lost(u)
    BY DEF WillRun, WillShow, WillOpen, StopCleared, CallTaken, Lost
  <2>4. TurnFollows(u)'
    BY <1>2, <1>4, <2>3 DEF Follows, TurnFollows
  <2> QED
    BY <1>1, <2>1, <2>2, <2>4 DEF Follows
<1> QED
  BY <1>3, <1>4

(* A step of one tab, with its page and its bridge.                           *)
Beside(t) == \A u \in Tabs \ {t} :
    /\ pages'[u] = pages[u] /\ frames'[u] = frames[u] /\ events'[u] = events[u]
    /\ commands'[u] = commands[u] /\ bridges'[u] = bridges[u]

TurnKept == gateway'.turn = gateway.turn /\ gateway'.open = gateway.open /\ gateway'.asked = gateway.asked

LEMMA TabFollows ==
    ASSUME ChatInv, FollowInv, NEW t \in Tabs, Beside(t), TurnKept \/ bridges[t].phase # "none",
           \A i : Receipt(i)' => Receipt(i) \/ Submits(t, i),
           t \notin Repeaters => Follows(t)'
    PROVE  FollowInv'
<1>1. ASSUME NEW u \in Tabs \ Repeaters, u # t PROVE Follows(u)'
  <2>1. ChatShape /\ Follows(u)
    BY <1>1 DEF ChatInv, ServerInv, FollowInv
  <2>2. bridges[u].phase = "none" \/ TurnKept
    BY <1>1, Alone DEF ChatInv
  <2>3. SentStays(u)
    <3>1. ASSUME NEW i, Submits(u, i), Submits(t, i) PROVE FALSE
      <4>1. i \in Ids
        <5>1. PICK k \in DOMAIN commands[u] : commands[u][k] = FrameOf("submit", i)
          BY <3>1 DEF Submits
        <5>2. commands[u][k] \in Command
          BY <2>1, TabShape
        <5>3. FrameOf("submit", i) \in Command /\ FrameOf("submit", i).type = "submit"
              /\ FrameOf("submit", i).about = i
          BY <5>1, <5>2 DEF FrameOf
        <5> QED
          BY <5>3 DEF Command
      <4>2. pages[u].last = i /\ pages[t].last = i
        BY <3>1, <4>1 DEF ChatInv, TabInv, PageInStep
      <4> QED
        BY <1>1, <4>1, <4>2, ChatAssumption DEF ChatInv, OneAuthor
    <3> QED
      BY <3>1 DEF SentStays
  <2> QED
    BY <1>1, <2>1, <2>2, <2>3, FollowsStays DEF Beside, TurnKept
<1> QED
  BY <1>1 DEF FollowInv

LEMMA Unattached ==
    ASSUME NEW t \in Tabs, bridges'[t].phase \notin {"serving", "calling"}
    PROVE  CardsFollow(t)' /\ TurnFollows(t)' /\ AsksOnce(t)'
<1>1. t \notin Attached'
  BY DEF Attached
<1> QED
  BY <1>1 DEF CardsFollow, TurnFollows, AsksOnce

(* A page and a bridge that go on as they were.                               *)
LEMMA GoesOn ==
    ASSUME ChatShape, NEW t \in Tabs, CardsFollow(t), TurnFollows(t), AsksOnce(t), TurnKept,
           t \in Attached' => t \in Attached, pages'[t].socket => pages[t].socket,
           frames'[t] = frames[t], events'[t] = events[t], pages'[t].running = pages[t].running,
           pages'[t].stopping => pages[t].stopping,
           \A q \in Questions : pages'[t].cards[q] = "absent" <=> pages[t].cards[q] = "absent",
           bridges'[t].open = bridges[t].open, CallTaken(t)' => CallTaken(t)
    PROVE  CardsFollow(t)' /\ TurnFollows(t)' /\ AsksOnce(t)'
<1>1. /\ \A More : WillRun(t, More)' <=> WillRun(t, More)
      /\ \A q : WillOpen(t, q)' <=> WillOpen(t, q)
      /\ StopCleared(t)' <=> StopCleared(t)
      /\ Lost(t)' <=> Lost(t)
  BY DEF WillRun, WillShow, WillOpen, StopCleared, Lost
<1>2. \A q \in Questions : WillAsk(t, q)' <=> WillAsk(t, q)
  BY DEF WillAsk, After
<1>3. CardsFollow(t)'
  BY <1>2 DEF CardsFollow
<1>4. TurnFollows(t)'
  BY <1>1 DEF TurnFollows, TurnKept
<1>5. AsksOnce(t)'
  BY DEF AsksOnce, TurnKept
<1> QED
  BY <1>3, <1>4, <1>5

Clearing == {"snapshot", "done", "error", "turn_error"}

(* A frame on its way to the page.                                            *)
LEMMA ToldFacts ==
    ASSUME ChatShape, NEW t \in Tabs, NEW f \in PageFrame, frames'[t] = frames[t] \o <<f>>, pages'[t] = pages[t]
    PROVE  /\ WillShow(t, {})' <=> f \in RunsFrame \/ (f \notin EndsFrame /\ WillShow(t, {}))
           /\ WillShow(t, AcceptsFrame)' <=>
                 f \in RunsFrame \cup AcceptsFrame \/ (f \notin EndsFrame /\ WillShow(t, AcceptsFrame))
           /\ \A q \in Questions : WillAsk(t, q)' <=> f \in Raises(q) \/ (f \notin Drops(q) /\ WillAsk(t, q))
           /\ (\E k \in DOMAIN frames'[t] : frames'[t][k].type \in Clearing) <=>
                 f.type \in Clearing \/ \E k \in DOMAIN frames[t] : frames[t][k].type \in Clearing
<1>1. frames[t] \in Seq(PageFrame) /\ pages[t].running \in BOOLEAN
  BY TabShape
<1>2. /\ WillShow(t, {})' <=> f \in RunsFrame \cup {} \/ (f \notin EndsFrame /\ WillShow(t, {}))
      /\ WillShow(t, AcceptsFrame)' <=>
             f \in RunsFrame \cup AcceptsFrame \/ (f \notin EndsFrame /\ WillShow(t, AcceptsFrame))
  <2> DEFINE R == RunsFrame \cup {}
             A == RunsFrame \cup AcceptsFrame
             x == pages[t].running
  <2>1. (f \in R => f \notin EndsFrame) /\ (f \in A => f \notin EndsFrame)
    BY <1>1, Apartness
  <2> HIDE DEF R, A, x
  <2>2. After(frames[t] \o <<f>>, R, EndsFrame, x) <=> f \in R \/ (f \notin EndsFrame /\ After(frames[t], R, EndsFrame, x))
    BY <1>1, <2>1, AfterLast, Z3T(30)
  <2>3. After(frames[t] \o <<f>>, A, EndsFrame, x) <=> f \in A \/ (f \notin EndsFrame /\ After(frames[t], A, EndsFrame, x))
    BY <1>1, <2>1, AfterLast, Z3T(30)
  <2> QED
    BY <2>2, <2>3 DEF WillShow, R, A, x
<1>3. ASSUME NEW q \in Questions
      PROVE  WillAsk(t, q)' <=> f \in Raises(q) \/ (f \notin Drops(q) /\ WillAsk(t, q))
  <2> DEFINE x == pages[t].cards[q] # "absent"
             R == Raises(q)
             D == Drops(q)
  <2>1. f \in R => f \notin D
    BY Apartness
  <2> HIDE DEF x, R, D
  <2>2. After(frames[t] \o <<f>>, R, D, x) <=> f \in R \/ (f \notin D /\ After(frames[t], R, D, x))
    BY <1>1, <2>1, AfterLast, Z3T(30)
  <2> QED
    BY <2>2 DEF WillAsk, x, R, D
<1>4. (\E k \in DOMAIN frames'[t] : frames'[t][k].type \in Clearing) <=>
          f.type \in Clearing \/ \E k \in DOMAIN frames[t] : frames[t][k].type \in Clearing
  <2> DEFINE F == frames[t]
             G == frames[t] \o <<f>>
  <2>1. /\ \A k \in DOMAIN F : k \in DOMAIN G /\ G[k] = F[k]
        /\ Len(F) + 1 \in DOMAIN G /\ G[Len(F) + 1] = f
        /\ \A k \in DOMAIN G : k \in DOMAIN F \/ k = Len(F) + 1
    BY <1>1
  <2> HIDE DEF F, G
  <2>2. (\E k \in DOMAIN G : G[k].type \in Clearing) <=>
          f.type \in Clearing \/ \E k \in DOMAIN F : F[k].type \in Clearing
    BY <2>1
  <2> QED
    BY <2>2 DEF F, G
<1> QED
  BY <1>2, <1>3, <1>4

(* An answer to a command: an error, an acceptance or the end of a question.  *)
LEMMA TurnTold ==
    ASSUME ChatShape, NEW t \in Tabs, TurnFollows(t), t \in Attached, NEW f \in PageFrame,
           frames'[t] = IF pages[t].socket THEN frames[t] \o <<f>> ELSE frames[t], pages'[t] = pages[t],
           f.type \in {"error", "accepted", "request_cancel"}, gateway'.turn = gateway.turn,
           events'[t] = events[t], f.type = "accepted" => CallTaken(t), CallTaken(t)' => CallTaken(t),
           \A q \in Questions : (WillOpen(t, q) <=> q \in gateway.open) => (WillOpen(t, q)' <=> q \in gateway'.open)
    PROVE  TurnFollows(t)'
<1> SUFFICES ASSUME pages[t].socket, ~Lost(t) PROVE TurnFollows(t)'
  BY DEF TurnFollows, Lost
<1>1. frames'[t] = frames[t] \o <<f>>
  OBVIOUS
<1>2. f \notin RunsFrame /\ f \notin EndsFrame /\ (f \in AcceptsFrame => CallTaken(t))
  BY DEF RunsFrame, EndsFrame, AcceptsFrame
<1>3. (WillShow(t, {})' <=> WillShow(t, {})) /\ (~CallTaken(t) => (WillShow(t, AcceptsFrame)' <=> WillShow(t, AcceptsFrame)))
  BY <1>1, <1>2, ToldFacts
<1>5. WillRun(t, {}) => WillRun(t, {})'
  BY <1>3, AfterMore DEF WillRun
<1>6. CASE CallTaken(t)
  <2>1. gateway.turn = "idle" => ~After(events[t], Speaks, Ends, TRUE)
    BY <1>6 DEF TurnFollows
  <2>2. WillRun(t, AcceptsFrame)' => After(events[t], Speaks, Ends, TRUE)
    BY AfterMore DEF WillRun
  <2>3. gateway.turn = "idle" => ~WillRun(t, AcceptsFrame)'
    BY <2>1, <2>2
  <2> QED
    BY <1>1, <1>5, <2>1, <2>3, ToldFacts DEF TurnFollows, StopCleared, Clearing
<1>7. CASE ~CallTaken(t)
  <2>1. WillRun(t, AcceptsFrame)' => WillRun(t, AcceptsFrame)
    BY <1>3, <1>7, AfterMore DEF WillRun
  <2> QED
    BY <1>1, <1>5, <1>7, <2>1, ToldFacts DEF TurnFollows, StopCleared, Clearing
<1> QED
  BY <1>6, <1>7

(* A step of a page, which may append a command that is no message.           *)
LEMMA AppendsNoMessage ==
    ASSUME ChatShape, NEW t \in Tabs, SentOnce(t), UNCHANGED conversation,
           NEW c \in Command, c.type # "submit", commands'[t] = Append(commands[t], c)
    PROVE  SentOnce(t)'
<1>1. commands[t] \in Seq(Command)
  BY TabShape
<1>2. \A k \in DOMAIN commands'[t] : commands'[t][k].type = "submit" =>
          k \in DOMAIN commands[t] /\ commands'[t][k] = commands[t][k]
  BY <1>1
<1>3. \A k \in DOMAIN commands[t] : k \in DOMAIN commands'[t] /\ commands'[t][k] = commands[t][k]
  BY <1>1
<1> QED
  BY <1>2, <1>3 DEF SentOnce, Receipt

LEMMA PageMoves ==
    ASSUME ChatInv, FollowInv, NEW t \in Tabs, Beside(t), UNCHANGED <<gateway, events, bridges, conversation, frames>>,
           pages'[t].socket => pages[t].socket, pages'[t].running = pages[t].running,
           pages'[t].stopping = pages[t].stopping,
           \A q \in Questions : pages'[t].cards[q] = "absent" <=> pages[t].cards[q] = "absent",
           t \notin Repeaters => SentOnce(t)'
    PROVE  FollowInv'
<1>1. ASSUME t \notin Repeaters PROVE Follows(t)'
  <2>1. ChatShape /\ Follows(t)
    BY <1>1 DEF ChatInv, ServerInv, FollowInv
  <2>2. TurnKept /\ (t \in Attached' => t \in Attached) /\ (CallTaken(t)' => CallTaken(t))
    BY DEF TurnKept, Attached, CallTaken
  <2> QED
    BY <1>1, <2>1, <2>2, GoesOn DEF Follows
<1>2. TurnKept /\ \A i : Receipt(i)' => Receipt(i) \/ Submits(t, i)
  BY DEF TurnKept, Receipt
<1> QED
  BY <1>1, <1>2, TabFollows

LEMMA SubmitFollows ==
    ASSUME ChatInv, FollowInv, NEW t \in Tabs, NEW i \in Ids, Submit(t, i), Unhurried PROVE FollowInv'
<1>1. ChatShape /\ pages[t] \in Page
  BY DEF ChatInv, ServerInv, ChatShape
<1> DEFINE p == [pages[t] EXCEPT !.pending = i, !.last = i, !.draft = TRUE]
<1>2. /\ p \in Page /\ p.socket = pages[t].socket /\ p.running = pages[t].running
      /\ p.stopping = pages[t].stopping /\ p.cards = pages[t].cards /\ p.pending = i
  BY <1>1 DEF Page
<1>3. SetPage(t, p)
  BY DEF Submit
<1> HIDE DEF p
<1>4. pages'[t] = p /\ \A u \in Tabs \ {t} : pages'[u] = pages[u]
  BY <1>1, <1>2, <1>3, PageSet
<1>5. /\ commands' = [commands EXCEPT ![t] = Append(@, FrameOf("submit", i))]
      /\ UNCHANGED <<conversation, bridges, gateway, events, frames, losses>>
      /\ pages[t].pending = None /\ i \notin UsedIds
  BY DEF Submit
<1>6. Beside(t)
  BY <1>4, <1>5 DEF Beside
<1>7. commands[t] = <<>>
  BY <1>2, <1>4, <1>5, ChatAssumption DEF Unhurried
<1>8. commands'[t] = <<FrameOf("submit", i)>>
  BY <1>1, <1>5, <1>7 DEF ChatShape
<1>9. DOMAIN commands'[t] = {1} /\ commands'[t][1].about = i
  BY <1>8 DEF FrameOf
<1>10. ~Receipt(i)'
  BY <1>5 DEF UsedIds, Receipt
<1>11. SentOnce(t)'
  BY <1>9, <1>10 DEF SentOnce, Receipt
<1> QED
  BY <1>2, <1>4, <1>5, <1>6, <1>11, PageMoves

LEMMA RepeatFollows == ASSUME ChatInv, FollowInv, NEW t \in Tabs, Repeat(t) PROVE FollowInv'
<1>1. ChatShape /\ pages[t] \in Page
  BY DEF ChatInv, ServerInv, ChatShape
<1> DEFINE p == [pages[t] EXCEPT !.pending = pages[t].last]
<1>2. /\ p \in Page /\ p.socket = pages[t].socket /\ p.running = pages[t].running
      /\ p.stopping = pages[t].stopping /\ p.cards = pages[t].cards
  BY <1>1 DEF Page
<1>3. SetPage(t, p)
  BY DEF Repeat
<1> HIDE DEF p
<1>4. pages'[t] = p /\ \A u \in Tabs \ {t} : pages'[u] = pages[u]
  BY <1>1, <1>2, <1>3, PageSet
<1>5. Beside(t)
  BY <1>4 DEF Beside, Repeat
<1>6. t \in Repeaters /\ UNCHANGED <<conversation, bridges, gateway, events, frames, losses>>
  BY DEF Repeat
<1> QED
  BY <1>2, <1>4, <1>5, <1>6, PageMoves

LEMMA AnswerRequestFollows ==
    ASSUME ChatInv, FollowInv, NEW t \in Tabs, NEW q \in Questions, AnswerRequest(t, q) PROVE FollowInv'
<1>1. ChatShape /\ pages[t] \in Page
  BY DEF ChatInv, ServerInv, ChatShape
<1> DEFINE p == [pages[t] EXCEPT !.cards[q] = "sent"]
<1>2. /\ p \in Page /\ p.socket = pages[t].socket /\ p.running = pages[t].running
      /\ p.stopping = pages[t].stopping
      /\ p.cards[q] = "sent" /\ \A r \in Questions \ {q} : p.cards[r] = pages[t].cards[r]
  BY <1>1 DEF Page
<1>3. SetPage(t, p) /\ pages[t].cards[q] = "fresh"
  BY DEF AnswerRequest
<1> HIDE DEF p
<1>4. pages'[t] = p /\ \A u \in Tabs \ {t} : pages'[u] = pages[u]
  BY <1>1, <1>2, <1>3, PageSet
<1>5. commands' = [commands EXCEPT ![t] = Append(@, FrameOf("answer", q))]
      /\ UNCHANGED <<conversation, bridges, gateway, events, frames, losses>>
  BY DEF AnswerRequest
<1>6. Beside(t)
  BY <1>4, <1>5 DEF Beside
<1>7. commands'[t] = Append(commands[t], FrameOf("answer", q))
  BY <1>1, <1>5 DEF ChatShape
<1>8. t \notin Repeaters => SentOnce(t)'
  BY <1>1, <1>5, <1>7, AppendsNoMessage, Codings DEF FollowInv, Follows, FrameOf
<1> QED
  BY <1>2, <1>3, <1>4, <1>5, <1>6, <1>8, PageMoves

LEMMA LoseBrowserFollows == ASSUME ChatInv, FollowInv, NEW t \in Tabs, LoseBrowser(t) PROVE FollowInv'
<1>1. ChatShape /\ pages[t] \in Page
  BY DEF ChatInv, ServerInv, ChatShape
<1>2. Disconnected(pages[t]) \in Page /\ ~Disconnected(pages[t]).socket
  BY <1>1, DisconnectedFacts
<1>3. pages'[t] = Disconnected(pages[t]) /\ \A u \in Tabs \ {t} : pages'[u] = pages[u]
  BY <1>1, <1>2, PageSet DEF LoseBrowser
<1>4. commands'[t] = Append(commands[t], Frame("gone"))
  BY <1>1 DEF LoseBrowser, ChatShape
<1>5. UNCHANGED <<conversation, bridges, gateway, events>>
  BY DEF LoseBrowser
<1>6. Beside(t)
  BY <1>3, <1>5 DEF Beside, LoseBrowser
<1>7. ASSUME t \notin Repeaters PROVE Follows(t)'
  <2>1. Follows(t)
    BY <1>7 DEF FollowInv
  <2>2. SentOnce(t)'
    BY <1>1, <1>4, <1>5, <2>1, AppendsNoMessage, Codings DEF Follows, Frame
  <2>3. CardsFollow(t)' /\ TurnFollows(t)'
    BY <1>2, <1>3 DEF CardsFollow, TurnFollows
  <2>4. AsksOnce(t)'
    BY <1>5, <2>1 DEF Follows, AsksOnce, Attached
  <2> QED
    BY <2>2, <2>3, <2>4 DEF Follows
<1>8. TurnKept /\ \A i : Receipt(i)' => Receipt(i) \/ Submits(t, i)
  BY <1>5 DEF TurnKept, Receipt
<1> QED
  BY <1>6, <1>7, <1>8, TabFollows

LEMMA ConnectFollows == ASSUME ChatInv, FollowInv, NEW t \in Tabs, Connect(t) PROVE FollowInv'
<1>1. ChatShape /\ pages[t] \in Page
  BY DEF ChatInv, ServerInv, ChatShape
<1>2. UNCHANGED <<gateway, events, frames>>
  BY DEF Connect
<1>3. CASE /\ conversation.lock = None
           /\ conversation' = [conversation EXCEPT !.lock = t]
           /\ commands' = [commands EXCEPT ![t] = <<>>]
           /\ bridges' = [bridges EXCEPT ![t] = [NoBridge EXCEPT !.phase = "opening"]]
           /\ SetPage(t, [pages[t] EXCEPT !.socket = TRUE, !.in_use = FALSE])
  <2>1. bridges'[t].phase = "opening" /\ \A u \in Tabs \ {t} : bridges'[u] = bridges[u]
    BY <1>1, <1>3 DEF ChatShape, NoBridge
  <2>2. Beside(t)
    BY <1>1, <1>2, <1>3, <2>1 DEF Beside, SetPage, ChatShape
  <2>3. commands'[t] = <<>> /\ DOMAIN commands'[t] = {}
    BY <1>1, <1>3 DEF ChatShape
  <2>4. Follows(t)'
    BY <2>1, <2>3, Unattached DEF Follows, SentOnce
  <2>5. conversation'.receipts = conversation.receipts
    BY <1>1, <1>3, LockStep
  <2>6. TurnKept /\ \A i : Receipt(i)' => Receipt(i) \/ Submits(t, i)
    BY <1>2, <2>5 DEF TurnKept, Receipt
  <2> QED
    BY <2>2, <2>4, <2>6, TabFollows
<1>4. CASE /\ SetPage(t, [Disconnected(pages[t]) EXCEPT !.in_use = TRUE])
           /\ UNCHANGED <<conversation, bridges, commands>>
  <2> DEFINE p == [Disconnected(pages[t]) EXCEPT !.in_use = TRUE]
  <2>1. Disconnected(pages[t]) \in Page /\ ~Disconnected(pages[t]).socket
    BY <1>1, DisconnectedFacts
  <2>2. p \in Page /\ ~p.socket
    BY <2>1 DEF Page
  <2> HIDE DEF p
  <2>3. pages'[t] = p /\ \A u \in Tabs \ {t} : pages'[u] = pages[u]
    BY <1>1, <1>4, <2>2, PageSet DEF p
  <2>4. Beside(t)
    BY <1>2, <1>4, <2>3 DEF Beside
  <2>5. ASSUME t \notin Repeaters PROVE Follows(t)'
    <3>1. Follows(t)
      BY <2>5 DEF FollowInv
    <3>2. CardsFollow(t)' /\ TurnFollows(t)'
      BY <2>2, <2>3 DEF CardsFollow, TurnFollows
    <3>3. AsksOnce(t)' /\ SentOnce(t)'
      BY <1>2, <1>4, <3>1 DEF Follows, AsksOnce, Attached, SentOnce, Receipt
    <3> QED
      BY <3>2, <3>3 DEF Follows
  <2>6. TurnKept /\ \A i : Receipt(i)' => Receipt(i) \/ Submits(t, i)
    BY <1>2, <1>4 DEF TurnKept, Receipt
  <2> QED
    BY <2>4, <2>5, <2>6, TabFollows
<1> QED
  BY <1>3, <1>4 DEF Connect

(* A page that asks to stop a turn was showing one: what ends it on the page  *)
(* also ends the wait.                                                        *)
LEMMA ShownIsCleared ==
    ASSUME ChatShape, NEW t \in Tabs, pages[t].running, ~WillRun(t, AcceptsFrame)
    PROVE  StopCleared(t)
<1>1. CASE \E k \in DOMAIN events[t] : events[t][k] \in Ends
  BY <1>1 DEF StopCleared
<1>2. CASE \A k \in DOMAIN events[t] : events[t][k] \notin Ends
  <2>1. ~WillShow(t, AcceptsFrame)
    BY <1>2 DEF WillRun, After
  <2>2. PICK k \in DOMAIN frames[t] : frames[t][k] \in EndsFrame
    BY <2>1 DEF WillShow, After
  <2>3. frames[t][k].type \in {"done", "turn_error", "snapshot"}
    BY <2>2 DEF EndsFrame
  <2> QED
    BY <2>3 DEF StopCleared
<1> QED
  BY <1>1, <1>2

LEMMA PressStopFollows == ASSUME ChatInv, FollowInv, NEW t \in Tabs, PressStop(t) PROVE FollowInv'
<1>1. ChatShape /\ pages[t] \in Page
  BY DEF ChatInv, ServerInv, ChatShape
<1> DEFINE p == [pages[t] EXCEPT !.stopping = TRUE]
<1>2. /\ p \in Page /\ p.socket = pages[t].socket /\ p.running = pages[t].running /\ p.cards = pages[t].cards
  BY <1>1 DEF Page
<1>3. SetPage(t, p) /\ pages[t].running
  BY DEF PressStop
<1> HIDE DEF p
<1>4. pages'[t] = p /\ \A u \in Tabs \ {t} : pages'[u] = pages[u]
  BY <1>1, <1>2, <1>3, PageSet
<1>5. commands' = [commands EXCEPT ![t] = Append(@, Frame("stop"))]
      /\ UNCHANGED <<conversation, bridges, gateway, events, frames, losses>>
  BY DEF PressStop
<1>6. Beside(t)
  BY <1>4, <1>5 DEF Beside
<1>7. commands'[t] = Append(commands[t], Frame("stop"))
  BY <1>1, <1>5 DEF ChatShape
<1>8. ASSUME t \notin Repeaters PROVE Follows(t)'
  <2>1. Follows(t)
    BY <1>8 DEF FollowInv
  <2>2. SentOnce(t)'
    BY <1>1, <1>5, <1>7, <2>1, AppendsNoMessage, Codings DEF Follows, Frame
  <2>3. /\ \A More : WillRun(t, More)' <=> WillRun(t, More)
        /\ \A q : WillOpen(t, q)' <=> WillOpen(t, q)
        /\ \A q \in Questions : WillAsk(t, q)' <=> WillAsk(t, q)
        /\ StopCleared(t)' <=> StopCleared(t)
        /\ Lost(t)' <=> Lost(t)
        /\ t \in Attached' <=> t \in Attached
        /\ CallTaken(t)' <=> CallTaken(t)
    BY <1>2, <1>4, <1>5 DEF WillRun, WillShow, WillOpen, WillAsk, StopCleared, Lost, Attached, CallTaken
  <2>4. CardsFollow(t)' /\ AsksOnce(t)'
    BY <1>2, <1>4, <1>5, <2>1, <2>3 DEF Follows, CardsFollow, AsksOnce
  <2>5. TurnFollows(t)'
    BY <1>1, <1>2, <1>3, <1>4, <1>5, <2>1, <2>3, ShownIsCleared DEF Follows, TurnFollows
  <2> QED
    BY <2>2, <2>4, <2>5 DEF Follows
<1>9. TurnKept /\ \A i : Receipt(i)' => Receipt(i) \/ Submits(t, i)
  BY <1>5 DEF TurnKept, Receipt
<1> QED
  BY <1>6, <1>8, <1>9, TabFollows

(* An event that reaches a queue.                                             *)
LEMMA QueuedFacts ==
    ASSUME NEW s \in Seq(GatewayEvent), NEW e \in GatewayEvent, NEW r, r = Queued(s, e)
    PROVE  /\ ~Ended(r) => ~Ended(s) /\ r = s \o <<e>> /\ e.type # "lost"
           /\ e.type = "lost" => Ended(r)
           /\ \A q, k : k \in DOMAIN r /\ r[k] \in AskOf(q) =>
                 (k \in DOMAIN s /\ s[k] \in AskOf(q)) \/ (e \in AskOf(q) /\ k = Len(s) + 1)
<1>1. Frame("lost").type = "lost"
  BY DEF Frame
<1>2. Append(s, e) = s \o <<e>>
  BY AppendIsConcat
<1>3. CASE Ended(s)
  BY <1>3 DEF Queued
<1>4. CASE ~Ended(s) /\ Len(s) = MaxEvents
  <2>1. r = <<Frame("lost")>>
    BY <1>4 DEF Queued
  <2>2. Ended(r) /\ DOMAIN r = {1} /\ \A q : r[1] \notin AskOf(q)
    BY <1>1, <2>1 DEF Ended, AskOf
  <2> QED
    BY <1>1, <2>2
<1>5. CASE ~Ended(s) /\ Len(s) # MaxEvents
  <2>1. r = s \o <<e>>
    BY <1>2, <1>5 DEF Queued
  <2>2. /\ Len(r) = Len(s) + 1 /\ r[Len(s) + 1] = e /\ r # <<>>
        /\ \A k \in DOMAIN r : (k \in DOMAIN s /\ r[k] = s[k]) \/ k = Len(s) + 1
    BY <2>1
  <2>3. Ended(r) <=> e.type = "lost"
    BY <2>2 DEF Ended
  <2> QED
    BY <1>5, <2>1, <2>2, <2>3
<1> QED
  BY <1>3, <1>4, <1>5

(* What a queued event does to what will be shown.                            *)
LEMMA HeardFacts ==
    ASSUME ChatShape, NEW t \in Tabs, NEW e \in GatewayEvent, events'[t] = events[t] \o <<e>>,
           frames'[t] = frames[t], pages'[t] = pages[t], bridges'[t].open = bridges[t].open
    PROVE  /\ WillRun(t, {})' <=> e \in Speaks \/ (e \notin Ends /\ WillRun(t, {}))
           /\ WillRun(t, AcceptsFrame)' <=> e \in Speaks \/ (e \notin Ends /\ WillRun(t, AcceptsFrame))
           /\ After(events'[t], Speaks, Ends, TRUE) <=>
                 e \in Speaks \/ (e \notin Ends /\ After(events[t], Speaks, Ends, TRUE))
           /\ \A q \in Questions : WillOpen(t, q)' <=> e \in AskOf(q) \/ (e \notin CancelOf(q) /\ WillOpen(t, q))
           /\ StopCleared(t)' <=> e \in Ends \/ StopCleared(t)
<1>1. events[t] \in Seq(GatewayEvent) /\ (e \in Speaks => e \notin Ends)
      /\ \A q : e \in AskOf(q) => e \notin CancelOf(q)
  BY TabShape, Apartness
<1> DEFINE E == events[t]
           G == events[t] \o <<e>>
<1>2. \A x : After(G, Speaks, Ends, x) <=> e \in Speaks \/ (e \notin Ends /\ After(E, Speaks, Ends, x))
  BY <1>1, AfterLast, Z3T(30)
<1>3. ASSUME NEW q, NEW x
      PROVE  After(G, AskOf(q), CancelOf(q), x) <=>
                 e \in AskOf(q) \/ (e \notin CancelOf(q) /\ After(E, AskOf(q), CancelOf(q), x))
  BY <1>1, AfterLast, Z3T(30)
<1>4. /\ \A k \in DOMAIN E : k \in DOMAIN G /\ G[k] = E[k]
      /\ Len(E) + 1 \in DOMAIN G /\ G[Len(E) + 1] = e
      /\ \A k \in DOMAIN G : k \in DOMAIN E \/ k = Len(E) + 1
  BY <1>1
<1>5. events'[t] = G
  OBVIOUS
<1> HIDE DEF E, G
<1>6. (\E k \in DOMAIN G : G[k] \in Ends) <=> e \in Ends \/ \E k \in DOMAIN E : E[k] \in Ends
  BY <1>4
<1>7. \A More : WillShow(t, More)' <=> WillShow(t, More)
  BY DEF WillShow
<1>8. WillRun(t, {})' <=> e \in Speaks \/ (e \notin Ends /\ WillRun(t, {}))
  BY <1>2, <1>5 DEF WillRun, WillShow, E
<1>9. WillRun(t, AcceptsFrame)' <=> e \in Speaks \/ (e \notin Ends /\ WillRun(t, AcceptsFrame))
  BY <1>2, <1>5 DEF WillRun, WillShow, E
<1>10. ASSUME NEW q \in Questions
       PROVE WillOpen(t, q)' <=> e \in AskOf(q) \/ (e \notin CancelOf(q) /\ WillOpen(t, q))
  BY <1>3, <1>5 DEF WillOpen, E
<1>11. StopCleared(t)' <=> e \in Ends \/ StopCleared(t)
  BY <1>5, <1>6 DEF StopCleared, E
<1> QED
  BY <1>2, <1>5, <1>8, <1>9, <1>10, <1>11 DEF E

(* What an event says of the turn.                                            *)
EventSays(e) ==
    /\ e.type = "token" => gateway'.turn = "speaking"
    /\ e.type \in {"done", "turn_error"} => gateway'.turn = "idle"
    /\ e.type = "start" => gateway'.turn = "started"
    /\ e.type \in {"ask", "cancel"} => gateway'.turn = gateway.turn
    /\ e.type = "ask" => /\ e.about \notin gateway.asked /\ gateway'.open = gateway.open \cup {e.about}
                         /\ gateway'.asked = gateway.asked \cup {e.about}
    /\ e.type # "ask" => gateway'.asked = gateway.asked
    /\ e.type = "cancel" => gateway'.open = gateway.open \ {e.about}
    /\ e.type \notin {"ask", "cancel"} => gateway'.open = gateway.open
    /\ e.type # "lost"

LEMMA EmitFollows ==
    ASSUME ChatInv, FollowInv, NEW e \in GatewayEvent, Emit(e), EventSays(e),
           UNCHANGED <<conversation, commands, frames, pages>>,
           \A u \in Tabs : /\ bridges'[u].phase = bridges[u].phase /\ bridges'[u].open = bridges[u].open
                           /\ CallTaken(u)' => CallTaken(u) \/ gateway'.turn # "idle"
    PROVE  FollowInv'
<1> SUFFICES ASSUME NEW t \in Tabs, Follows(t) PROVE Follows(t)'
  BY DEF FollowInv
<1>1. ChatShape /\ events[t] \in Seq(GatewayEvent)
  BY TabShape DEF ChatInv, ServerInv
<1>2. SentOnce(t)'
  BY DEF Follows, SentOnce, Receipt
<1>3. CASE t \notin Attached
  <2>1. bridges'[t].phase \notin {"serving", "calling"}
    BY <1>3 DEF Attached
  <2> QED
    BY <1>2, <2>1, Unattached DEF Follows
<1>4. CASE t \in Attached
  <2>1. t \in Attached' /\ events'[t] = Queued(events[t], e)
    BY <1>4 DEF Attached, Emit
  <2>2. CardsFollow(t)'
    BY <1>4 DEF Follows, CardsFollow, WillAsk
  <2>3. /\ \A q \in Questions, k \in DOMAIN events'[t] : events'[t][k] \in AskOf(q) =>
              (k \in DOMAIN events[t] /\ events[t][k] \in AskOf(q)) \/ (e \in AskOf(q) /\ k = Len(events[t]) + 1)
        /\ ~Lost(t)' => ~Lost(t) /\ events'[t] = events[t] \o <<e>>
    BY <1>1, <2>1, QueuedFacts DEF Lost
  <2>4. AsksOnce(t)'
    <3>1. bridges[t].open \subseteq gateway.asked /\ gateway.asked \subseteq gateway'.asked
      BY <1>4 DEF Follows, AsksOnce, EventSays
    <3> SUFFICES ASSUME NEW q \in Questions, NEW k \in DOMAIN events'[t], events'[t][k] \in AskOf(q)
                 PROVE  /\ q \in gateway'.asked /\ q \notin bridges'[t].open
                        /\ \A j \in DOMAIN events'[t] : events'[t][j] \in AskOf(q) => j = k
      BY <3>1 DEF AsksOnce
    <3>2. CASE e \in AskOf(q)
      <4>1. e.type = "ask" /\ e.about = q /\ q \notin gateway.asked /\ q \in gateway'.asked
        BY <3>2 DEF AskOf, EventSays
      <4>2. \A j \in DOMAIN events[t] : events[t][j] \notin AskOf(q)
        BY <1>4, <4>1 DEF Follows, AsksOnce
      <4> QED
        BY <2>3, <3>1, <4>1, <4>2
    <3>3. CASE e \notin AskOf(q)
      BY <1>4, <2>3, <3>1, <3>3 DEF Follows, AsksOnce
    <3> QED
      BY <3>2, <3>3
  <2>5. ASSUME pages[t].socket, ~Lost(t)'
        PROVE  /\ gateway'.turn = "speaking" => WillRun(t, {})'
               /\ gateway'.turn = "idle" => ~WillRun(t, AcceptsFrame)'
               /\ gateway'.turn = "idle" /\ pages'[t].stopping => StopCleared(t)'
               /\ gateway'.turn = "idle" /\ CallTaken(t)' => ~After(events'[t], Speaks, Ends, TRUE)
               /\ \A q \in Questions : WillOpen(t, q)' <=> q \in gateway'.open
    <3>1. events'[t] = events[t] \o <<e>> /\ ~Lost(t)
      BY <2>3, <2>5
    <3>2. /\ gateway.turn = "speaking" => WillRun(t, {})
          /\ gateway.turn = "idle" => ~WillRun(t, AcceptsFrame)
          /\ gateway.turn = "idle" /\ pages[t].stopping => StopCleared(t)
          /\ gateway.turn = "idle" /\ CallTaken(t) => ~After(events[t], Speaks, Ends, TRUE)
          /\ \A q \in Questions : WillOpen(t, q) <=> q \in gateway.open
      BY <1>4, <2>5, <3>1 DEF Follows, TurnFollows
    <3>3. /\ WillRun(t, {})' <=> e \in Speaks \/ (e \notin Ends /\ WillRun(t, {}))
          /\ WillRun(t, AcceptsFrame)' <=> e \in Speaks \/ (e \notin Ends /\ WillRun(t, AcceptsFrame))
          /\ After(events'[t], Speaks, Ends, TRUE) <=>
                 e \in Speaks \/ (e \notin Ends /\ After(events[t], Speaks, Ends, TRUE))
          /\ \A q \in Questions : WillOpen(t, q)' <=> e \in AskOf(q) \/ (e \notin CancelOf(q) /\ WillOpen(t, q))
          /\ StopCleared(t)' <=> e \in Ends \/ StopCleared(t)
      BY <1>1, <3>1, HeardFacts
    <3>4. \A q \in Questions : WillOpen(t, q)' <=> q \in gateway'.open
      BY <3>2, <3>3, EventKinds DEF EventSays, AskOf, CancelOf
    <3>5. CASE e.type = "token"
      <4>1. e \in Speaks /\ gateway'.turn = "speaking"
        BY <3>5 DEF Speaks, EventSays
      <4> QED
        BY <3>3, <3>4, <4>1
    <3>6. CASE e.type \in {"done", "turn_error"}
      <4>1. e \in Ends /\ e \notin Speaks /\ gateway'.turn = "idle"
        BY <3>6 DEF Speaks, Ends, EventSays
      <4> QED
        BY <3>3, <3>4, <4>1
    <3>7. CASE e.type = "start"
      <4>1. gateway'.turn = "started"
        BY <3>7 DEF EventSays
      <4> QED
        BY <3>4, <4>1
    <3>8. CASE e.type \in {"ask", "cancel"}
      <4>1. e \notin Speaks /\ e \notin Ends /\ gateway'.turn = gateway.turn
        BY <3>8 DEF Speaks, Ends, EventSays
      <4>2. gateway.turn = "idle" /\ CallTaken(t)' => CallTaken(t)
        BY <4>1
      <4> QED
        BY <3>2, <3>3, <3>4, <4>1, <4>2
    <3> QED
      BY <3>5, <3>6, <3>7, <3>8, EventKinds DEF EventSays
  <2>6. TurnFollows(t)'
    BY <2>5 DEF TurnFollows
  <2> QED
    BY <1>2, <2>2, <2>4, <2>6 DEF Follows
<1> QED
  BY <1>3, <1>4

LEMMA RepliedBridges ==
    ASSUME ChatShape, NEW i, NEW reply \in {"taken", "failed", "invalid_thread"}, Replied(i, reply)
    PROVE  \A u \in Tabs : /\ bridges'[u].phase = bridges[u].phase /\ bridges'[u].open = bridges[u].open
                           /\ CallTaken(u)' => CallTaken(u) \/ reply = "taken"
<1> SUFFICES ASSUME NEW u \in Tabs
             PROVE  /\ bridges'[u].phase = bridges[u].phase /\ bridges'[u].open = bridges[u].open
                    /\ CallTaken(u)' => CallTaken(u) \/ reply = "taken"
  OBVIOUS
<1>1. bridges[u] \in Bridge
  BY DEF ChatShape
<1>2. bridges'[u] = bridges[u] \/ bridges'[u] = [bridges[u] EXCEPT !.reply = reply]
  BY DEF Replied
<1>3. CASE bridges'[u] = bridges[u]
  BY <1>3 DEF CallTaken
<1>4. CASE bridges'[u] = [bridges[u] EXCEPT !.reply = reply]
  <2>1. bridges'[u].phase = bridges[u].phase /\ bridges'[u].open = bridges[u].open /\ bridges'[u].reply = reply
    BY <1>1, <1>4 DEF Bridge
  <2> QED
    BY <2>1 DEF CallTaken
<1> QED
  BY <1>2, <1>3, <1>4

(* The connection of a bridge to the gateway breaks.                          *)
LEMMA BreaksOff ==
    ASSUME ChatShape, NEW t \in Tabs, TurnFollows(t), AsksOnce(t), t \in Attached,
           events'[t] = Queued(events[t], Frame("lost")), gateway'.asked = gateway.asked,
           bridges'[t].open \subseteq bridges[t].open
    PROVE  TurnFollows(t)' /\ AsksOnce(t)'
<1>1. events[t] \in Seq(GatewayEvent) /\ Frame("lost") \in GatewayEvent /\ Frame("lost").type = "lost"
      /\ \A q : Frame("lost") \notin AskOf(q)
  BY TabShape, Codings DEF Frame, AskOf
<1>2. /\ Lost(t)'
      /\ \A q, k : k \in DOMAIN events'[t] /\ events'[t][k] \in AskOf(q) =>
              k \in DOMAIN events[t] /\ events[t][k] \in AskOf(q)
  BY <1>1, QueuedFacts DEF Lost
<1>3. TurnFollows(t)'
  BY <1>2 DEF TurnFollows
<1>4. AsksOnce(t)'
  BY <1>2 DEF AsksOnce
<1> QED
  BY <1>3, <1>4

LEMMA GatewayNextFollows == ASSUME ChatInv, FollowInv, GatewayNext PROVE FollowInv'
<1>1. ChatShape /\ gateway \in GatewayType
  BY DEF ChatInv, ServerInv, ChatShape
<1>2. ASSUME NEW i \in Ids, TakePrompt(i) PROVE FollowInv'
  <2>1. /\ Replied(i, "taken") /\ Emit(Frame("start"))
        /\ gateway' = [gateway EXCEPT !.wire = @ \ {i}, !.taken[i] = @ + 1, !.turn = "started"]
        /\ UNCHANGED <<conversation, commands, frames, pages>>
    BY <1>2 DEF TakePrompt
  <2>2. gateway'.turn = "started" /\ gateway'.open = gateway.open /\ gateway'.asked = gateway.asked
    BY <1>1, <2>1 DEF GatewayType
  <2>3. EventSays(Frame("start")) /\ Frame("start") \in GatewayEvent
    BY <2>2, Codings DEF EventSays, Frame
  <2>4. \A u \in Tabs : /\ bridges'[u].phase = bridges[u].phase /\ bridges'[u].open = bridges[u].open
                        /\ CallTaken(u)' => CallTaken(u) \/ gateway'.turn # "idle"
    BY <1>1, <2>1, <2>2, RepliedBridges
  <2> QED
    BY <2>1, <2>3, <2>4, EmitFollows
<1>3. ASSUME NEW i \in Ids, NEW reply \in {"failed", "invalid_thread"}, RefusePrompt(i, reply) PROVE FollowInv'
  <2>1. /\ Replied(i, reply) /\ gateway' = [gateway EXCEPT !.wire = @ \ {i}]
        /\ UNCHANGED <<conversation, events, commands, frames, pages>>
    BY <1>3 DEF RefusePrompt
  <2>2. TurnKept
    BY <1>1, <2>1 DEF GatewayType, TurnKept
  <2>3. \A u \in Tabs : /\ bridges'[u].phase = bridges[u].phase /\ bridges'[u].open = bridges[u].open
                        /\ CallTaken(u)' => CallTaken(u)
    BY <1>1, <2>1, RepliedBridges
  <2> SUFFICES ASSUME NEW t \in Tabs, Follows(t) PROVE Follows(t)'
    BY DEF FollowInv
  <2>4. SentOnce(t)'
    BY <2>1 DEF Follows, SentOnce, Receipt
  <2>5. CardsFollow(t) /\ TurnFollows(t) /\ AsksOnce(t)
    BY DEF Follows
  <2>6. t \in Attached' => t \in Attached
    BY <2>3 DEF Attached
  <2>7. CardsFollow(t)' /\ TurnFollows(t)' /\ AsksOnce(t)'
    BY <1>1, <2>1, <2>2, <2>3, <2>5, <2>6, GoesOn
  <2> QED
    BY <2>4, <2>7 DEF Follows
<1>4. CASE Speak
  <2>1. gateway'.turn = "speaking" /\ gateway'.open = gateway.open /\ gateway'.asked = gateway.asked
    BY <1>1, <1>4 DEF Speak, GatewayType
  <2>2. EventSays(Frame("token")) /\ Frame("token") \in GatewayEvent
    BY <2>1, Codings DEF EventSays, Frame
  <2> QED
    BY <1>4, <2>2, EmitFollows DEF Speak, CallTaken
<1>5. ASSUME NEW outcome \in {"done", "turn_error"}, EndTurn(outcome) PROVE FollowInv'
  <2>1. gateway'.turn = "idle" /\ gateway'.open = gateway.open /\ gateway'.asked = gateway.asked
    BY <1>1, <1>5 DEF EndTurn, GatewayType
  <2>2. EventSays(Frame(outcome)) /\ Frame(outcome) \in GatewayEvent
    BY <2>1, Codings DEF EventSays, Frame
  <2> QED
    BY <1>5, <2>2, EmitFollows DEF EndTurn, CallTaken
<1>6. ASSUME NEW q \in Questions, Ask(q) PROVE FollowInv'
  <2>1. gateway' = [gateway EXCEPT !.open = gateway.open \cup {q}, !.asked = gateway.asked \cup {q}]
        /\ q \notin gateway.asked
    BY <1>6 DEF Ask
  <2>2. gateway'.turn = gateway.turn /\ gateway'.open = gateway.open \cup {q} /\ gateway'.asked = gateway.asked \cup {q}
    BY <1>1, <2>1 DEF GatewayType
  <2>3. EventSays(FrameOf("ask", q)) /\ FrameOf("ask", q) \in GatewayEvent
    BY <2>1, <2>2, Codings DEF EventSays, FrameOf
  <2> QED
    BY <1>6, <2>3, EmitFollows DEF Ask, CallTaken
<1>7. ASSUME NEW q \in Questions, CancelRequest(q) PROVE FollowInv'
  <2>1. gateway' = [gateway EXCEPT !.open = gateway.open \ {q}]
    BY <1>7 DEF CancelRequest
  <2>2. gateway'.turn = gateway.turn /\ gateway'.open = gateway.open \ {q} /\ gateway'.asked = gateway.asked
    BY <1>1, <2>1 DEF GatewayType
  <2>3. EventSays(FrameOf("cancel", q)) /\ FrameOf("cancel", q) \in GatewayEvent
    BY <2>2, Codings DEF EventSays, FrameOf
  <2> QED
    BY <1>7, <2>3, EmitFollows DEF CancelRequest, CallTaken
<1>8. ASSUME NEW t \in Tabs, LoseGateway(t) PROVE FollowInv'
  <2>1. /\ UNCHANGED <<conversation, bridges, gateway, commands, frames, pages>> /\ t \in Attached
        /\ events' = [events EXCEPT ![t] = Queued(@, Frame("lost"))]
    BY <1>8 DEF LoseGateway
  <2>2. events'[t] = Queued(events[t], Frame("lost")) /\ \A u \in Tabs \ {t} : events'[u] = events[u]
    BY <1>1, <2>1 DEF ChatShape
  <2>3. Beside(t)
    BY <2>1, <2>2 DEF Beside
  <2>4. ASSUME t \notin Repeaters PROVE Follows(t)'
    <3>1. Follows(t)
      BY <2>4 DEF FollowInv
    <3>2. TurnFollows(t)' /\ AsksOnce(t)'
      BY <1>1, <2>1, <2>2, <3>1, BreaksOff DEF Follows
    <3>3. SentOnce(t)' /\ CardsFollow(t)'
      BY <2>1, <3>1 DEF Follows, SentOnce, CardsFollow, WillAsk, Attached, Receipt
    <3> QED
      BY <3>2, <3>3 DEF Follows
  <2>5. TurnKept /\ \A i : Receipt(i)' => Receipt(i) \/ Submits(t, i)
    BY <2>1 DEF TurnKept, Receipt
  <2> QED
    BY <2>3, <2>4, <2>5, TabFollows
<1> QED
  BY <1>2, <1>3, <1>4, <1>5, <1>6, <1>7, <1>8 DEF GatewayNext

(* The commands that a bridge takes, or forgets.                              *)
ReceiptsKept == \A i : Receipt(i)' => Receipt(i)

LEMMA TakesCommand ==
    ASSUME ChatShape, NEW t \in Tabs, SentOnce(t), commands[t] # <<>>, CommandTaken(t),
           \A i : Receipt(i)' => Receipt(i) \/ (NextCommand(t).type = "submit" /\ i = NextCommand(t).about)
    PROVE  SentOnce(t)'
<1>1. commands[t] \in Seq(Command) /\ commands'[t] = Tail(commands[t])
  BY DEF ChatShape, CommandTaken
<1> DEFINE C == commands[t]
           D == Tail(commands[t])
<1>2. /\ Head(C) = C[1] /\ 1 \in DOMAIN C
      /\ \A k \in DOMAIN D : k + 1 \in DOMAIN C /\ D[k] = C[k + 1] /\ k \in Nat /\ k + 1 # 1
  BY <1>1, TailFacts
<1>3. NextCommand(t) = C[1]
  BY <1>2 DEF NextCommand
<1> SUFFICES ASSUME NEW k \in DOMAIN D, D[k].type = "submit"
             PROVE  /\ D[k].about \notin DOMAIN conversation'.receipts
                    /\ \A j \in DOMAIN D : D[j].type = "submit" => j = k
  BY <1>1 DEF SentOnce, Receipt
<1>7. \A i : i \in DOMAIN conversation'.receipts =>
          Receipt(i) \/ (NextCommand(t).type = "submit" /\ i = NextCommand(t).about)
  BY DEF Receipt
<1> HIDE DEF C, D
<1>4. \A j \in DOMAIN C : C[j].type = "submit" => ~Receipt(C[j].about) /\ \A i \in DOMAIN C : C[i].type = "submit" => i = j
  BY DEF SentOnce, C
<1>5. C[1].type # "submit" /\ ~Receipt(D[k].about)
  BY <1>2, <1>4
<1>6. ASSUME NEW j \in DOMAIN D, D[j].type = "submit" PROVE j = k
  <2>1. j + 1 = k + 1
    BY <1>2, <1>4, <1>6
  <2> QED
    BY <1>2, <2>1
<1> QED
  BY <1>3, <1>5, <1>6, <1>7

LEMMA ServesFacts ==
    ASSUME ChatShape, NEW t \in Tabs, NEW type, Serves(t, type)
    PROVE  /\ t \in Attached /\ ~CallTaken(t) /\ commands[t] # <<>> /\ NextCommand(t).type = type
           /\ 1 \in DOMAIN commands[t] /\ NextCommand(t) = commands[t][1] /\ NextCommand(t) \in Command
BY TabShape, TailFacts DEF Serves, Attached, CallTaken, NextCommand

(* A bridge that ends.                                                        *)
LEMMA EndsFollow ==
    ASSUME ChatInv, FollowInv, NEW t \in Tabs, Beside(t), bridges[t].phase # "none",
           bridges'[t].phase \notin {"serving", "calling"}, ReceiptsKept,
           t \notin Repeaters => SentOnce(t)'
    PROVE  FollowInv'
<1>1. t \notin Repeaters => Follows(t)'
  BY Unattached DEF Follows
<1> QED
  BY <1>1, TabFollows DEF ReceiptsKept

LEMMA SentKept ==
    ASSUME NEW t \in Tabs, SentOnce(t), ReceiptsKept, commands'[t] = commands[t] \/ commands'[t] = <<>>
    PROVE  SentOnce(t)'
<1>1. CASE commands'[t] = commands[t]
  BY <1>1 DEF SentOnce, ReceiptsKept, Receipt
<1>2. CASE commands'[t] = <<>>
  <2>1. DOMAIN commands'[t] = {}
    BY <1>2
  <2> QED
    BY <2>1 DEF SentOnce
<1> QED
  BY <1>1, <1>2

LEMMA CardsTold ==
    ASSUME ChatShape, NEW t \in Tabs, CardsFollow(t), t \in Attached, NEW f \in PageFrame,
           frames'[t] = IF pages[t].socket THEN frames[t] \o <<f>> ELSE frames[t], pages'[t] = pages[t],
           \A q \in Questions : q \in bridges'[t].open <=> f \in Raises(q) \/ (f \notin Drops(q) /\ q \in bridges[t].open)
    PROVE  CardsFollow(t)'
BY ToldFacts DEF CardsFollow

LEMMA AsksKept ==
    ASSUME NEW t \in Tabs, AsksOnce(t), t \in Attached, events'[t] = events[t], gateway'.asked = gateway.asked,
           bridges'[t].open \subseteq bridges[t].open
    PROVE  AsksOnce(t)'
BY DEF AsksOnce

(* A bridge that answers with an error, or with an acceptance.                *)
LEMMA TellsFollow ==
    ASSUME ChatInv, FollowInv, NEW t \in Tabs, Beside(t), t \in Attached, TurnKept,
           pages'[t] = pages[t], events'[t] = events[t], NEW f \in PageFrame, f.type \in {"error", "accepted"},
           frames'[t] = IF pages[t].socket THEN frames[t] \o <<f>> ELSE frames[t],
           f.type = "accepted" /\ t \notin Repeaters => CallTaken(t),
           bridges'[t].open = bridges[t].open, CallTaken(t)' => CallTaken(t), ReceiptsKept,
           t \notin Repeaters => SentOnce(t)'
    PROVE  FollowInv'
<1>1. ASSUME t \notin Repeaters PROVE Follows(t)'
  <2>1. ChatShape /\ Follows(t)
    BY <1>1 DEF ChatInv, ServerInv, FollowInv
  <2>2. \A q \in Questions : f \notin Raises(q) /\ f \notin Drops(q)
    BY DEF Raises, Drops
  <2>3. CardsFollow(t)'
    BY <2>1, <2>2, CardsTold DEF Follows
  <2>4. \A q \in Questions : (WillOpen(t, q) <=> q \in gateway.open) => (WillOpen(t, q)' <=> q \in gateway'.open)
    BY DEF WillOpen, TurnKept
  <2>5. TurnFollows(t)'
    BY <1>1, <2>1, <2>4, TurnTold DEF Follows, TurnKept
  <2>6. AsksOnce(t)'
    BY <2>1, AsksKept DEF Follows, TurnKept
  <2> QED
    BY <1>1, <2>3, <2>5, <2>6 DEF Follows
<1> QED
  BY <1>1, TabFollows DEF ReceiptsKept

LEMMA ReceiptsSame == conversation'.receipts = conversation.receipts => ReceiptsKept
BY DEF ReceiptsKept, Receipt

LEMMA CannotAttachFollows == ASSUME ChatInv, FollowInv, NEW t \in Tabs, CannotAttach(t) PROVE FollowInv'
<1>1. ChatShape
  BY DEF ChatInv, ServerInv
<1>2. bridges'[t].phase = "closing" /\ \A u \in Tabs \ {t} : bridges'[u] = bridges[u]
  BY <1>1, BridgeEnds DEF CannotAttach, Codes
<1>3. UNCHANGED <<conversation, gateway, events, commands, frames, pages>> /\ bridges[t].phase = "opening"
  BY DEF CannotAttach
<1>4. Beside(t) /\ ReceiptsKept
  BY <1>2, <1>3, ReceiptsSame DEF Beside
<1>5. t \notin Repeaters => SentOnce(t)'
  BY <1>3, <1>4, SentKept DEF FollowInv, Follows
<1> QED
  BY <1>2, <1>3, <1>4, <1>5, EndsFollow

LEMMA DetachFollows == ASSUME ChatInv, FollowInv, NEW t \in Tabs, Detach(t) PROVE FollowInv'
<1>1. ChatShape
  BY DEF ChatInv, ServerInv
<1>2. bridges'[t].phase = "closing" /\ \A u \in Tabs \ {t} : bridges'[u] = bridges[u]
  BY <1>1, BridgeEnds DEF Detach
<1>3. UNCHANGED <<conversation, gateway, events, commands, frames, pages>> /\ bridges[t].phase = "serving"
  BY DEF Detach
<1>4. Beside(t) /\ ReceiptsKept
  BY <1>2, <1>3, ReceiptsSame DEF Beside
<1>5. t \notin Repeaters => SentOnce(t)'
  BY <1>3, <1>4, SentKept DEF FollowInv, Follows
<1> QED
  BY <1>2, <1>3, <1>4, <1>5, EndsFollow

LEMMA EndedFollows ==
    ASSUME ChatInv, FollowInv, NEW t \in Tabs, bridges[t].phase # "none", SetBridge(t, NoBridge),
           conversation' = [conversation EXCEPT !.lock = None], UNCHANGED gateway,
           events' = [events EXCEPT ![t] = <<>>], commands' = [commands EXCEPT ![t] = <<>>],
           \A u \in Tabs \ {t} : pages'[u] = pages[u] /\ frames'[u] = frames[u]
    PROVE  FollowInv'
<1>1. ChatShape
  BY DEF ChatInv, ServerInv
<1>2. /\ bridges'[t].phase = "none" /\ \A u \in Tabs \ {t} : bridges'[u] = bridges[u]
      /\ conversation'.receipts = conversation.receipts
  BY EndSteps
<1>3. commands'[t] = <<>> /\ \A u \in Tabs \ {t} : commands'[u] = commands[u] /\ events'[u] = events[u]
  BY <1>1 DEF ChatShape
<1>4. Beside(t) /\ ReceiptsKept
  BY <1>2, <1>3, ReceiptsSame DEF Beside
<1>5. t \notin Repeaters => SentOnce(t)'
  BY <1>3, <1>4, SentKept DEF FollowInv, Follows
<1> QED
  BY <1>2, <1>4, <1>5, EndsFollow

LEMMA TearDownFollows == ASSUME ChatInv, FollowInv, NEW t \in Tabs, TearDown(t) PROVE FollowInv'
<1>1. ChatShape
  BY DEF ChatInv, ServerInv
<1>2. \A u \in Tabs \ {t} : pages'[u] = pages[u] /\ frames'[u] = frames[u]
  BY <1>1 DEF TearDown, ToPage, ChatShape
<1> QED
  BY <1>2, EndedFollows DEF TearDown

LEMMA ServerDiesFollows == ASSUME ChatInv, FollowInv, NEW t \in Tabs, ServerDies(t) PROVE FollowInv'
<1>1. ChatShape
  BY DEF ChatInv, ServerInv
<1>2. \A u \in Tabs \ {t} : pages'[u] = pages[u] /\ frames'[u] = frames[u]
  BY <1>1 DEF ServerDies, SetPage, ChatShape
<1> QED
  BY <1>2, EndedFollows DEF ServerDies

(* What the bridge's record keeps when a call is over.                        *)
LEMMA ReleasedKeeps ==
    ASSUME ChatShape, NEW t \in Tabs, SetBridge(t, Released(t))
    PROVE  /\ bridges'[t].open = bridges[t].open /\ ~CallTaken(t)'
           /\ \A u \in Tabs \ {t} : bridges'[u] = bridges[u]
<1>1. Released(t) \in Bridge /\ Released(t).phase = "serving" /\ Released(t).open = bridges[t].open
  BY DEF ChatShape, Bridge, Released
<1>2. bridges'[t] = Released(t) /\ \A u \in Tabs \ {t} : bridges'[u] = bridges[u]
  BY <1>1, BridgeSet
<1> QED
  BY <1>1, <1>2 DEF CallTaken

LEMMA OneFrame ==
    ASSUME ChatShape, NEW t \in Tabs, NEW f \in PageFrame, ToPage(t, <<f>>)
    PROVE  /\ frames'[t] = IF pages[t].socket THEN frames[t] \o <<f>> ELSE frames[t]
           /\ \A u \in Tabs \ {t} : frames'[u] = frames[u]
<1>1. <<f>> \in Seq(PageFrame)
  OBVIOUS
<1> QED
  BY <1>1, FramesSent

LEMMA CallAcceptedFollows == ASSUME ChatInv, FollowInv, NEW t \in Tabs, CallAccepted(t) PROVE FollowInv'
<1>1. ChatShape
  BY DEF ChatInv, ServerInv
<1>2. PICK i : i = bridges[t].call
  OBVIOUS
<1>3. /\ bridges[t].phase = "calling" /\ bridges[t].reply = "taken"
      /\ conversation' = WithReceipt(i, "accepted") /\ SetBridge(t, Released(t))
      /\ ToPage(t, <<FrameOf("accepted", i)>>)
      /\ UNCHANGED <<gateway, events, commands, pages>>
  BY <1>2 DEF CallAccepted
<1>4. i \in Ids /\ Receipt(i)
  BY <1>2, <1>3 DEF ChatInv, ServerInv, CallHolds
<1>5. ReceiptsKept
  BY <1>1, <1>3, <1>4, ReceiptStep DEF ReceiptsKept
<1>6. PICK f \in PageFrame : f = FrameOf("accepted", i)
  BY <1>4, Codings
<1>7. f.type = "accepted" /\ ToPage(t, <<f>>)
  BY <1>3, <1>6 DEF FrameOf
<1>8. /\ frames'[t] = IF pages[t].socket THEN frames[t] \o <<f>> ELSE frames[t]
      /\ \A u \in Tabs \ {t} : frames'[u] = frames[u]
  BY <1>1, <1>7, OneFrame
<1>9. Beside(t) /\ bridges'[t].open = bridges[t].open /\ ~CallTaken(t)'
  BY <1>1, <1>3, <1>8, ReleasedKeeps DEF Beside
<1>10. t \in Attached /\ CallTaken(t) /\ TurnKept
  BY <1>3 DEF Attached, CallTaken, TurnKept
<1>11. t \notin Repeaters => SentOnce(t)'
  BY <1>3, <1>5, SentKept DEF FollowInv, Follows
<1>12. pages'[t] = pages[t] /\ events'[t] = events[t]
  BY <1>3
<1> QED
  BY <1>5, <1>7, <1>8, <1>9, <1>10, <1>11, <1>12, TellsFollow

LEMMA CallFailedFollows == ASSUME ChatInv, FollowInv, NEW t \in Tabs, CallFailed(t) PROVE FollowInv'
<1>1. ChatShape
  BY DEF ChatInv, ServerInv
<1>2. bridges[t].phase = "calling" /\ UNCHANGED <<conversation, gateway, events, commands, pages>>
  BY DEF CallFailed
<1>3. ReceiptsKept /\ TurnKept /\ t \in Attached
  BY <1>2, ReceiptsSame DEF TurnKept, Attached
<1>4. t \notin Repeaters => SentOnce(t)'
  BY <1>2, <1>3, SentKept DEF FollowInv, Follows
<1>5. "gateway_request_failed" \in Codes /\ "gateway_disconnected" \in Codes /\ "invalid_thread" \in Codes
  BY DEF Codes
<1>6. ASSUME Fail(t, "gateway_request_failed"), ToPage(t, <<Error("gateway_request_failed")>>)
      PROVE  FollowInv'
  <2>1. bridges'[t].phase = "closing" /\ \A u \in Tabs \ {t} : bridges'[u] = bridges[u]
    BY <1>1, <1>5, <1>6, BridgeEnds
  <2>2. Error("gateway_request_failed") \in PageFrame
    BY <1>5, ErrorFacts
  <2>3. \A u \in Tabs \ {t} : frames'[u] = frames[u]
    BY <1>1, <1>6, <2>2, OneFrame
  <2>4. Beside(t)
    BY <1>2, <2>1, <2>3 DEF Beside
  <2> QED
    BY <1>2, <1>3, <1>4, <2>1, <2>4, EndsFollow
<1>7. ASSUME SetBridge(t, Released(t)), NEW f \in PageFrame, f.type = "error", ToPage(t, <<f>>)
      PROVE  FollowInv'
  <2>1. /\ frames'[t] = IF pages[t].socket THEN frames[t] \o <<f>> ELSE frames[t]
        /\ \A u \in Tabs \ {t} : frames'[u] = frames[u]
    BY <1>1, <1>7, OneFrame
  <2>2. Beside(t) /\ bridges'[t].open = bridges[t].open /\ ~CallTaken(t)'
    BY <1>1, <1>2, <1>7, <2>1, ReleasedKeeps DEF Beside
  <2>3. pages'[t] = pages[t] /\ events'[t] = events[t]
    BY <1>2
  <2> QED
    BY <1>3, <1>4, <1>7, <2>1, <2>2, <2>3, TellsFollow
<1>8. /\ Error("gateway_disconnected") \in PageFrame /\ Error("gateway_disconnected").type = "error"
      /\ Error("invalid_thread") \in PageFrame /\ Error("invalid_thread").type = "error"
  BY <1>5, ErrorFacts
<1> QED
  BY <1>6, <1>7, <1>8 DEF CallFailed

(* A bridge that serves a command and leaves the gateway's turn alone.        *)
LEMMA ServedKeeps ==
    ASSUME ChatInv, FollowInv, NEW t \in Tabs, NEW type, Serves(t, type), type # "submit", CommandTaken(t),
           UNCHANGED conversation
    PROVE  /\ t \in Attached /\ ~CallTaken(t) /\ ReceiptsKept /\ bridges[t].phase # "none"
           /\ \A u \in Tabs \ {t} : commands'[u] = commands[u]
           /\ t \notin Repeaters => SentOnce(t)'
<1>1. ChatShape
  BY DEF ChatInv, ServerInv
<1>2. /\ t \in Attached /\ ~CallTaken(t) /\ commands[t] # <<>> /\ NextCommand(t).type = type
  BY <1>1, ServesFacts
<1>3. \A u \in Tabs \ {t} : commands'[u] = commands[u]
  BY <1>1, <1>2, CommandFacts
<1>4. ReceiptsKept
  BY ReceiptsSame
<1>5. ASSUME t \notin Repeaters PROVE SentOnce(t)'
  <2>1. SentOnce(t)
    BY <1>5 DEF FollowInv, Follows
  <2> QED
    BY <1>1, <1>2, <1>4, <2>1, TakesCommand DEF ReceiptsKept
<1> QED
  BY <1>2, <1>3, <1>4, <1>5 DEF Attached

LEMMA ErrorFollows ==
    ASSUME ChatInv, FollowInv, NEW t \in Tabs, t \in Attached, NEW code \in Codes, ToPage(t, <<Error(code)>>),
           \A u \in Tabs \ {t} : commands'[u] = commands[u],
           UNCHANGED <<bridges, gateway, events, pages>>, ReceiptsKept, t \notin Repeaters => SentOnce(t)'
    PROVE  FollowInv'
<1>1. ChatShape
  BY DEF ChatInv, ServerInv
<1>2. PICK f \in PageFrame : f = Error(code) /\ f.type = "error"
  BY ErrorFacts
<1>3. /\ frames'[t] = IF pages[t].socket THEN frames[t] \o <<f>> ELSE frames[t]
      /\ \A u \in Tabs \ {t} : frames'[u] = frames[u]
  BY <1>1, <1>2, OneFrame
<1>4. Beside(t) /\ TurnKept /\ (CallTaken(t)' => CallTaken(t))
  BY <1>3 DEF Beside, TurnKept, CallTaken
<1>5. pages'[t] = pages[t] /\ events'[t] = events[t] /\ bridges'[t].open = bridges[t].open
  OBVIOUS
<1> QED
  BY <1>2, <1>3, <1>4, <1>5, TellsFollow

LEMMA InterruptFollows == ASSUME ChatInv, FollowInv, NEW t \in Tabs, Interrupt(t) PROVE FollowInv'
<1>1. ChatShape
  BY DEF ChatInv, ServerInv
<1>2. Serves(t, "stop") /\ CommandTaken(t) /\ UNCHANGED <<conversation, gateway, pages>>
  BY DEF Interrupt
<1>3. /\ t \in Attached /\ ~CallTaken(t) /\ ReceiptsKept /\ bridges[t].phase # "none"
      /\ \A u \in Tabs \ {t} : commands'[u] = commands[u]
      /\ t \notin Repeaters => SentOnce(t)'
  BY <1>2, ServedKeeps
<1>4. TurnKept
  BY <1>2 DEF TurnKept
<1>5. "invalid_thread" \in Codes /\ "gateway_disconnected" \in Codes /\ "gateway_request_failed" \in Codes
  BY DEF Codes
<1>6. CASE UNCHANGED <<bridges, events, frames, losses>>
  <2>1. Beside(t)
    BY <1>2, <1>3, <1>6 DEF Beside
  <2>2. ASSUME t \notin Repeaters PROVE Follows(t)'
    <3>1. Follows(t)
      BY <2>2 DEF FollowInv
    <3>2. (t \in Attached' => t \in Attached) /\ (CallTaken(t)' => CallTaken(t))
      BY <1>3, <1>6 DEF CallTaken
    <3>3. CardsFollow(t)' /\ TurnFollows(t)' /\ AsksOnce(t)'
      BY <1>1, <1>2, <1>4, <1>6, <3>1, <3>2, GoesOn DEF Follows
    <3> QED
      BY <1>3, <2>2, <3>3 DEF Follows
  <2> QED
    BY <1>3, <1>4, <2>1, <2>2, TabFollows DEF ReceiptsKept
<1>7. CASE ToPage(t, <<Error("invalid_thread")>>) /\ UNCHANGED <<bridges, events, losses>>
  BY <1>2, <1>3, <1>5, <1>7, ErrorFollows
<1>8. CASE /\ events' = [events EXCEPT ![t] = Queued(@, Frame("lost"))]
           /\ ToPage(t, <<Error("gateway_disconnected")>>)
           /\ UNCHANGED bridges
  <2>1. events'[t] = Queued(events[t], Frame("lost")) /\ \A u \in Tabs \ {t} : events'[u] = events[u]
    BY <1>1, <1>8 DEF ChatShape
  <2>2. PICK f \in PageFrame : f = Error("gateway_disconnected") /\ f.type = "error"
    BY <1>5, ErrorFacts
  <2>3. /\ frames'[t] = IF pages[t].socket THEN frames[t] \o <<f>> ELSE frames[t]
        /\ \A u \in Tabs \ {t} : frames'[u] = frames[u]
    BY <1>1, <1>8, <2>2, OneFrame
  <2>4. Beside(t)
    BY <1>2, <1>3, <1>8, <2>1, <2>3 DEF Beside
  <2>5. ASSUME t \notin Repeaters PROVE Follows(t)'
    <3>1. Follows(t)
      BY <2>5 DEF FollowInv
    <3>2. TurnFollows(t)' /\ AsksOnce(t)'
      BY <1>1, <1>3, <1>4, <1>8, <2>1, <3>1, BreaksOff DEF Follows, TurnKept
    <3>3. \A q \in Questions : f \notin Raises(q) /\ f \notin Drops(q)
      BY <2>2 DEF Raises, Drops
    <3>4. CardsFollow(t)'
      BY <1>1, <1>2, <1>3, <1>8, <2>3, <3>1, <3>3, CardsTold DEF Follows
    <3> QED
      BY <1>3, <2>5, <3>2, <3>4 DEF Follows
  <2> QED
    BY <1>3, <1>4, <2>4, <2>5, TabFollows DEF ReceiptsKept
<1>9. CASE /\ Fail(t, "gateway_request_failed")
           /\ ToPage(t, <<Error("gateway_request_failed")>>)
           /\ UNCHANGED <<events, losses>>
  <2>1. bridges'[t].phase = "closing" /\ \A u \in Tabs \ {t} : bridges'[u] = bridges[u]
    BY <1>1, <1>5, <1>9, BridgeEnds
  <2>2. Error("gateway_request_failed") \in PageFrame
    BY <1>5, ErrorFacts
  <2>3. \A u \in Tabs \ {t} : frames'[u] = frames[u]
    BY <1>1, <1>9, <2>2, OneFrame
  <2>4. Beside(t)
    BY <1>2, <1>3, <1>9, <2>1, <2>3 DEF Beside
  <2> QED
    BY <1>3, <2>1, <2>4, EndsFollow
<1> QED
  BY <1>6, <1>7, <1>8, <1>9 DEF Interrupt

(* A question whose answer the bridge sends, and forgets.                     *)
ForgetsRecord(t, q) == [bridges[t] EXCEPT !.open = @ \ {q}]

LEMMA ForgottenFollows ==
    ASSUME ChatInv, FollowInv, NEW t \in Tabs, NEW q \in Questions, q \in bridges[t].open,
           bridges[t].phase = "serving", SetBridge(t, ForgetsRecord(t, q)), ToPage(t, <<FrameOf("request_cancel", q)>>),
           \/ gateway' = [gateway EXCEPT !.open = @ \ {q}] /\ UNCHANGED events
           \/ UNCHANGED gateway /\ events' = [events EXCEPT ![t] = Queued(@, Frame("lost"))],
           \A u \in Tabs \ {t} : commands'[u] = commands[u],
           UNCHANGED pages, ReceiptsKept, t \notin Repeaters => SentOnce(t)'
    PROVE  FollowInv'
<1>1. ChatShape /\ gateway \in GatewayType
  BY DEF ChatInv, ServerInv, ChatShape
<1>2. /\ bridges'[t].open = bridges[t].open \ {q} /\ bridges'[t].phase = "serving"
      /\ \A u \in Tabs \ {t} : bridges'[u] = bridges[u]
  <2>1. /\ ForgetsRecord(t, q) \in Bridge /\ ForgetsRecord(t, q).open = bridges[t].open \ {q}
        /\ ForgetsRecord(t, q).phase = "serving"
    BY <1>1 DEF ChatShape, Bridge, ForgetsRecord
  <2> QED
    BY <1>1, <2>1, BridgeSet
<1>3. PICK f \in PageFrame : f = FrameOf("request_cancel", q)
  BY Codings
<1>4. f.type = "request_cancel" /\ f.about = q
  BY <1>3 DEF FrameOf
<1>5. /\ frames'[t] = IF pages[t].socket THEN frames[t] \o <<f>> ELSE frames[t]
      /\ \A u \in Tabs \ {t} : frames'[u] = frames[u]
  BY <1>1, <1>3, OneFrame
<1>6. Beside(t)
  BY <1>1, <1>2, <1>5 DEF Beside, ChatShape
<1>7. t \in Attached /\ ~CallTaken(t)'
  BY <1>2 DEF Attached, CallTaken
<1>8. \A r \in Questions : r \in bridges'[t].open <=> f \in Raises(r) \/ (f \notin Drops(r) /\ r \in bridges[t].open)
  BY <1>2, <1>4 DEF Raises, Drops
<1>9. ASSUME t \notin Repeaters PROVE Follows(t)'
  <2>1. Follows(t)
    BY <1>9 DEF FollowInv
  <2>2. CardsFollow(t)'
    BY <1>1, <1>5, <1>7, <1>8, <2>1, CardsTold DEF Follows
  <2>3. CASE gateway' = [gateway EXCEPT !.open = @ \ {q}] /\ UNCHANGED events
    <3>1. gateway'.open = gateway.open \ {q} /\ gateway'.turn = gateway.turn /\ gateway'.asked = gateway.asked
      BY <1>1, <2>3 DEF GatewayType
    <3>2. AsksOnce(t)'
      BY <1>2, <1>7, <2>1, <2>3, <3>1, AsksKept DEF Follows
    <3>3. \A k \in DOMAIN events[t] : events[t][k] \notin AskOf(q)
      BY <1>7, <2>1 DEF Follows, AsksOnce
    <3>4. ~WillOpen(t, q)'
      BY <1>2, <2>3, <3>3 DEF WillOpen, After
    <3>5. \A r \in Questions \ {q} : WillOpen(t, r)' <=> WillOpen(t, r)
      BY <1>2, <2>3 DEF WillOpen, After
    <3>6. \A r \in Questions : (WillOpen(t, r) <=> r \in gateway.open) => (WillOpen(t, r)' <=> r \in gateway'.open)
      BY <3>1, <3>4, <3>5
    <3>7. TurnFollows(t)'
      BY <1>1, <1>4, <1>5, <1>7, <2>1, <2>3, <3>1, <3>6, TurnTold DEF Follows
    <3> QED
      BY <1>9, <2>2, <3>2, <3>7 DEF Follows
  <2>4. CASE UNCHANGED gateway /\ events' = [events EXCEPT ![t] = Queued(@, Frame("lost"))]
    <3>1. events'[t] = Queued(events[t], Frame("lost"))
      BY <1>1, <2>4 DEF ChatShape
    <3>2. TurnFollows(t)' /\ AsksOnce(t)'
      BY <1>1, <1>2, <1>7, <2>1, <2>4, <3>1, BreaksOff DEF Follows
    <3> QED
      BY <1>9, <2>2, <3>2 DEF Follows
  <2> QED
    BY <2>3, <2>4
<1> QED
  BY <1>6, <1>9, TabFollows DEF ReceiptsKept

LEMMA AnswerFollows == ASSUME ChatInv, FollowInv, NEW t \in Tabs, Answer(t) PROVE FollowInv'
<1>1. ChatShape
  BY DEF ChatInv, ServerInv
<1>2. PICK q : q = NextCommand(t).about
  OBVIOUS
<1>3. Serves(t, "answer") /\ CommandTaken(t) /\ UNCHANGED <<conversation, pages>> /\ bridges[t].phase = "serving"
  BY DEF Answer, Serves
<1>4. /\ t \in Attached /\ ~CallTaken(t) /\ ReceiptsKept /\ bridges[t].phase # "none"
      /\ \A u \in Tabs \ {t} : commands'[u] = commands[u]
      /\ t \notin Repeaters => SentOnce(t)'
  BY <1>3, ServedKeeps
<1>5. q \in Questions
  <2>1. NextCommand(t) \in Command /\ NextCommand(t).type = "answer"
    BY <1>1, <1>3, ServesFacts
  <2> QED
    BY <1>2, <2>1 DEF Command
<1>6. CASE ToPage(t, <<Error("request_expired")>>) /\ UNCHANGED <<bridges, gateway, events, losses>>
  <2>1. "request_expired" \in Codes
    BY DEF Codes
  <2> QED
    BY <1>3, <1>4, <1>6, <2>1, ErrorFollows
<1>7. CASE /\ q \in bridges[t].open /\ SetBridge(t, ForgetsRecord(t, q))
           /\ ToPage(t, <<FrameOf("request_cancel", q)>>)
           /\ \/ gateway' = [gateway EXCEPT !.open = @ \ {q}] /\ UNCHANGED events
              \/ UNCHANGED gateway /\ events' = [events EXCEPT ![t] = Queued(@, Frame("lost"))]
  BY <1>3, <1>4, <1>5, <1>7, ForgottenFollows
<1>8. CASE Fail(t, "gateway_unavailable") /\ UNCHANGED <<gateway, events, frames, losses>>
  <2>1. bridges'[t].phase = "closing" /\ \A u \in Tabs \ {t} : bridges'[u] = bridges[u]
    BY <1>1, <1>8, BridgeEnds DEF Codes
  <2>2. Beside(t)
    BY <1>3, <1>4, <1>8, <2>1 DEF Beside
  <2> QED
    BY <1>4, <2>1, <2>2, EndsFollow
<1> QED
  BY <1>2, <1>6, <1>7, <1>8 DEF Answer, ForgetsRecord

(* A message that the bridge answers itself: it has no receipt, unless its    *)
(* page repeats itself.                                                       *)
LEMMA VerdictFollows ==
    ASSUME ChatInv, FollowInv, NEW t \in Tabs, NEW i, i = NextCommand(t).about, Serves(t, "submit"),
           CommandTaken(t), ToPage(t, <<Verdict(t, i)>>), UNCHANGED <<conversation, bridges, gateway, events, pages>>
    PROVE  FollowInv'
<1>1. ChatShape
  BY DEF ChatInv, ServerInv
<1>2. /\ i \in Ids /\ commands[t] # <<>> /\ t \in Attached /\ 1 \in DOMAIN commands[t]
      /\ commands[t][1].type = "submit" /\ commands[t][1].about = i
  BY <1>1, SubmitServed, ServesFacts
<1>3. PICK f \in PageFrame : f = Verdict(t, i) /\ f.type \in {"accepted", "error"}
  BY <1>1, <1>2, VerdictFacts
<1>4. f.type = "accepted" => Receipt(i)
  BY <1>1, <1>2, <1>3, VerdictFacts
<1>5. t \notin Repeaters => ~Receipt(i)
  BY <1>2 DEF FollowInv, Follows, SentOnce
<1>6. /\ frames'[t] = IF pages[t].socket THEN frames[t] \o <<f>> ELSE frames[t]
      /\ \A u \in Tabs \ {t} : frames'[u] = frames[u]
  BY <1>1, <1>3, OneFrame
<1>7. \A u \in Tabs \ {t} : commands'[u] = commands[u]
  BY <1>1, <1>2, CommandFacts
<1>8. Beside(t) /\ ReceiptsKept /\ TurnKept /\ (CallTaken(t)' => CallTaken(t))
  BY <1>6, <1>7, ReceiptsSame DEF Beside, TurnKept, CallTaken
<1>9. t \notin Repeaters => SentOnce(t)'
  BY <1>1, <1>2, <1>8, TakesCommand DEF FollowInv, Follows, ReceiptsKept
<1>10. pages'[t] = pages[t] /\ events'[t] = events[t] /\ bridges'[t].open = bridges[t].open
  OBVIOUS
<1> QED
  BY <1>2, <1>3, <1>4, <1>5, <1>6, <1>8, <1>9, <1>10, TellsFollow

CallRecord(t, i) == [bridges[t] EXCEPT !.phase = "calling", !.running = TRUE, !.call = i,
                                       !.reply = IF Lost(t) THEN "failed" ELSE "none"]

LEMMA SendFollows ==
    ASSUME ChatInv, FollowInv, NEW t \in Tabs, NEW i, i = NextCommand(t).about, Serves(t, "submit"),
           CommandTaken(t), conversation' = WithReceipt(i, "sending"), SetBridge(t, CallRecord(t, i)),
           gateway' = [gateway EXCEPT !.wire = @ \cup {i}] \/ UNCHANGED gateway,
           UNCHANGED <<frames, events, pages>>
    PROVE  FollowInv'
<1>1. ChatShape /\ gateway \in GatewayType
  BY DEF ChatInv, ServerInv, ChatShape
<1>2. /\ i \in Ids /\ commands[t] # <<>> /\ t \in Attached /\ Submits(t, i) /\ NextCommand(t).type = "submit"
  BY <1>1, SubmitServed, ServesFacts
<1>3. /\ bridges'[t].open = bridges[t].open /\ ~CallTaken(t)'
      /\ \A u \in Tabs \ {t} : bridges'[u] = bridges[u]
  <2>1. /\ CallRecord(t, i) \in Bridge /\ CallRecord(t, i).open = bridges[t].open
        /\ CallRecord(t, i).reply \in {"failed", "none"}
    BY <1>1, <1>2 DEF ChatShape, Bridge, CallRecord
  <2>2. bridges'[t] = CallRecord(t, i) /\ \A u \in Tabs \ {t} : bridges'[u] = bridges[u]
    BY <1>1, <2>1, BridgeSet
  <2> QED
    BY <2>1, <2>2 DEF CallTaken
<1>4. TurnKept
  BY <1>1 DEF TurnKept, GatewayType
<1>5. \A j : Receipt(j)' => Receipt(j) \/ j = i
  BY <1>1, <1>2, ReceiptStep
<1>6. \A u \in Tabs \ {t} : commands'[u] = commands[u]
  BY <1>1, <1>2, CommandFacts
<1>7. Beside(t)
  BY <1>3, <1>6 DEF Beside
<1>8. ASSUME t \notin Repeaters PROVE Follows(t)'
  <2>1. Follows(t)
    BY <1>8 DEF FollowInv
  <2>2. SentOnce(t)'
    BY <1>1, <1>2, <1>5, <2>1, TakesCommand DEF Follows
  <2>3. pages'[t] = pages[t] /\ frames'[t] = frames[t] /\ events'[t] = events[t]
    OBVIOUS
  <2>4. CardsFollow(t)' /\ TurnFollows(t)' /\ AsksOnce(t)'
    BY <1>1, <1>2, <1>3, <1>4, <2>1, <2>3, GoesOn DEF Follows
  <2> QED
    BY <2>2, <2>4 DEF Follows
<1> QED
  BY <1>2, <1>4, <1>5, <1>7, <1>8, TabFollows

LEMMA BridgeSubmitFollows == ASSUME ChatInv, FollowInv, NEW t \in Tabs, BridgeSubmit(t) PROVE FollowInv'
<1>1. PICK i : i = NextCommand(t).about
  OBVIOUS
<1>2. CASE ToPage(t, <<Verdict(t, i)>>) /\ UNCHANGED <<conversation, bridges, gateway>>
  BY <1>1, <1>2, VerdictFollows DEF BridgeSubmit
<1>3. CASE /\ conversation' = WithReceipt(i, "sending") /\ SetBridge(t, CallRecord(t, i))
           /\ gateway' = [gateway EXCEPT !.wire = @ \cup {i}] \/ UNCHANGED gateway
           /\ UNCHANGED frames
  BY <1>1, <1>3, SendFollows DEF BridgeSubmit
<1> QED
  BY <1>1, <1>2, <1>3 DEF BridgeSubmit, CallRecord

(* An event that a bridge takes from its queue.                               *)
LEMMA TakenFacts ==
    ASSUME NEW E \in Seq(GatewayEvent), E # <<>>, NEW e, e = Head(E), NEW D, D = Tail(E)
    PROVE  /\ e = E[1] /\ e \in GatewayEvent /\ D \in Seq(GatewayEvent) /\ 1 \in DOMAIN E
           /\ e.type # "lost" => (Ended(D) <=> Ended(E))
           /\ \A x : After(E, Speaks, Ends, x) <=> After(D, Speaks, Ends, e \in Speaks \/ (e \notin Ends /\ x))
           /\ \A k \in DOMAIN D : k + 1 \in DOMAIN E /\ D[k] = E[k + 1] /\ k \in Nat /\ k + 1 # 1
           /\ \A k \in DOMAIN E : k = 1 \/ (k - 1 \in DOMAIN D /\ D[k - 1] = E[k])
<1>1. /\ D \in Seq(GatewayEvent) /\ Len(D) = Len(E) - 1 /\ e = E[1] /\ e \in GatewayEvent /\ Len(E) \in Nat
      /\ 1 \in DOMAIN E /\ DOMAIN E = 1 .. Len(E) /\ DOMAIN D = 1 .. Len(E) - 1
      /\ \A k \in DOMAIN D : k + 1 \in DOMAIN E /\ D[k] = E[k + 1]
      /\ \A k \in DOMAIN E : k = 1 \/ (k - 1 \in DOMAIN D /\ D[k - 1] = E[k])
  BY TailFacts
<1>2. \A k \in DOMAIN D : k \in Nat /\ k + 1 # 1
  BY <1>1
<1>3. ASSUME e.type # "lost" PROVE Ended(D) <=> Ended(E)
  <2>1. CASE Len(E) = 1
    <3>1. D = <<>>
      BY <1>1, <2>1
    <3>2. ~Ended(E)
      BY <1>1, <1>3, <2>1 DEF Ended
    <3> QED
      BY <3>1, <3>2 DEF Ended
  <2>2. CASE Len(E) # 1
    <3>1. Len(D) \in DOMAIN D /\ Len(D) + 1 = Len(E)
      BY <1>1, <2>2
    <3>2. D[Len(D)] = E[Len(E)] /\ D # <<>>
      BY <1>1, <3>1
    <3> QED
      BY <3>2 DEF Ended
  <2> QED
    BY <2>1, <2>2
<1>4. e \in Speaks => e \notin Ends
  BY Apartness
<1>5. \A x : After(E, Speaks, Ends, x) <=> After(D, Speaks, Ends, e \in Speaks \/ (e \notin Ends /\ x))
  BY <1>1, <1>4, AfterFirst, Z3T(30)
<1> QED
  BY <1>1, <1>2, <1>3, <1>5

LEMMA HeadTaken ==
    ASSUME NEW t, events[t] \in Seq(GatewayEvent), events[t] # <<>>
    PROVE  /\ Head(events[t]) = events[t][1] /\ Head(events[t]) \in GatewayEvent /\ 1 \in DOMAIN events[t]
           /\ Head(events[t]).type # "lost" => (Ended(Tail(events[t])) <=> Ended(events[t]))
           /\ \A x : After(events[t], Speaks, Ends, x) <=>
                       After(Tail(events[t]), Speaks, Ends,
                             Head(events[t]) \in Speaks \/ (Head(events[t]) \notin Ends /\ x))
           /\ \A k \in DOMAIN Tail(events[t]) :
                 k + 1 \in DOMAIN events[t] /\ Tail(events[t])[k] = events[t][k + 1] /\ k \in Nat /\ k + 1 # 1
           /\ \A k \in DOMAIN events[t] : k = 1 \/ (k - 1 \in DOMAIN Tail(events[t]) /\ Tail(events[t])[k - 1] = events[t][k])
BY TakenFacts

LEMMA HeadAsked ==
    ASSUME NEW t, events[t] \in Seq(GatewayEvent), events[t] # <<>>, NEW q, NEW open
    PROVE  After(events[t], AskOf(q), CancelOf(q), q \in open) <=>
               After(Tail(events[t]), AskOf(q), CancelOf(q),
                     Head(events[t]) \in AskOf(q) \/ (Head(events[t]) \notin CancelOf(q) /\ q \in open))
<1> DEFINE A == AskOf(q)
           C == CancelOf(q)
           x == q \in open
<1>1. Head(events[t]) = events[t][1] /\ (events[t][1] \in A => events[t][1] \notin C)
  BY TailFacts, Apartness
<1> HIDE DEF A, C, x
<1>2. After(events[t], A, C, x) <=>
          After(Tail(events[t]), A, C, Head(events[t]) \in A \/ (Head(events[t]) \notin C /\ x))
  BY <1>1, AfterFirst, Z3T(30)
<1> QED
  BY <1>2 DEF A, C, x

LEMMA AfterSame ==
    ASSUME NEW s, NEW On, NEW Off, NEW x, NEW y, x <=> y
    PROVE  After(s, On, Off, x) <=> After(s, On, Off, y)
BY AfterMore

(* What the bridge makes of an event that it passes on.                       *)
PassedOn(t, e) ==
    /\ WillShow(t, {})' <=> e \in Speaks \/ (e \notin Ends /\ WillShow(t, {}))
    /\ WillShow(t, AcceptsFrame)' <=> e \in Speaks \/ (e \notin Ends /\ WillShow(t, AcceptsFrame))
    /\ \A q \in Questions : WillAsk(t, q)' <=> e \in AskOf(q) \/ (e \notin CancelOf(q) /\ WillAsk(t, q))
    /\ e \in Ends \/ (\E k \in DOMAIN frames[t] : frames[t][k].type \in Clearing) =>
          \E k \in DOMAIN frames'[t] : frames'[t][k].type \in Clearing

LEMMA PassesFollow ==
    ASSUME ChatInv, FollowInv, NEW t \in Tabs, NEW e, e = Head(events[t]), events[t] # <<>>, e.type # "lost",
           events' = [events EXCEPT ![t] = Tail(@)], bridges[t].phase = "serving", bridges'[t].phase = "serving",
           \A u \in Tabs \ {t} : bridges'[u] = bridges[u] /\ frames'[u] = frames[u],
           \A q \in Questions : q \in bridges'[t].open <=> e \in AskOf(q) \/ (e \notin CancelOf(q) /\ q \in bridges[t].open),
           bridges'[t].open \subseteq Questions,
           UNCHANGED <<conversation, gateway, commands, pages>>,
           CardsFollow(t) /\ pages[t].socket => PassedOn(t, e)
    PROVE  FollowInv'
<1>1. ChatShape /\ events[t] \in Seq(GatewayEvent)
  BY DEF ChatInv, ServerInv, ChatShape
<1>2. events'[t] = Tail(events[t]) /\ \A u \in Tabs \ {t} : events'[u] = events[u]
  BY <1>1 DEF ChatShape
<1>3. Beside(t) /\ ReceiptsKept
  BY <1>2, ReceiptsSame DEF Beside
<1>4. t \in Attached /\ ~CallTaken(t) /\ ~CallTaken(t)' /\ bridges[t].phase # "none"
  BY DEF Attached, CallTaken
<1> DEFINE E == events[t]
           D == Tail(events[t])
<1>5. /\ e = E[1] /\ e \in GatewayEvent /\ 1 \in DOMAIN E
      /\ Ended(D) <=> Ended(E)
      /\ \A x : After(E, Speaks, Ends, x) <=> After(D, Speaks, Ends, e \in Speaks \/ (e \notin Ends /\ x))
      /\ \A k \in DOMAIN D : k + 1 \in DOMAIN E /\ D[k] = E[k + 1] /\ k \in Nat /\ k + 1 # 1
      /\ \A k \in DOMAIN E : k = 1 \/ (k - 1 \in DOMAIN D /\ D[k - 1] = E[k])
  BY <1>1, HeadTaken
<1>8. events'[t] = D
  BY <1>2
<1>9. ASSUME NEW q
      PROVE  After(events[t], AskOf(q), CancelOf(q), q \in bridges[t].open) <=>
                 After(Tail(events[t]), AskOf(q), CancelOf(q),
                       Head(events[t]) \in AskOf(q) \/ (Head(events[t]) \notin CancelOf(q) /\ q \in bridges[t].open))
  BY <1>1, HeadAsked
<1> HIDE DEF E, D
<1>6. events'[t] = D /\ (Lost(t)' <=> Lost(t))
  BY <1>5, <1>8 DEF Lost, E
<1>7. ASSUME t \notin Repeaters PROVE Follows(t)'
  <2>1. Follows(t)
    BY <1>7 DEF FollowInv
  <2>2. SentOnce(t)'
    BY <1>3, <2>1, SentKept DEF Follows
  <2>3. CardsFollow(t)'
    BY <1>4, <2>1 DEF Follows, CardsFollow, PassedOn
  <2>4. AsksOnce(t)'
    <3>1. /\ bridges[t].open \subseteq gateway.asked
          /\ \A q \in Questions : \A k \in DOMAIN E : E[k] \in AskOf(q) =>
                /\ q \in gateway.asked /\ q \notin bridges[t].open
                /\ \A j \in DOMAIN E : E[j] \in AskOf(q) => j = k
      BY <1>4, <2>1 DEF Follows, AsksOnce, E
    <3>2. bridges'[t].open \subseteq gateway'.asked
      <4> SUFFICES ASSUME NEW q \in bridges'[t].open PROVE q \in gateway.asked
        OBVIOUS
      <4>1. q \in Questions
        OBVIOUS
      <4>2. e \in AskOf(q) \/ q \in bridges[t].open
        BY <4>1
      <4> QED
        BY <1>5, <3>1, <4>1, <4>2
    <3>3. ASSUME NEW q \in Questions, NEW k \in DOMAIN D, D[k] \in AskOf(q)
          PROVE  /\ q \in gateway.asked /\ q \notin bridges'[t].open
                 /\ \A j \in DOMAIN D : D[j] \in AskOf(q) => j = k
      <4>1. k + 1 \in DOMAIN E /\ E[k + 1] \in AskOf(q) /\ k + 1 # 1
        BY <1>5, <3>3
      <4>2. q \in gateway.asked /\ q \notin bridges[t].open /\ e \notin AskOf(q)
        BY <1>5, <3>1, <4>1
      <4>3. q \notin bridges'[t].open
        BY <4>2
      <4>4. ASSUME NEW j \in DOMAIN D, D[j] \in AskOf(q) PROVE j = k
        <5>1. j + 1 = k + 1
          BY <1>5, <3>1, <4>1, <4>4
        <5> QED
          BY <1>5, <5>1
      <4> QED
        BY <4>2, <4>3, <4>4
    <3> QED
      BY <1>6, <3>2, <3>3 DEF AsksOnce
  <2>5. ASSUME pages[t].socket, ~Lost(t)
        PROVE  /\ gateway.turn = "speaking" => WillRun(t, {})'
               /\ gateway.turn = "idle" => ~WillRun(t, AcceptsFrame)'
               /\ gateway.turn = "idle" /\ pages[t].stopping => StopCleared(t)'
               /\ \A q \in Questions : WillOpen(t, q)' <=> q \in gateway.open
    <3>1. /\ gateway.turn = "speaking" => WillRun(t, {})
          /\ gateway.turn = "idle" => ~WillRun(t, AcceptsFrame)
          /\ gateway.turn = "idle" /\ pages[t].stopping => StopCleared(t)
          /\ \A q \in Questions : WillOpen(t, q) <=> q \in gateway.open
      BY <1>4, <2>1, <2>5 DEF Follows, TurnFollows
    <3>2. PassedOn(t, e)
      BY <2>1, <2>5 DEF Follows
    <3>3. WillRun(t, {})' <=> WillRun(t, {})
      <4>1. After(D, Speaks, Ends, WillShow(t, {})') <=>
                After(D, Speaks, Ends, e \in Speaks \/ (e \notin Ends /\ WillShow(t, {})))
        BY <3>2, AfterSame DEF PassedOn
      <4>2. WillRun(t, {})' <=> After(D, Speaks, Ends, WillShow(t, {})')
        BY <1>6 DEF WillRun
      <4>3. WillRun(t, {}) <=> After(E, Speaks, Ends, WillShow(t, {}))
        BY DEF WillRun, E
      <4> QED
        BY <1>5, <4>1, <4>2, <4>3
    <3>4. WillRun(t, AcceptsFrame)' <=> WillRun(t, AcceptsFrame)
      <4>1. After(D, Speaks, Ends, WillShow(t, AcceptsFrame)') <=>
                After(D, Speaks, Ends, e \in Speaks \/ (e \notin Ends /\ WillShow(t, AcceptsFrame)))
        BY <3>2, AfterSame DEF PassedOn
      <4>2. WillRun(t, AcceptsFrame)' <=> After(D, Speaks, Ends, WillShow(t, AcceptsFrame)')
        BY <1>6 DEF WillRun
      <4>3. WillRun(t, AcceptsFrame) <=> After(E, Speaks, Ends, WillShow(t, AcceptsFrame))
        BY DEF WillRun, E
      <4> QED
        BY <1>5, <4>1, <4>2, <4>3
    <3>5. ASSUME NEW q \in Questions PROVE WillOpen(t, q)' <=> WillOpen(t, q)
      <4>1. After(D, AskOf(q), CancelOf(q), q \in bridges'[t].open) <=>
                After(D, AskOf(q), CancelOf(q), e \in AskOf(q) \/ (e \notin CancelOf(q) /\ q \in bridges[t].open))
        BY AfterSame
      <4>2. WillOpen(t, q)' <=> After(D, AskOf(q), CancelOf(q), q \in bridges'[t].open)
        BY <1>6 DEF WillOpen
      <4>3. WillOpen(t, q) <=> After(E, AskOf(q), CancelOf(q), q \in bridges[t].open)
        BY DEF WillOpen, E
      <4>4. After(E, AskOf(q), CancelOf(q), q \in bridges[t].open) <=>
                After(D, AskOf(q), CancelOf(q), e \in AskOf(q) \/ (e \notin CancelOf(q) /\ q \in bridges[t].open))
        BY <1>9 DEF E, D
      <4> QED
        BY <4>1, <4>2, <4>3, <4>4
    <3>6. StopCleared(t) => StopCleared(t)'
      <4>1. CASE \E k \in DOMAIN frames[t] : frames[t][k].type \in Clearing
        <5>1. \E k \in DOMAIN frames'[t] : frames'[t][k].type \in Clearing
          BY <3>2, <4>1 DEF PassedOn
        <5> QED
          BY <5>1 DEF StopCleared, Clearing
      <4>2. ASSUME NEW k \in DOMAIN E, E[k] \in Ends PROVE StopCleared(t)'
        <5>1. CASE k = 1
          <6>1. \E j \in DOMAIN frames'[t] : frames'[t][j].type \in Clearing
            BY <1>5, <3>2, <4>2, <5>1 DEF PassedOn
          <6> QED
            BY <6>1 DEF StopCleared, Clearing
        <5>2. CASE k # 1
          <6>1. k - 1 \in DOMAIN D /\ D[k - 1] \in Ends
            BY <1>5, <4>2, <5>2
          <6> QED
            BY <1>6, <6>1 DEF StopCleared
        <5> QED
          BY <5>1, <5>2
      <4> QED
        BY <4>1, <4>2 DEF StopCleared, Clearing, E
    <3> QED
      BY <3>1, <3>3, <3>4, <3>5, <3>6
  <2>6. TurnFollows(t)'
    BY <1>4, <1>6, <2>5 DEF TurnFollows
  <2> QED
    BY <2>2, <2>3, <2>4, <2>6 DEF Follows
<1> QED
  BY <1>3, <1>4, <1>7, TabFollows DEF ReceiptsKept

(* The frame that stands for an event.                                        *)
LEMMA FramePasses ==
    ASSUME ChatShape, NEW t \in Tabs, NEW e, NEW f \in PageFrame, ToPage(t, <<f>>), UNCHANGED pages, pages[t].socket,
           f \in RunsFrame <=> e \in Speaks, f \in EndsFrame <=> e \in Ends, f \notin AcceptsFrame,
           \A q \in Questions : (f \in Raises(q) <=> e \in AskOf(q)) /\ (f \in Drops(q) <=> e \in CancelOf(q))
    PROVE  PassedOn(t, e)
<1>1. frames'[t] = frames[t] \o <<f>>
  BY OneFrame
<1>2. f \in EndsFrame => f.type \in Clearing
  BY DEF EndsFrame, Clearing
<1> QED
  BY <1>1, <1>2, ToldFacts DEF PassedOn

LEMMA SilencePasses ==
    ASSUME NEW t \in Tabs, NEW e, UNCHANGED <<frames, pages>>, e \notin Speaks, e \notin Ends,
           \A q \in Questions : e \notin AskOf(q) /\ (e \in CancelOf(q) => ~WillAsk(t, q))
    PROVE  PassedOn(t, e)
BY DEF PassedOn, WillShow, WillAsk

LEMMA UpstreamFollows == ASSUME ChatInv, FollowInv, NEW t \in Tabs, Upstream(t) PROVE FollowInv'
<1>1. ChatShape /\ bridges[t] \in Bridge
  BY DEF ChatInv, ServerInv, ChatShape
<1>2. PICK e : e = Head(events[t])
  OBVIOUS
<1>3. /\ events[t] # <<>> /\ events' = [events EXCEPT ![t] = Tail(@)]
      /\ bridges[t].phase = "serving" \/ (bridges[t].phase = "calling" /\ e.type = "lost")
      /\ UNCHANGED <<conversation, gateway, commands, pages>>
  BY <1>2 DEF Upstream
<1>4. e \in GatewayEvent
  BY <1>1, <1>2, <1>3, HeadTaken DEF ChatShape
<1> DEFINE Running(b) == [bridges[t] EXCEPT !.running = b]
           Open(qs) == [bridges[t] EXCEPT !.open = qs]
<1>5. ASSUME NEW b \in Bridge, SetBridge(t, b) \/ (UNCHANGED bridges /\ b = bridges[t]),
             b.phase = "serving", e.type # "lost",
             \A q \in Questions : q \in b.open <=> e \in AskOf(q) \/ (e \notin CancelOf(q) /\ q \in bridges[t].open),
             \A u \in Tabs \ {t} : frames'[u] = frames[u],
             CardsFollow(t) /\ pages[t].socket => PassedOn(t, e)
      PROVE  FollowInv'
  <2>1. bridges'[t] = b /\ \A u \in Tabs \ {t} : bridges'[u] = bridges[u]
    BY <1>1, <1>5, BridgeSet
  <2>2. b.open \subseteq Questions /\ bridges[t].phase = "serving"
    BY <1>3, <1>5 DEF Bridge
  <2> QED
    BY <1>2, <1>3, <1>5, <2>1, <2>2, PassesFollow
<1>6. ASSUME NEW f \in PageFrame, ToPage(t, <<f>>)
      PROVE  \A u \in Tabs \ {t} : frames'[u] = frames[u]
  BY <1>1, <1>6, OneFrame
<1>7. Running(TRUE) \in Bridge /\ Running(TRUE).phase = bridges[t].phase /\ Running(TRUE).open = bridges[t].open
      /\ Running(FALSE) \in Bridge /\ Running(FALSE).phase = bridges[t].phase /\ Running(FALSE).open = bridges[t].open
  BY <1>1 DEF Bridge
<1>8. \A qs \in SUBSET Questions : Open(qs) \in Bridge /\ Open(qs).phase = bridges[t].phase /\ Open(qs).open = qs
  BY <1>1 DEF Bridge
<1>9. bridges[t].open \subseteq Questions
  BY <1>1 DEF Bridge
<1> HIDE DEF Running, Open
<1>10. CASE e.type = "start" /\ SetBridge(t, Running(TRUE)) /\ UNCHANGED frames
  <2>1. /\ e \notin Speaks /\ e \notin Ends
        /\ \A q \in Questions : e \notin AskOf(q) /\ e \notin CancelOf(q)
    BY <1>10 DEF Speaks, Ends, AskOf, CancelOf
  <2>2. PassedOn(t, e)
    BY <1>3, <1>10, <2>1, SilencePasses
  <2> QED
    BY <1>3, <1>5, <1>7, <1>10, <2>1, <2>2
<1>11. CASE e.type = "token" /\ ToPage(t, <<e>>) /\ UNCHANGED bridges
  <2>1. /\ e \in Speaks /\ e \notin Ends /\ e \in PageFrame
        /\ e \in RunsFrame /\ e \notin EndsFrame /\ e \notin AcceptsFrame
        /\ \A q \in Questions : e \notin AskOf(q) /\ e \notin CancelOf(q) /\ e \notin Raises(q) /\ e \notin Drops(q)
    BY <1>4, <1>11
       DEF Speaks, Ends, AskOf, CancelOf, RunsFrame, EndsFrame, AcceptsFrame, Raises, Drops, PageFrame, GatewayEvent
  <2>2. pages[t].socket => PassedOn(t, e)
    BY <1>1, <1>3, <1>11, <2>1, FramePasses
  <2> QED
    BY <1>1, <1>3, <1>5, <1>6, <1>11, <2>1, <2>2
<1>12. CASE e.type \in {"done", "turn_error"} /\ SetBridge(t, Running(FALSE)) /\ ToPage(t, <<e>>)
  <2>1. /\ e \notin Speaks /\ e \in Ends /\ e \in PageFrame
        /\ e \notin RunsFrame /\ e \in EndsFrame /\ e \notin AcceptsFrame
        /\ \A q \in Questions : e \notin AskOf(q) /\ e \notin CancelOf(q) /\ e \notin Raises(q) /\ e \notin Drops(q)
    BY <1>4, <1>12
       DEF Speaks, Ends, AskOf, CancelOf, RunsFrame, EndsFrame, AcceptsFrame, Raises, Drops, PageFrame, GatewayEvent
  <2>2. pages[t].socket => PassedOn(t, e)
    BY <1>1, <1>3, <1>12, <2>1, FramePasses
  <2> QED
    BY <1>3, <1>5, <1>6, <1>7, <1>12, <2>1, <2>2
<1>13. CASE /\ e.type = "ask" /\ SetBridge(t, Open(bridges[t].open \cup {e.about}))
            /\ ToPage(t, <<FrameOf("request", e.about)>>)
  <2>1. e.about \in Questions /\ e \notin Speaks /\ e \notin Ends
        /\ \A q \in Questions : (e \in AskOf(q) <=> q = e.about) /\ e \notin CancelOf(q)
    BY <1>4, <1>13 DEF Speaks, Ends, AskOf, CancelOf, GatewayEvent
  <2>2. PICK f \in PageFrame : f = FrameOf("request", e.about)
    BY <2>1, Codings
  <2>3. /\ f \notin RunsFrame /\ f \notin EndsFrame /\ f \notin AcceptsFrame
        /\ \A q \in Questions : (f \in Raises(q) <=> q = e.about) /\ f \notin Drops(q)
    BY <2>2 DEF RunsFrame, EndsFrame, AcceptsFrame, Raises, Drops, FrameOf
  <2>4. pages[t].socket => PassedOn(t, e)
    BY <1>1, <1>3, <1>13, <2>1, <2>2, <2>3, FramePasses
  <2>5. bridges[t].open \cup {e.about} \in SUBSET Questions
    BY <1>9, <2>1
  <2> QED
    BY <1>3, <1>5, <1>6, <1>8, <1>13, <2>1, <2>2, <2>4, <2>5
<1>14. CASE /\ e.type = "cancel" /\ SetBridge(t, Open(bridges[t].open \ {e.about}))
            /\ ToPage(t, IF e.about \in bridges[t].open THEN <<FrameOf("request_cancel", e.about)>> ELSE <<>>)
  <2>1. e.about \in Questions /\ e \notin Speaks /\ e \notin Ends
        /\ \A q \in Questions : e \notin AskOf(q) /\ (e \in CancelOf(q) <=> q = e.about)
    BY <1>4, <1>14 DEF Speaks, Ends, AskOf, CancelOf, GatewayEvent
  <2>2. bridges[t].open \ {e.about} \in SUBSET Questions
    BY <1>9
  <2>3. CASE e.about \in bridges[t].open
    <3>1. PICK f \in PageFrame : f = FrameOf("request_cancel", e.about)
      BY <2>1, Codings
    <3>2. /\ f \notin RunsFrame /\ f \notin EndsFrame /\ f \notin AcceptsFrame
          /\ \A q \in Questions : f \notin Raises(q) /\ (f \in Drops(q) <=> q = e.about)
      BY <3>1 DEF RunsFrame, EndsFrame, AcceptsFrame, Raises, Drops, FrameOf
    <3>3. ToPage(t, <<f>>)
      BY <1>14, <2>3, <3>1
    <3>4. pages[t].socket => PassedOn(t, e)
      BY <1>1, <1>3, <2>1, <3>2, <3>3, FramePasses
    <3> QED
      BY <1>3, <1>5, <1>6, <1>8, <1>14, <2>1, <2>2, <3>3, <3>4
  <2>4. CASE e.about \notin bridges[t].open
    <3>1. ToPage(t, <<>>)
      BY <1>14, <2>4
    <3>2. UNCHANGED frames
      <4>1. frames \in [Tabs -> Seq(PageFrame)] /\ \A u \in Tabs : frames[u] \o <<>> = frames[u]
        BY <1>1 DEF ChatShape
      <4> QED
        BY <3>1, <4>1 DEF ToPage
    <3>3. t \in Attached
      BY <1>3 DEF Attached
    <3>4. CardsFollow(t) /\ pages[t].socket => PassedOn(t, e)
      BY <1>3, <2>1, <2>4, <3>2, <3>3, SilencePasses DEF CardsFollow
    <3> QED
      BY <1>3, <1>5, <1>8, <1>14, <2>1, <2>2, <3>2, <3>4
  <2> QED
    BY <2>3, <2>4
<1>15. CASE e.type = "lost" /\ Fail(t, "gateway_disconnected") /\ UNCHANGED frames
  <2>1. bridges'[t].phase = "closing" /\ \A u \in Tabs \ {t} : bridges'[u] = bridges[u]
    BY <1>1, <1>15, BridgeEnds DEF Codes
  <2>2. \A u \in Tabs \ {t} : events'[u] = events[u]
    BY <1>3
  <2>3. Beside(t) /\ ReceiptsKept
    BY <1>3, <1>15, <2>1, <2>2, ReceiptsSame DEF Beside
  <2>4. t \notin Repeaters => SentOnce(t)'
    BY <1>3, <2>3, SentKept DEF FollowInv, Follows
  <2> QED
    BY <1>3, <2>1, <2>3, <2>4, EndsFollow
<1> QED
  BY <1>2, <1>10, <1>11, <1>12, <1>13, <1>14, <1>15 DEF Upstream, Running, Open

(* Every open question is among those that a new bridge repeats to its page.  *)
LEMMA AllAsked ==
    ASSUME NEW S, IsFiniteSet(S), NEW asked \in [1 .. Cardinality(S) -> S], IsInjective(asked), NEW q \in S
    PROVE  \E k \in 1 .. Cardinality(S) : asked[k] = q
<1> DEFINE n == Cardinality(S)
<1>1. n \in Nat
  BY FS_CardinalityType
<1>2. IsFiniteSet(1 .. n) /\ Cardinality(1 .. n) = n
  BY <1>1, FS_Interval
<1>3. asked \in Injection(1 .. n, S)
  BY DEF Injection
<1>4. asked \in Surjection(1 .. n, S)
  BY <1>2, <1>3, FS_Injection
<1> QED
  BY <1>4 DEF Surjection

(* A snapshot, and behind it the questions that it says are open.             *)
SnapshotFirst(fs, snap) ==
    /\ 1 \in DOMAIN fs /\ fs[1] = snap
    /\ \A k \in DOMAIN fs : k # 1 => k \in Int /\ 1 < k /\ \E q \in snap.open : fs[k] = FrameOf("request", q)
    /\ \A q \in snap.open : \E k \in DOMAIN fs : k # 1 /\ fs[k] = FrameOf("request", q)

LEMMA SnapshotShows ==
    ASSUME NEW snap \in PageFrame, snap.type = "snapshot", NEW fs, SnapshotFirst(fs, snap), NEW page
    PROVE  /\ After(fs, RunsFrame \cup {}, EndsFrame, page.running) <=> snap.running
           /\ After(fs, RunsFrame \cup AcceptsFrame, EndsFrame, page.running) <=> snap.running
           /\ \A q \in Questions : After(fs, Raises(q), Drops(q), page.cards[q] # "absent") <=> q \in snap.open
           /\ \E k \in DOMAIN fs : fs[k].type = "snapshot"
<1>1. 1 \in DOMAIN fs /\ fs[1] = snap /\ snap.running \in BOOLEAN /\ snap.open \in SUBSET Questions
  BY FrameKinds DEF SnapshotFirst
<1>2. \A k \in DOMAIN fs : k # 1 => k \in Int /\ 1 < k
  BY DEF SnapshotFirst
<1>3. ASSUME NEW k \in DOMAIN fs, k # 1
      PROVE  fs[k] \in PageFrame /\ fs[k].type = "request" /\ fs[k].about \in snap.open
  <2>1. PICK q \in snap.open : fs[k] = FrameOf("request", q)
    BY <1>3 DEF SnapshotFirst
  <2>2. FrameOf("request", q) \in PageFrame
    BY <1>1, Codings
  <2> QED
    BY <2>1, <2>2 DEF FrameOf
<1>4. \A k \in DOMAIN fs : k # 1 => fs[k] \notin RunsFrame \cup {} /\ fs[k] \notin RunsFrame \cup AcceptsFrame
                                    /\ fs[k] \notin EndsFrame /\ \A q : fs[k] \notin Drops(q)
  BY <1>3 DEF RunsFrame, AcceptsFrame, EndsFrame, Drops
<1>5. /\ fs[1] \in RunsFrame \cup {} <=> snap.running
      /\ fs[1] \in RunsFrame \cup AcceptsFrame <=> snap.running
      /\ fs[1] \in EndsFrame <=> ~snap.running
      /\ \A q : fs[1] \notin Raises(q) /\ (fs[1] \in Drops(q) <=> q \notin snap.open)
  BY <1>1 DEF RunsFrame, AcceptsFrame, EndsFrame, Raises, Drops
<1>6. ASSUME NEW On, fs[1] \in On <=> snap.running, \A k \in DOMAIN fs : k # 1 => fs[k] \notin On
      PROVE  After(fs, On, EndsFrame, page.running) <=> snap.running
  <2>1. CASE snap.running
    <3>1. fs[1] \in On /\ \A j \in DOMAIN fs : fs[j] \notin EndsFrame
      BY <1>4, <1>5, <1>6, <2>1
    <3> QED
      BY <1>1, <2>1, <3>1 DEF After
  <2>2. CASE ~snap.running
    <3>1. fs[1] \in EndsFrame /\ \A j \in DOMAIN fs : fs[j] \notin On
      BY <1>4, <1>5, <1>6, <2>2
    <3> QED
      BY <1>1, <2>2, <3>1 DEF After
  <2> QED
    BY <2>1, <2>2
<1>7. ASSUME NEW q \in Questions PROVE After(fs, Raises(q), Drops(q), page.cards[q] # "absent") <=> q \in snap.open
  <2>1. CASE q \in snap.open
    <3>2. PICK k \in DOMAIN fs : k # 1 /\ fs[k] = FrameOf("request", q)
      BY <2>1 DEF SnapshotFirst
    <3>3. fs[k] \in Raises(q)
      BY <1>3, <3>2 DEF Raises, FrameOf
    <3>4. \A j \in DOMAIN fs : fs[j] \notin Drops(q)
      BY <1>4, <1>5, <2>1
    <3> QED
      BY <2>1, <3>2, <3>3, <3>4 DEF After
  <2>2. CASE q \notin snap.open
    <3>1. \A k \in DOMAIN fs : fs[k] \notin Raises(q)
      BY <1>3, <1>5, <2>2 DEF Raises
    <3>2. fs[1] \in Drops(q)
      BY <1>5, <2>2
    <3> QED
      BY <1>1, <2>2, <3>1, <3>2 DEF After
  <2> QED
    BY <2>1, <2>2
<1>8. After(fs, RunsFrame \cup {}, EndsFrame, page.running) <=> snap.running
  BY <1>4, <1>5, <1>6
<1>9. After(fs, RunsFrame \cup AcceptsFrame, EndsFrame, page.running) <=> snap.running
  BY <1>4, <1>5, <1>6
<1> QED
  BY <1>1, <1>7, <1>8, <1>9

LEMMA AttachFollows == ASSUME ChatInv, FollowInv, NEW t \in Tabs, Attach(t) PROVE FollowInv'
<1>1. ChatShape /\ gateway \in GatewayType /\ gateway.open \subseteq gateway.asked
  BY DEF ChatInv, ServerInv, ChatShape
<1> DEFINE b == [NoBridge EXCEPT !.phase = "serving", !.open = gateway.open, !.running = gateway.turn # "idle"]
           n == Cardinality(gateway.open)
           snap == Snapshot(gateway.turn # "idle", gateway.open)
<1>2. /\ b \in Bridge /\ b.phase = "serving" /\ b.open = gateway.open
      /\ SetBridge(t, b) /\ bridges[t].phase = "opening" /\ events' = [events EXCEPT ![t] = <<>>]
      /\ UNCHANGED <<conversation, gateway, commands, pages>>
  BY <1>1 DEF NoBridge, Bridge, GatewayType, Attach
<1>3. IsFiniteSet(gateway.open) /\ n \in Nat /\ gateway.open \in SUBSET Questions
  <2>1. gateway.open \in SUBSET Questions
    BY <1>1 DEF GatewayType
  <2>2. IsFiniteSet(gateway.open)
    BY <2>1, ChatAssumption, FS_Subset
  <2> QED
    BY <2>1, <2>2, FS_CardinalityType
<1>4. PICK asked \in [1 .. n -> gateway.open] :
          /\ IsInjective(asked)
          /\ ToPage(t, <<snap>> \o [k \in DOMAIN asked |-> FrameOf("request", asked[k])])
  BY DEF Attach
<1> DEFINE rest == [k \in DOMAIN asked |-> FrameOf("request", asked[k])]
           fs == <<snap>> \o rest
<1>5. snap \in PageFrame /\ rest \in [1 .. n -> PageFrame] /\ \A k \in 1 .. n : rest[k] = FrameOf("request", asked[k])
  BY <1>1, <1>3, Codings
<1>6. \A q \in gateway.open : \E k \in 1 .. n : asked[k] = q
  BY <1>3, <1>4, AllAsked
<1>7. ToPage(t, fs)
  BY <1>4
<1> HIDE DEF b, rest, snap, n
<1>8. <<snap>> \in Seq(PageFrame) /\ rest \in Seq(PageFrame) /\ Len(rest) = n
  BY <1>3, <1>5
<1>9. /\ fs \in Seq(PageFrame) /\ DOMAIN fs = 1 .. n + 1 /\ fs[1] = snap
      /\ \A k \in 1 .. n : fs[k + 1] = rest[k]
  BY <1>3, <1>5, <1>8
<1> HIDE DEF fs
<1>10. /\ frames'[t] = IF pages[t].socket THEN frames[t] \o fs ELSE frames[t]
       /\ \A u \in Tabs \ {t} : frames'[u] = frames[u]
  BY <1>1, <1>7, <1>9, FramesSent
<1>11. frames[t] = <<>>
  BY <1>2 DEF ChatInv, TabInv, BridgeInStep
<1>12. pages[t].socket => frames'[t] = fs
  BY <1>9, <1>10, <1>11
<1>13. bridges'[t] = b /\ \A u \in Tabs \ {t} : bridges'[u] = bridges[u]
  BY <1>1, <1>2, BridgeSet
<1>14. events'[t] = <<>> /\ \A u \in Tabs \ {t} : events'[u] = events[u]
  BY <1>1, <1>2 DEF ChatShape
<1>15. Beside(t) /\ ReceiptsKept /\ TurnKept
  BY <1>2, <1>10, <1>13, <1>14, ReceiptsSame DEF Beside, TurnKept
<1>16. \A k \in 1 .. n : fs[k + 1] = FrameOf("request", asked[k])
  BY <1>5, <1>9
<1> DEFINE running == gateway.turn # "idle"
<1>17. /\ After(fs, RunsFrame \cup {}, EndsFrame, pages[t].running) <=> running
       /\ After(fs, RunsFrame \cup AcceptsFrame, EndsFrame, pages[t].running) <=> running
       /\ \A q \in Questions : After(fs, Raises(q), Drops(q), pages[t].cards[q] # "absent") <=> q \in gateway.open
       /\ \E k \in DOMAIN fs : fs[k].type = "snapshot"
  <2>1. snap.type = "snapshot" /\ snap.open = gateway.open /\ (snap.running <=> running)
    BY DEF snap, Snapshot
  <2>2. SnapshotFirst(fs, snap)
    <3>1. ASSUME NEW k \in DOMAIN fs, k # 1
          PROVE  k \in Int /\ 1 < k /\ \E q \in snap.open : fs[k] = FrameOf("request", q)
      <4>1. k \in Int /\ 1 < k /\ k - 1 \in 1 .. n /\ (k - 1) + 1 = k
        BY <1>3, <1>9, <3>1
      <4>2. fs[k] = FrameOf("request", asked[k - 1]) /\ asked[k - 1] \in snap.open
        BY <1>16, <2>1, <4>1
      <4> QED
        BY <4>1, <4>2
    <3>2. ASSUME NEW q \in snap.open PROVE \E k \in DOMAIN fs : k # 1 /\ fs[k] = FrameOf("request", q)
      <4>1. PICK k \in 1 .. n : asked[k] = q
        BY <1>6, <2>1
      <4>2. k + 1 \in DOMAIN fs /\ k + 1 # 1 /\ fs[k + 1] = FrameOf("request", q)
        BY <1>3, <1>9, <1>16, <4>1
      <4> QED
        BY <4>2
    <3>3. 1 \in DOMAIN fs /\ fs[1] = snap
      BY <1>3, <1>9
    <3> QED
      BY <3>1, <3>2, <3>3 DEF SnapshotFirst
  <2>3. PICK page : page = pages[t]
    OBVIOUS
  <2> HIDE DEF running
  <2>4. /\ After(fs, RunsFrame \cup {}, EndsFrame, page.running) <=> snap.running
        /\ After(fs, RunsFrame \cup AcceptsFrame, EndsFrame, page.running) <=> snap.running
        /\ \A q \in Questions : After(fs, Raises(q), Drops(q), page.cards[q] # "absent") <=> q \in snap.open
        /\ \E k \in DOMAIN fs : fs[k].type = "snapshot"
    BY <1>5, <2>1, <2>2, SnapshotShows
  <2> QED
    BY <2>1, <2>3, <2>4
<1>18. ASSUME t \notin Repeaters PROVE Follows(t)'
  <2>1. SentOnce(t)'
    BY <1>2, <1>15, <1>18, SentKept DEF FollowInv, Follows
  <2>2. AsksOnce(t)'
    <3>1. DOMAIN events'[t] = {}
      BY <1>14
    <3> QED
      BY <1>1, <1>2, <1>13, <3>1 DEF AsksOnce
  <2>3. ~CallTaken(t)'
    BY <1>2, <1>13 DEF CallTaken
  <2>4. ASSUME pages[t].socket
        PROVE  /\ \A q \in Questions : WillAsk(t, q)' <=> q \in bridges'[t].open
               /\ gateway'.turn = "speaking" => WillRun(t, {})'
               /\ gateway'.turn = "idle" => ~WillRun(t, AcceptsFrame)'
               /\ StopCleared(t)'
               /\ \A q \in Questions : WillOpen(t, q)' <=> q \in gateway'.open
    <3>1. frames'[t] = fs /\ pages'[t] = pages[t] /\ gateway' = gateway /\ bridges'[t].open = gateway.open
      BY <1>2, <1>12, <1>13, <2>4
    <3>7. DOMAIN events'[t] = {}
      BY <1>14
    <3>2. \A q \in Questions : WillAsk(t, q)' <=> q \in gateway.open
      BY <1>17, <3>1 DEF WillAsk
    <3>3. (WillShow(t, {})' <=> running) /\ (WillShow(t, AcceptsFrame)' <=> running)
      BY <1>17, <3>1 DEF WillShow
    <3>4. (WillRun(t, {})' <=> running) /\ (WillRun(t, AcceptsFrame)' <=> running)
      BY <1>14, <3>3, <3>7 DEF WillRun, After
    <3>5. \A q \in Questions : WillOpen(t, q)' <=> q \in gateway.open
      BY <3>1, <3>7 DEF WillOpen, After
    <3>6. StopCleared(t)'
      BY <1>17, <3>1 DEF StopCleared
    <3> QED
      BY <3>1, <3>2, <3>4, <3>5, <3>6
  <2>5. CardsFollow(t)' /\ TurnFollows(t)'
    BY <1>2, <2>3, <2>4 DEF CardsFollow, TurnFollows
  <2> QED
    BY <2>1, <2>2, <2>5 DEF Follows
<1> QED
  BY <1>2, <1>15, <1>18, TabFollows DEF ReceiptsKept

(* What a frame shows on the page that receives it.                           *)
LEMMA ReceivedShows ==
    ASSUME NEW page \in Page, NEW f \in PageFrame, NEW p, p = Received(page, f), f.type # "close"
    PROVE  /\ f \in RunsFrame \cup {} \/ (f \notin EndsFrame /\ page.running) => p.running
           /\ p.running => f \in RunsFrame \cup AcceptsFrame \/ (f \notin EndsFrame /\ page.running)
           /\ p.stopping => page.stopping /\ f.type \notin Clearing
           /\ \A q \in Questions : p.cards[q] # "absent" <=> f \in Raises(q) \/ (f \notin Drops(q) /\ page.cards[q] # "absent")
           /\ p.socket = page.socket
<1> USE DEF RunsFrame, EndsFrame, AcceptsFrame, Raises, Drops, Clearing
<1>1. CASE f.type = "snapshot"
  <2>1. f.running \in BOOLEAN /\ f.open \subseteq Questions
    BY <1>1, FrameKinds
  <2>2. PICK C : C = CardsAfter(page, f.open)
    OBVIOUS
  <2>3. /\ C \in [Questions -> {"absent", "stale", "fresh", "sent"}]
        /\ \A q \in Questions : C[q] # "absent" <=> q \in f.open /\ page.cards[q] # "absent"
    BY <2>2 DEF CardsAfter, Page
  <2>4. p = [page EXCEPT !.running = f.running, !.stopping = FALSE, !.pending = None,
                         !.ready = TRUE, !.cards = C]
    BY <1>1, <2>2 DEF Received
  <2>5. p.running = f.running /\ ~p.stopping /\ p.cards = C /\ p.socket = page.socket
    BY <2>4 DEF Page
  <2> QED
    BY <1>1, <2>1, <2>3, <2>5
<1>2. CASE f.type = "accepted" /\ page.pending = f.about
  <2>1. p = [page EXCEPT !.pending = None, !.running = TRUE, !.uncertain = FALSE, !.draft = FALSE]
    BY <1>2 DEF Received
  <2>2. p.running /\ p.stopping = page.stopping /\ p.cards = page.cards /\ p.socket = page.socket
    BY <2>1 DEF Page
  <2> QED
    BY <1>2, <2>2
<1>3. CASE f.type = "accepted" /\ page.pending # f.about
  <2>1. p = page
    BY <1>3 DEF Received
  <2> QED
    BY <1>3, <2>1
<1>4. CASE f.type = "token"
  <2>1. p = [page EXCEPT !.running = TRUE]
    BY <1>4 DEF Received
  <2>2. p.running /\ p.stopping = page.stopping /\ p.cards = page.cards /\ p.socket = page.socket
    BY <2>1 DEF Page
  <2> QED
    BY <1>4, <2>2
<1>5. CASE f.type = "done"
  <2>1. p = [page EXCEPT !.running = FALSE, !.stopping = FALSE]
    BY <1>5 DEF Received
  <2>2. ~p.running /\ ~p.stopping /\ p.cards = page.cards /\ p.socket = page.socket
    BY <2>1 DEF Page
  <2> QED
    BY <1>5, <2>2
<1>6. CASE f.type = "request"
  <2>1. f.about \in Questions
    BY <1>6, FrameKinds
  <2>2. p = IF page.cards[f.about] \in {"absent", "stale"}
            THEN [page EXCEPT !.cards[f.about] = "fresh"] ELSE page
    BY <1>6 DEF Received
  <2>3. /\ p.running = page.running /\ p.stopping = page.stopping /\ p.socket = page.socket
        /\ p.cards[f.about] # "absent" /\ \A q \in Questions \ {f.about} : p.cards[q] = page.cards[q]
    BY <2>1, <2>2 DEF Page
  <2> QED
    BY <1>6, <2>3
<1>7. CASE f.type = "request_cancel"
  <2>1. f.about \in Questions
    BY <1>7, FrameKinds
  <2>2. p = [page EXCEPT !.cards[f.about] = "absent"]
    BY <1>7 DEF Received
  <2>3. /\ p.running = page.running /\ p.stopping = page.stopping /\ p.socket = page.socket
        /\ p.cards[f.about] = "absent" /\ \A q \in Questions \ {f.about} : p.cards[q] = page.cards[q]
    BY <2>1, <2>2 DEF Page
  <2> QED
    BY <1>7, <2>3
<1>8. CASE f.type = "error"
  <2>1. PICK n : n = Notice(page, f.about)
    OBVIOUS
  <2>2. p = [page EXCEPT !.uncertain = n, !.pending = None, !.stopping = FALSE]
    BY <1>8, <2>1 DEF Received
  <2>3. p.running = page.running /\ ~p.stopping /\ p.cards = page.cards /\ p.socket = page.socket
    BY <2>2 DEF Page
  <2> QED
    BY <1>8, <2>3
<1>9. CASE f.type = "turn_error"
  <2>1. PICK n : n = Notice(page, "gateway_request_failed")
    OBVIOUS
  <2>2. p = [page EXCEPT !.uncertain = n, !.pending = None, !.stopping = FALSE, !.running = FALSE]
    BY <1>9, <2>1 DEF Received
  <2>3. ~p.running /\ ~p.stopping /\ p.cards = page.cards /\ p.socket = page.socket
    BY <2>2 DEF Page
  <2> QED
    BY <1>9, <2>3
<1> QED
  BY <1>1, <1>2, <1>3, <1>4, <1>5, <1>6, <1>7, <1>8, <1>9, FrameKinds

(* What the frames show, the first of them taken.                             *)
LEMMA HeadShown ==
    ASSUME NEW t, frames[t] \in Seq(PageFrame), frames[t] # <<>>, NEW On, NEW Off, NEW page,
           Head(frames[t]) \in On => Head(frames[t]) \notin Off
    PROVE  After(frames[t], On, Off, page.running) <=>
               After(Tail(frames[t]), On, Off, Head(frames[t]) \in On \/ (Head(frames[t]) \notin Off /\ page.running))
<1> DEFINE x == page.running
<1>1. Head(frames[t]) = frames[t][1]
  BY TailFacts
<1> HIDE DEF x
<1>2. After(frames[t], On, Off, x) <=>
          After(Tail(frames[t]), On, Off, Head(frames[t]) \in On \/ (Head(frames[t]) \notin Off /\ x))
  BY <1>1, AfterFirst, Z3T(30)
<1> QED
  BY <1>2 DEF x

LEMMA HeadCarded ==
    ASSUME NEW t, frames[t] \in Seq(PageFrame), frames[t] # <<>>, NEW q, NEW page
    PROVE  After(frames[t], Raises(q), Drops(q), page.cards[q] # "absent") <=>
               After(Tail(frames[t]), Raises(q), Drops(q),
                     Head(frames[t]) \in Raises(q) \/ (Head(frames[t]) \notin Drops(q) /\ page.cards[q] # "absent"))
<1> DEFINE x == page.cards[q] # "absent"
           A == Raises(q)
           C == Drops(q)
<1>1. Head(frames[t]) = frames[t][1] /\ (frames[t][1] \in A => frames[t][1] \notin C)
  BY TailFacts, Apartness
<1> HIDE DEF x, A, C
<1>2. After(frames[t], A, C, x) <=>
          After(Tail(frames[t]), A, C, Head(frames[t]) \in A \/ (Head(frames[t]) \notin C /\ x))
  BY <1>1, AfterFirst, Z3T(30)
<1> QED
  BY <1>2 DEF x, A, C

LEMMA AfterGrows ==
    ASSUME NEW s, NEW On, NEW Off, NEW x, NEW y, x => y, After(s, On, Off, x)
    PROVE  After(s, On, Off, y)
BY AfterMore

LEMMA ShownGrows ==
    ASSUME NEW s, NEW On, NEW Off, NEW p, NEW f, NEW page,
           p.running => f \in On \/ (f \notin Off /\ page.running),
           After(s, On, Off, p.running)
    PROVE  After(s, On, Off, f \in On \/ (f \notin Off /\ page.running))
BY DEF After

LEMMA ReceiveFrameFollows == ASSUME ChatInv, FollowInv, NEW t \in Tabs, ReceiveFrame(t) PROVE FollowInv'
<1>1. ChatShape /\ pages[t] \in Page /\ frames[t] \in Seq(PageFrame) /\ frames[t] # <<>>
  BY DEF ChatInv, ServerInv, ChatShape, ReceiveFrame
<1>2. PICK f \in PageFrame : f = Head(frames[t])
  BY <1>1, TailFacts
<1>3. PICK p \in Page : p = Received(pages[t], f)
  BY <1>1, ReceivedFacts
<1>4. /\ SetPage(t, p) /\ frames' = [frames EXCEPT ![t] = Tail(@)]
      /\ UNCHANGED <<conversation, bridges, gateway, events, commands>>
  BY <1>2, <1>3 DEF ReceiveFrame
<1>5. pages'[t] = p /\ \A u \in Tabs \ {t} : pages'[u] = pages[u]
  BY <1>1, <1>4, PageSet
<1>6. frames'[t] = Tail(frames[t]) /\ \A u \in Tabs \ {t} : frames'[u] = frames[u]
  BY <1>1, <1>4 DEF ChatShape
<1>7. Beside(t) /\ ReceiptsKept /\ TurnKept
  BY <1>4, <1>5, <1>6, ReceiptsSame DEF Beside, TurnKept
<1>8. /\ t \in Attached' <=> t \in Attached
      /\ CallTaken(t)' <=> CallTaken(t)
      /\ Lost(t)' <=> Lost(t)
      /\ \A q : WillOpen(t, q)' <=> WillOpen(t, q)
      /\ AsksOnce(t) => AsksOnce(t)'
  BY <1>4 DEF Attached, CallTaken, Lost, WillOpen, AsksOnce
<1>9. ASSUME t \notin Repeaters PROVE Follows(t)'
  <2>1. Follows(t)
    BY <1>9 DEF FollowInv
  <2>2. SentOnce(t)'
    BY <1>4, <1>7, <2>1, SentKept DEF Follows
  <2>3. CASE f.type = "close"
    <3>1. ~p.socket
      BY <1>1, <1>2, <1>3, <2>3, DisconnectedFacts DEF Received
    <3>2. CardsFollow(t)' /\ TurnFollows(t)'
      BY <1>5, <3>1 DEF CardsFollow, TurnFollows
    <3> QED
      BY <1>8, <2>1, <2>2, <3>2 DEF Follows
  <2>4. CASE f.type # "close"
    <3>1. /\ f \in RunsFrame \cup {} \/ (f \notin EndsFrame /\ pages[t].running) => p.running
          /\ p.running => f \in RunsFrame \cup AcceptsFrame \/ (f \notin EndsFrame /\ pages[t].running)
          /\ p.stopping => pages[t].stopping /\ f.type \notin Clearing
          /\ \A q \in Questions :
                p.cards[q] # "absent" <=> f \in Raises(q) \/ (f \notin Drops(q) /\ pages[t].cards[q] # "absent")
          /\ p.socket = pages[t].socket
      BY <1>1, <1>3, <2>4, ReceivedShows
    <3>2. WillShow(t, {}) => WillShow(t, {})'
      <4>1. WillShow(t, {}) =>
                After(Tail(frames[t]), RunsFrame \cup {}, EndsFrame,
                      f \in RunsFrame \cup {} \/ (f \notin EndsFrame /\ pages[t].running))
        BY <1>1, <1>2, HeadShown, Apartness DEF WillShow
      <4>2. After(Tail(frames[t]), RunsFrame \cup {}, EndsFrame,
                  f \in RunsFrame \cup {} \/ (f \notin EndsFrame /\ pages[t].running))
              => After(Tail(frames[t]), RunsFrame \cup {}, EndsFrame, p.running)
        BY <3>1, AfterGrows
      <4> QED
        BY <1>5, <1>6, <4>1, <4>2 DEF WillShow
    <3>3. WillShow(t, AcceptsFrame)' => WillShow(t, AcceptsFrame)
      <4>1. After(Tail(frames[t]), RunsFrame \cup AcceptsFrame, EndsFrame,
                  f \in RunsFrame \cup AcceptsFrame \/ (f \notin EndsFrame /\ pages[t].running))
              => WillShow(t, AcceptsFrame)
        BY <1>1, <1>2, HeadShown, Apartness DEF WillShow
      <4>2. After(Tail(frames[t]), RunsFrame \cup AcceptsFrame, EndsFrame, p.running)
              => After(Tail(frames[t]), RunsFrame \cup AcceptsFrame, EndsFrame,
                       f \in RunsFrame \cup AcceptsFrame \/ (f \notin EndsFrame /\ pages[t].running))
        <5>1. p.running => f \in RunsFrame \cup AcceptsFrame \/ (f \notin EndsFrame /\ pages[t].running)
          BY <3>1
        <5> QED
          BY <5>1, ShownGrows
      <4> QED
        BY <1>5, <1>6, <4>1, <4>2 DEF WillShow
    <3>4. \A q \in Questions : WillAsk(t, q)' <=> WillAsk(t, q)
      <4> SUFFICES ASSUME NEW q \in Questions PROVE WillAsk(t, q)' <=> WillAsk(t, q)
        OBVIOUS
      <4>1. WillAsk(t, q) <=>
                After(Tail(frames[t]), Raises(q), Drops(q),
                      f \in Raises(q) \/ (f \notin Drops(q) /\ pages[t].cards[q] # "absent"))
        BY <1>1, <1>2, HeadCarded DEF WillAsk
      <4>2. After(Tail(frames[t]), Raises(q), Drops(q), p.cards[q] # "absent") <=>
                After(Tail(frames[t]), Raises(q), Drops(q),
                      f \in Raises(q) \/ (f \notin Drops(q) /\ pages[t].cards[q] # "absent"))
        BY <3>1, AfterSame
      <4> QED
        BY <1>5, <1>6, <4>1, <4>2 DEF WillAsk
    <3>5. WillRun(t, {}) => WillRun(t, {})'
      BY <1>4, <3>2, AfterGrows DEF WillRun
    <3>6. WillRun(t, AcceptsFrame)' => WillRun(t, AcceptsFrame)
      BY <1>4, <3>3, AfterGrows DEF WillRun
    <3>7. p.stopping /\ StopCleared(t) => StopCleared(t)'
      <4>1. CASE \E k \in DOMAIN events[t] : events[t][k] \in Ends
        BY <1>4, <4>1 DEF StopCleared
      <4>2. ASSUME p.stopping, NEW k \in DOMAIN frames[t], frames[t][k].type \in Clearing PROVE StopCleared(t)'
        <5>1. f = frames[t][1]
          BY <1>1, <1>2, TailFacts
        <5>2. k # 1
          BY <3>1, <4>2, <5>1
        <5>3. k - 1 \in DOMAIN Tail(frames[t]) /\ Tail(frames[t])[k - 1] = frames[t][k]
          BY <1>1, <5>2, TailFacts
        <5>4. k - 1 \in DOMAIN frames'[t] /\ frames'[t][k - 1].type \in Clearing
          BY <1>6, <4>2, <5>3
        <5> QED
          BY <5>4 DEF StopCleared, Clearing
      <4> QED
        BY <4>1, <4>2 DEF StopCleared, Clearing
    <3>8. CardsFollow(t)'
      BY <1>4, <1>5, <1>8, <2>1, <3>1, <3>4 DEF Follows, CardsFollow
    <3>9. TurnFollows(t)'
      <4> SUFFICES ASSUME t \in Attached', p.socket, ~Lost(t)'
                   PROVE  /\ gateway.turn = "speaking" => WillRun(t, {})'
                          /\ gateway.turn = "idle" => ~WillRun(t, AcceptsFrame)'
                          /\ gateway.turn = "idle" /\ p.stopping => StopCleared(t)'
                          /\ gateway.turn = "idle" /\ CallTaken(t)' => ~After(events[t], Speaks, Ends, TRUE)
                          /\ \A q \in Questions : WillOpen(t, q)' <=> q \in gateway.open
        BY <1>4, <1>5 DEF TurnFollows
      <4>1. /\ gateway.turn = "speaking" => WillRun(t, {})
            /\ gateway.turn = "idle" => ~WillRun(t, AcceptsFrame)
            /\ gateway.turn = "idle" /\ pages[t].stopping => StopCleared(t)
            /\ gateway.turn = "idle" /\ CallTaken(t) => ~After(events[t], Speaks, Ends, TRUE)
            /\ \A q \in Questions : WillOpen(t, q) <=> q \in gateway.open
        BY <1>8, <2>1, <3>1 DEF Follows, TurnFollows
      <4> QED
        BY <1>8, <3>1, <3>5, <3>6, <3>7, <4>1
    <3> QED
      BY <1>8, <2>1, <2>2, <3>8, <3>9 DEF Follows
  <2> QED
    BY <2>3, <2>4
<1>10. bridges[t].phase # "none" \/ TurnKept
  BY <1>7
<1> QED
  BY <1>7, <1>9, TabFollows DEF ReceiptsKept

LEMMA FollowStarts == ChatInit => FollowInv
<1> SUFFICES ASSUME ChatInit, NEW t \in Tabs \ Repeaters PROVE Follows(t)
  BY DEF FollowInv
<1>1. t \notin Attached
  BY DEF ChatInit, NoBridge, Attached
<1>2. DOMAIN commands[t] = {}
  BY DEF ChatInit
<1> QED
  BY <1>1, <1>2 DEF Follows, CardsFollow, TurnFollows, AsksOnce, SentOnce

LEMMA FollowStep == ChatInv /\ FollowInv /\ [ChatNext /\ Unhurried]_chatVars => FollowInv'
<1> SUFFICES ASSUME ChatInv, FollowInv, [ChatNext /\ Unhurried]_chatVars PROVE FollowInv'
  OBVIOUS
<1>1. CASE UNCHANGED chatVars
  <2> SUFFICES ASSUME NEW t \in Tabs \ Repeaters PROVE Follows(t)'
    BY DEF FollowInv
  <2>1. ChatShape /\ Follows(t)
    BY DEF ChatInv, ServerInv, FollowInv
  <2>2. SentStays(t)
    BY <1>1 DEF SentStays, Receipt, chatVars
  <2> QED
    BY <1>1, <2>1, <2>2, FollowsStays DEF chatVars
<1>2. CASE GatewayNext
  BY <1>2, GatewayNextFollows
<1>3. ASSUME NEW t \in Tabs, PageNext(t), Unhurried PROVE FollowInv'
  BY <1>3, ConnectFollows, RepeatFollows, PressStopFollows, ReceiveFrameFollows, LoseBrowserFollows,
     SubmitFollows, AnswerRequestFollows DEF PageNext
<1>4. ASSUME NEW t \in Tabs, BridgeNext(t) PROVE FollowInv'
  BY <1>4, AttachFollows, BridgeSubmitFollows, CallAcceptedFollows, CallFailedFollows, AnswerFollows,
     InterruptFollows, DetachFollows, UpstreamFollows, TearDownFollows, CannotAttachFollows, ServerDiesFollows
     DEF BridgeNext, BridgeStep
<1> QED
  BY <1>1, <1>2, <1>3, <1>4 DEF ChatNext

(* When nothing is on its way, what the page will show is what it shows.      *)
LEMMA SettledShows == FollowInv => PageFollowsTurn
<1> SUFFICES ASSUME FollowInv, NEW t \in Tabs \ Repeaters, Settled(t)
             PROVE  /\ gateway.turn = "speaking" => pages[t].running
                    /\ pages[t].running => gateway.turn # "idle"
                    /\ pages[t].stopping => gateway.turn # "idle"
                    /\ \A q \in Questions : pages[t].cards[q] # "absent" <=> q \in gateway.open
  BY DEF PageFollowsTurn
<1>1. DOMAIN events[t] = {} /\ DOMAIN frames[t] = {}
  BY DEF Settled
<1>2. t \in Attached /\ pages[t].socket
  BY DEF Settled, Attached
<1>3. ~Lost(t) /\ ~StopCleared(t)
  BY <1>1 DEF Lost, Ended, StopCleared, Settled
<1>4. \A More : WillRun(t, More) <=> pages[t].running
  BY <1>1 DEF WillRun, WillShow, After
<1>5. \A q \in Questions : /\ WillAsk(t, q) <=> pages[t].cards[q] # "absent"
                           /\ WillOpen(t, q) <=> q \in bridges[t].open
  BY <1>1 DEF WillAsk, WillOpen, After
<1>6. CardsFollow(t) /\ TurnFollows(t)
  BY DEF FollowInv, Follows
<1> QED
  BY <1>2, <1>3, <1>4, <1>5, <1>6 DEF CardsFollow, TurnFollows

(* When nothing is on its way to the page of a tab that does not repeat its   *)
(* messages and nothing it sent is waiting, the page shows a turn that        *)
(* speaks, shows no turn and no stop that is not there, and asks exactly the  *)
(* questions that are open, for any number of tabs, questions, messages and   *)
(* losses, as long as no page sends a message while an error for an earlier   *)
(* command may still arrive.                                                  *)
THEOREM PagesFollowTheTurn == ChatSpec /\ [][Unhurried]_chatVars => []PageFollowsTurn
<1>1. ChatInit => ChatInv /\ FollowInv
  BY ChatStarts, FollowStarts
<1>2. ChatInv /\ FollowInv /\ [ChatNext]_chatVars /\ [Unhurried]_chatVars => (ChatInv /\ FollowInv)'
  BY ChatStep, FollowStep
<1> QED
  BY <1>1, <1>2, SettledShows, PTL DEF ChatSpec
=============================================================================
