------------------------- MODULE AsyncClientsProofs -------------------------
(***************************************************************************)
(* What AsyncClients guarantees for any number of tasks, chunks, attempts  *)
(* and cancellations: a target is replaced only by a whole file, no thread *)
(* writes to a file that is gone unless it was abandoned, what is left     *)
(* open has one of two causes, and only a failing clean-up hides a         *)
(* cancellation.                                                           *)
(*                                                                         *)
(* None of these is inductive.  They need how far the file of a task has   *)
(* come (Writes), what becomes of a cancellation that is held back         *)
(* (Holding), and who may have opened and who closes the connection pools  *)
(* (Closing).                                                              *)
(***************************************************************************)
EXTENDS AsyncClients, TLAPS

\* A file has what was read, but for what its thread still writes or failed to
\* write; unless it was abandoned, a thread outlives its task only in the storage
\* client.
Writes(t) ==
    /\ task[t].pc \in {"asking", "requesting", "reading", "writing", "backoff"} =>
         task[t].job \in Downloads
    /\ task[t].pc \in {"idle", "asking", "requesting", "reading", "backoff"} =>
         file[t].length = file[t].read
    /\ task[t].pc = "reading" => thread[t] = "none" /\ file[t].exists /\ file[t].open
    /\ task[t].pc = "requesting" => file[t].exists
    /\ task[t].pc = "writing" => thread[t] # "none" /\ file[t].exists /\ file[t].open
    /\ thread[t] # "none" => task[t].pc \in {"writing", "done"}
    /\ thread[t] \in {"running", "written", "failed"} =>
         task[t].pc = "writing" \/ task[t].job = "storage_download"
    /\ thread[t] = "running" => file[t].length + 1 = file[t].read
    /\ thread[t] = "written" => file[t].length = file[t].read
    /\ task[t].pc \notin {"requesting", "reading", "writing", "done"} => ~file[t].exists
    /\ task[t].pc \notin {"reading", "writing"} => ~file[t].open /\ ~file[t].response

\* The outcome of a task, and what has become of its file.
Ended(t) ==
    /\ task[t].pc # "done" => task[t].outcome = "none"
    /\ t \in put => task[t].job \in Downloads /\ task[t].outcome = "ok"
    /\ task[t].job \in Downloads /\ task[t].outcome = "ok" => t \in put
    /\ task[t].pc = "done" /\ file[t].exists =>
         task[t].job = "storage_download" /\ task[t].outcome = "canceled"

\* A task that was canceled and goes on holds that back.
Holding(t) ==
    /\ task[t].pc \in {"idle", "asking", "requesting", "reading", "backoff"} =>
         task[t].held = "none"
    /\ task[t].pc = "writing" => task[t].held \in {"none", "canceled"}
    /\ task[t].pc = "joining" /\ task[t].held = "interrupted" => task[t].job = "objects_session"
    /\ task[t].pc # "done" /\ task[t].cancels > 0 =>
         \/ task[t].pc = "writing" /\ task[t].job = "objects_download" /\ task[t].held = "canceled"
         \/ task[t].pc = "joining" /\ task[t].held \in {"canceled", "interrupted"}
    /\ task[t].pc = "done" /\ task[t].cancels > 0 =>
         \/ task[t].outcome = "canceled"
         \/ task[t].job \in Downloads /\ file[t].lost
         \/ task[t].job = "objects_session" /\ closeTask = "failed"

NoneOpen == \A p \in ObjectsPools : pool[p] # "open"
Closers == {"objects_session", "objects_close"}

\* The one session opens the pools.  While it does, only another task can have
\* closed the client; once it is done, or the close task has ended by itself, no
\* pool is open that the close task was to close.
Closing ==
    /\ closeTask = "none" <=> "objects" \notin closed
    /\ closeTask \in {"ok", "failed"} => NoneOpen
    /\ \A s, t \in Tasks :
         task[s].job = "objects_session" /\ task[t].job = "objects_session" => s = t
    /\ ~NoneOpen => \E t \in Tasks : task[t].job = "objects_session" /\ task[t].pc # "idle"
    /\ closeTask # "none" =>
         \E t \in Tasks : \/ task[t].job = "objects_close" /\ task[t].pc # "idle"
                          \/ task[t].job = "objects_session" /\ task[t].pc \in {"joining", "done"}
    /\ \A p \in ObjectsPools : pool[p] = "stray" =>
         \E t \in Tasks : task[t].job = "objects_close" /\ task[t].pc # "idle"
    /\ \A t \in Tasks :
         /\ task[t].pc \in {"entering", "inside"} => task[t].job = "objects_session"
         /\ task[t].pc = "joining" => task[t].job \in Closers /\ closeTask # "none"
         /\ task[t].pc = "done" /\ task[t].job = "objects_close" => ClosingOver
         /\ task[t].pc = "done" /\ task[t].job = "objects_session" => ClosingOver \/ NoneOpen

IInv ==
    /\ TypeOK
    /\ \A t \in Tasks : Writes(t) /\ Ended(t) /\ Holding(t)
    /\ target \in {"old"} \cup put
    /\ Closing

-----------------------------------------------------------------------------
(* Types, and who moves *)

LEMMA FileChanges ==
    ASSUME NEW f \in FileState
    PROVE  /\ NoFile \in FileState
           /\ [NoFile EXCEPT !.exists = TRUE] \in FileState
           /\ Removed(f) \in FileState /\ Lost(f) \in FileState
           /\ \A b \in BOOLEAN : [Removed(f) EXCEPT !.exists = b] \in FileState
           /\ [f EXCEPT !.exists = TRUE, !.open = TRUE, !.response = TRUE] \in FileState
           /\ [f EXCEPT !.open = TRUE, !.response = TRUE] \in FileState
           /\ f.read < Chunks => [f EXCEPT !.read = @ + 1] \in FileState
           /\ f.length < Chunks => [f EXCEPT !.length = @ + 1] \in FileState
<1>0. Chunks \in Nat /\ 0 \in 0..Chunks /\ f.read \in 0..Chunks /\ f.length \in 0..Chunks
  BY ClientConstants DEF FileState
<1>1. NoFile \in FileState
  BY <1>0, Zenon DEF NoFile, FileState
<1>2. [NoFile EXCEPT !.exists = TRUE] \in FileState
  BY <1>1, Zenon DEF FileState
<1>a. Removed(f) \in FileState
  BY Zenon DEF Removed, FileState
<1>b. Lost(f) \in FileState /\ \A b \in BOOLEAN : [Removed(f) EXCEPT !.exists = b] \in FileState
  BY <1>a, Zenon DEF Lost, FileState
<1>3. /\ [f EXCEPT !.exists = TRUE, !.open = TRUE, !.response = TRUE] \in FileState
      /\ [f EXCEPT !.open = TRUE, !.response = TRUE] \in FileState
  BY Zenon DEF FileState
<1>4. f.read < Chunks => [f EXCEPT !.read = @ + 1] \in FileState
  <2> HAVE f.read < Chunks
  <2>1. f.read + 1 \in 0..Chunks
    BY <1>0
  <2>2. QED
    BY <2>1, Zenon DEF FileState
<1>5. f.length < Chunks => [f EXCEPT !.length = @ + 1] \in FileState
  <2> HAVE f.length < Chunks
  <2>1. f.length + 1 \in 0..Chunks
    BY <1>0
  <2>2. QED
    BY <2>1, Zenon DEF FileState
<1>6. QED
  BY <1>1, <1>2, <1>a, <1>b, <1>3, <1>4, <1>5

LEMMA FilesChange ==
    ASSUME TypeOK, NEW t \in Tasks
    PROVE  /\ [file EXCEPT ![t] = NoFile] \in [Tasks -> FileState]
           /\ [file EXCEPT ![t] = [NoFile EXCEPT !.exists = TRUE]] \in [Tasks -> FileState]
           /\ [file EXCEPT ![t] = Removed(@)] \in [Tasks -> FileState]
           /\ [file EXCEPT ![t] = Lost(@)] \in [Tasks -> FileState]
           /\ \A b \in BOOLEAN :
                [file EXCEPT ![t] = [Removed(@) EXCEPT !.exists = b]] \in [Tasks -> FileState]
           /\ [file EXCEPT ![t].exists = TRUE, ![t].open = TRUE, ![t].response = TRUE]
                \in [Tasks -> FileState]
           /\ [file EXCEPT ![t].open = TRUE, ![t].response = TRUE] \in [Tasks -> FileState]
           /\ file[t].read < Chunks => [file EXCEPT ![t].read = @ + 1] \in [Tasks -> FileState]
           /\ file[t].length < Chunks => [file EXCEPT ![t].length = @ + 1] \in [Tasks -> FileState]
<1> DEFINE With(f) == [file EXCEPT ![t] = f]
<1>1. file \in [Tasks -> FileState] /\ file[t] \in FileState
  BY DEF TypeOK
<1>2. \A f \in FileState : With(f) \in [Tasks -> FileState]
  BY <1>1
<1>3. /\ [file EXCEPT ![t] = Removed(@)] = With(Removed(file[t]))
      /\ [file EXCEPT ![t] = Lost(@)] = With(Lost(file[t]))
      /\ \A b \in BOOLEAN : [file EXCEPT ![t] = [Removed(@) EXCEPT !.exists = b]]
                               = With([Removed(file[t]) EXCEPT !.exists = b])
      /\ [file EXCEPT ![t].exists = TRUE, ![t].open = TRUE, ![t].response = TRUE]
           = With([file[t] EXCEPT !.exists = TRUE, !.open = TRUE, !.response = TRUE])
      /\ [file EXCEPT ![t].open = TRUE, ![t].response = TRUE]
           = With([file[t] EXCEPT !.open = TRUE, !.response = TRUE])
      /\ [file EXCEPT ![t].read = @ + 1] = With([file[t] EXCEPT !.read = @ + 1])
      /\ [file EXCEPT ![t].length = @ + 1] = With([file[t] EXCEPT !.length = @ + 1])
  OBVIOUS
<1>4. QED
  <2> HIDE DEF With
  <2>1. /\ [file EXCEPT ![t] = NoFile] = With(NoFile)
        /\ [file EXCEPT ![t] = [NoFile EXCEPT !.exists = TRUE]] = With([NoFile EXCEPT !.exists = TRUE])
    BY DEF With
  <2>2. QED
    BY <1>1, <1>2, <1>3, <2>1, FileChanges

\* A step of t is none of another task, and keeps the job of t.
TaskMoves(t) ==
    /\ task' \in [Tasks -> TaskState]
    /\ task'[t].job = task[t].job
    /\ \A s \in Tasks \ {t} : task'[s] = task[s]

FileMoves(t) == file' \in [Tasks -> FileState] /\ \A s \in Tasks \ {t} : file'[s] = file[s]

MovesOnly(t) ==
    /\ TaskMoves(t) /\ FileMoves(t)
    /\ \A s \in Tasks \ {t} : thread'[s] = thread[s] /\ (s \in put' <=> s \in put)

Act(t) ==
    \/ Download(t) \/ ObjectsAnswer(t) \/ BeginAttempt(t) \/ StorageAnswer(t) \/ Broken(t)
    \/ Chunk(t) \/ ThreadEnds(t) \/ AbandonWrite(t) \/ Written(t) \/ Finish(t)
    \/ Enter(t) \/ Entered(t) \/ Exit(t) \/ CloseObjects(t) \/ Joined(t)
    \/ CloseStorage(t) \/ StorageClosed(t) \/ Cancel(t)

LEMMA TasksChange ==
    ASSUME TypeOK, NEW t \in Tasks, NEW pc \in Places
    PROVE  /\ [task EXCEPT ![t].pc = pc] \in [Tasks -> TaskState]
           /\ task[t].n < MaxAttempts =>
                [task EXCEPT ![t].pc = pc, ![t].n = @ + 1] \in [Tasks -> TaskState]
           /\ \A outcome \in Outcomes :
                [task EXCEPT ![t].pc = pc, ![t].outcome = outcome] \in [Tasks -> TaskState]
           /\ \A held \in Holdings :
                [task EXCEPT ![t].pc = pc, ![t].held = held] \in [Tasks -> TaskState]
<1>1. task \in [Tasks -> TaskState] /\ task[t] \in TaskState
  BY DEF TypeOK
<1>2. task[t].n < MaxAttempts => task[t].n + 1 \in 1..MaxAttempts
  BY <1>1, ClientConstants DEF TaskState
<1>3. QED
  BY <1>1, <1>2 DEF TaskState

LEMMA CancelChanges ==
    ASSUME TypeOK, NEW t \in Tasks, NEW pc \in Places, NEW held \in Holdings,
           NEW outcome \in Outcomes, task[t].cancels < MaxCancels
    PROVE  [task EXCEPT ![t].pc = pc, ![t].cancels = @ + 1, ![t].held = held,
                        ![t].outcome = outcome] \in [Tasks -> TaskState]
<1>1. task \in [Tasks -> TaskState] /\ task[t] \in TaskState
  BY DEF TypeOK
<1>2. task[t].cancels + 1 \in 0..MaxCancels
  BY <1>1, ClientConstants DEF TaskState
<1>3. QED
  BY <1>1, <1>2 DEF TaskState

LEMMA TaskSteps ==
    ASSUME TypeOK, NEW t \in Tasks
    PROVE  /\ \A pc \in Places : Goes(t, pc) => TaskMoves(t)
           /\ \A outcome \in Outcomes : Ends(t, outcome) => TaskMoves(t)
           /\ NextAttempt(t) => TaskMoves(t)
           /\ \A held \in Holdings : AcloseObjects(t, held) => TaskMoves(t)
           /\ UNCHANGED task => TaskMoves(t)
<1>1. task \in [Tasks -> TaskState] /\ {"done", "backoff", "joining"} \subseteq Places
      /\ "error" \in Outcomes
  BY DEF TypeOK, Places, Outcomes
<1>2. ASSUME NEW pc \in Places, Goes(t, pc) PROVE TaskMoves(t)
  <2>1. task' \in [Tasks -> TaskState]
    BY <1>2, TasksChange DEF Goes
  <2>2. QED
    BY <1>1, <1>2, <2>1 DEF Goes, TaskMoves
<1>3. ASSUME NEW outcome \in Outcomes, Ends(t, outcome) PROVE TaskMoves(t)
  <2>1. task' \in [Tasks -> TaskState]
    BY <1>1, <1>3, TasksChange DEF Ends
  <2>2. QED
    BY <1>1, <1>3, <2>1 DEF Ends, TaskMoves
<1>4. ASSUME NEW held \in Holdings, AcloseObjects(t, held) PROVE TaskMoves(t)
  <2>1. task' \in [Tasks -> TaskState]
    BY <1>1, <1>4, TasksChange DEF AcloseObjects
  <2>2. QED
    BY <1>1, <1>4, <2>1 DEF AcloseObjects, TaskMoves
<1>5. ASSUME NextAttempt(t) PROVE TaskMoves(t)
  <2>1. CASE task[t].n < MaxAttempts
    <3>1. task' = [task EXCEPT ![t].pc = "backoff", ![t].n = @ + 1]
      BY <1>5, <2>1 DEF NextAttempt
    <3>2. task' \in [Tasks -> TaskState]
      BY <1>1, <2>1, <3>1, TasksChange
    <3>3. QED
      BY <1>1, <3>1, <3>2 DEF TaskMoves
  <2>2. CASE ~(task[t].n < MaxAttempts)
    BY <1>1, <1>3, <1>5, <2>2 DEF NextAttempt
  <2>3. QED
    BY <2>1, <2>2
<1>6. UNCHANGED task => TaskMoves(t)
  BY <1>1 DEF TaskMoves
<1>7. QED
  BY <1>2, <1>3, <1>4, <1>5, <1>6

LEMMA CancelMoves ==
    ASSUME TypeOK, NEW t \in Tasks, Cancel(t)
    PROVE  TaskMoves(t)
<1>1. task \in [Tasks -> TaskState] /\ task[t].pc \in Places /\ task[t].cancels < MaxCancels
  BY DEF TypeOK, TaskState, Cancel
<1>2. PICK pc \in Places, held \in Holdings, outcome \in Outcomes :
        task' = [task EXCEPT ![t].pc = pc, ![t].cancels = @ + 1, ![t].held = held,
                             ![t].outcome = outcome]
  BY <1>1 DEF Cancel, Places, Holdings, Outcomes
<1>3. [task EXCEPT ![t].pc = pc, ![t].cancels = @ + 1, ![t].held = held, ![t].outcome = outcome]
        \in [Tasks -> TaskState]
  BY <1>1, CancelChanges
<1>4. QED
  BY <1>1, <1>2, <1>3 DEF TaskMoves

LEMMA FileSteps ==
    ASSUME TypeOK, NEW t \in Tasks
    PROVE  /\ UNCHANGED file => FileMoves(t)
           /\ file' = [file EXCEPT ![t] = NoFile] => FileMoves(t)
           /\ file' = [file EXCEPT ![t] = [NoFile EXCEPT !.exists = TRUE]] => FileMoves(t)
           /\ file' = [file EXCEPT ![t] = Removed(@)] => FileMoves(t)
           /\ file' = [file EXCEPT ![t] = Lost(@)] => FileMoves(t)
           /\ \A b \in BOOLEAN :
                file' = [file EXCEPT ![t] = [Removed(@) EXCEPT !.exists = b]] => FileMoves(t)
           /\ file' = [file EXCEPT ![t].exists = TRUE, ![t].open = TRUE, ![t].response = TRUE]
                => FileMoves(t)
           /\ file' = [file EXCEPT ![t].open = TRUE, ![t].response = TRUE] => FileMoves(t)
           /\ file[t].read < Chunks /\ file' = [file EXCEPT ![t].read = @ + 1] => FileMoves(t)
           /\ file[t].length < Chunks /\ file' = [file EXCEPT ![t].length = @ + 1] => FileMoves(t)
<1>1. file \in [Tasks -> FileState]
  BY DEF TypeOK
<1>2. file' = [file EXCEPT ![t] = NoFile]
        => FileMoves(t)
  <2>1. [file EXCEPT ![t] = NoFile] \in [Tasks -> FileState]
    BY FilesChange
  <2>2. \A s \in Tasks \ {t} : [file EXCEPT ![t] = NoFile][s] = file[s]
    BY <1>1
  <2>3. QED
    BY <2>1, <2>2, Zenon DEF FileMoves
<1>3. file' = [file EXCEPT ![t] = [NoFile EXCEPT !.exists = TRUE]]
        => FileMoves(t)
  <2>1. [file EXCEPT ![t] = [NoFile EXCEPT !.exists = TRUE]] \in [Tasks -> FileState]
    BY FilesChange
  <2>2. \A s \in Tasks \ {t} : [file EXCEPT ![t] = [NoFile EXCEPT !.exists = TRUE]][s] = file[s]
    BY <1>1
  <2>3. QED
    BY <2>1, <2>2, Zenon DEF FileMoves
<1>4. /\ file' = [file EXCEPT ![t] = Removed(@)] => FileMoves(t)
      /\ file' = [file EXCEPT ![t] = Lost(@)] => FileMoves(t)
  <2>1. /\ [file EXCEPT ![t] = Removed(@)] \in [Tasks -> FileState]
        /\ [file EXCEPT ![t] = Lost(@)] \in [Tasks -> FileState]
    BY FilesChange
  <2>2. \A s \in Tasks \ {t} : /\ [file EXCEPT ![t] = Removed(@)][s] = file[s]
                              /\ [file EXCEPT ![t] = Lost(@)][s] = file[s]
    BY <1>1
  <2>3. QED
    BY <2>1, <2>2, Zenon DEF FileMoves
<1>5. file' = [file EXCEPT ![t].exists = TRUE, ![t].open = TRUE, ![t].response = TRUE]
        => FileMoves(t)
  <2>1. [file EXCEPT ![t].exists = TRUE, ![t].open = TRUE, ![t].response = TRUE] \in [Tasks -> FileState]
    BY FilesChange
  <2>2. \A s \in Tasks \ {t} : [file EXCEPT ![t].exists = TRUE, ![t].open = TRUE, ![t].response = TRUE][s] = file[s]
    BY <1>1
  <2>3. QED
    BY <2>1, <2>2, Zenon DEF FileMoves
<1>6. file' = [file EXCEPT ![t].open = TRUE, ![t].response = TRUE]
        => FileMoves(t)
  <2>1. [file EXCEPT ![t].open = TRUE, ![t].response = TRUE] \in [Tasks -> FileState]
    BY FilesChange
  <2>2. \A s \in Tasks \ {t} : [file EXCEPT ![t].open = TRUE, ![t].response = TRUE][s] = file[s]
    BY <1>1
  <2>3. QED
    BY <2>1, <2>2, Zenon DEF FileMoves
<1>7. ASSUME NEW b \in BOOLEAN, file' = [file EXCEPT ![t] = [Removed(@) EXCEPT !.exists = b]]
      PROVE  FileMoves(t)
  <2>1. file' \in [Tasks -> FileState]
    BY <1>7, FilesChange
  <2>2. \A s \in Tasks \ {t} : file'[s] = file[s]
    BY <1>1, <1>7
  <2>3. QED
    BY <2>1, <2>2 DEF FileMoves
<1>8. file[t].read < Chunks /\ file' = [file EXCEPT ![t].read = @ + 1] => FileMoves(t)
  <2>1. file[t].read < Chunks => [file EXCEPT ![t].read = @ + 1] \in [Tasks -> FileState]
    BY FilesChange
  <2>2. \A s \in Tasks \ {t} : [file EXCEPT ![t].read = @ + 1][s] = file[s]
    BY <1>1
  <2>3. QED
    BY <2>1, <2>2, Zenon DEF FileMoves
<1>9. file[t].length < Chunks /\ file' = [file EXCEPT ![t].length = @ + 1] => FileMoves(t)
  <2>1. file[t].length < Chunks => [file EXCEPT ![t].length = @ + 1] \in [Tasks -> FileState]
    BY FilesChange
  <2>2. \A s \in Tasks \ {t} : [file EXCEPT ![t].length = @ + 1][s] = file[s]
    BY <1>1
  <2>3. QED
    BY <2>1, <2>2, Zenon DEF FileMoves
<1>10. UNCHANGED file => FileMoves(t)
  BY <1>1 DEF FileMoves
<1>11. QED
  BY <1>2, <1>3, <1>4, <1>5, <1>6, <1>7, <1>8, <1>9, <1>10

LEMMA OneMoves ==
    ASSUME TypeOK, NEW t \in Tasks, Writes(t), Holding(t), Act(t)
    PROVE  TypeOK' /\ MovesOnly(t)
<1>0. Places = {"idle", "asking", "requesting", "reading", "writing", "backoff", "entering",
                "inside", "joining", "control", "data", "done"}
      /\ Outcomes = {"none", "ok", "error", "canceled"}
      /\ Holdings = {"none", "error", "canceled", "interrupted"}
  BY DEF Places, Outcomes, Holdings
<1> DEFINE Rest == /\ thread' \in [Tasks -> {"none", "running", "written", "failed", "abandoned"}]
                   /\ target' \in {"old", "torn"} \cup Tasks /\ put' \subseteq Tasks
                   /\ pool' \in [Pools -> {"none", "open", "closed", "broken", "stray"}]
                   /\ closed' \subseteq {"objects", "storage"}
                   /\ closeTask' \in {"none", "running", "failing", "canceling", "ok",
                                     "failed", "canceled"}
                   /\ \A s \in Tasks \ {t} : thread'[s] = thread[s] /\ (s \in put' <=> s \in put)
<1>a. SUFFICES TaskMoves(t) /\ FileMoves(t) /\ Rest
  BY DEF TypeOK, MovesOnly, TaskMoves, FileMoves
<1> USE <1>0
<1>1. CASE Download(t)
  <2>1. TaskMoves(t)
    BY <1>1, TaskSteps DEF Download
  <2>2. FileMoves(t)
    BY <1>1, FileSteps DEF Download, fileVars
  <2>3. Rest
    BY <1>1 DEF Download, TypeOK, fileVars, closeVars
  <2>4. QED
    BY <2>1, <2>2, <2>3
<1>2. CASE ObjectsAnswer(t)
  <2>1. TaskMoves(t)
    BY <1>2, TaskSteps DEF ObjectsAnswer
  <2>2. FileMoves(t)
    BY <1>2, FileSteps DEF ObjectsAnswer, fileVars
  <2>3. Rest
    BY <1>2 DEF ObjectsAnswer, TypeOK, fileVars, closeVars
  <2>4. QED
    BY <2>1, <2>2, <2>3
<1>3. CASE BeginAttempt(t)
  <2>1. TaskMoves(t)
    BY <1>3, TaskSteps DEF BeginAttempt
  <2>2. FileMoves(t)
    BY <1>3, FileSteps DEF BeginAttempt, fileVars
  <2>3. Rest
    BY <1>3 DEF BeginAttempt, TypeOK, fileVars, closeVars
  <2>4. QED
    BY <2>1, <2>2, <2>3
<1>4. CASE StorageAnswer(t)
  <2>1. TaskMoves(t)
    BY <1>4, TaskSteps DEF StorageAnswer
  <2>2. FileMoves(t)
    BY <1>4, FileSteps DEF StorageAnswer, fileVars
  <2>3. Rest
    BY <1>4 DEF StorageAnswer, TypeOK, fileVars, closeVars
  <2>4. QED
    BY <2>1, <2>2, <2>3
<1>5. CASE Broken(t)
  <2>1. TaskMoves(t)
    BY <1>5, TaskSteps DEF Broken, Leave
  <2>2. FileMoves(t)
    BY <1>5, FileSteps DEF Broken, fileVars, Leave
  <2>3. Rest
    BY <1>5 DEF Broken, TypeOK, fileVars, closeVars, Leave
  <2>4. QED
    BY <2>1, <2>2, <2>3
<1>6. CASE Chunk(t)
  <2>1. TaskMoves(t)
    BY <1>6, TaskSteps DEF Chunk
  <2>2. FileMoves(t)
    BY <1>6, FileSteps DEF Chunk, fileVars
  <2>3. Rest
    BY <1>6 DEF Chunk, TypeOK, fileVars, closeVars
  <2>4. QED
    BY <2>1, <2>2, <2>3
<1>7. CASE ThreadEnds(t)
  <2>1. TaskMoves(t)
    BY <1>7, TaskSteps DEF ThreadEnds
  <2>2. FileMoves(t)
    <3>1. thread[t] = "running" => file[t].length < Chunks
      BY ClientConstants DEF TypeOK, FileState, Writes
    <3>2. QED
      BY <1>7, <3>1, FileSteps DEF ThreadEnds
  <2>3. Rest
    BY <1>7 DEF ThreadEnds, TypeOK, fileVars, closeVars
  <2>4. QED
    BY <2>1, <2>2, <2>3
<1>8. CASE Written(t)
  <2>1. TaskMoves(t)
    BY <1>8, TaskSteps DEF Written, Leave, Holding
  <2>2. FileMoves(t)
    BY <1>8, FileSteps DEF Written, fileVars, Leave
  <2>3. Rest
    BY <1>8 DEF Written, TypeOK, fileVars, closeVars, Leave, Resumed
  <2>4. QED
    BY <2>1, <2>2, <2>3
<1>9. CASE Finish(t)
  <2>1. TaskMoves(t)
    BY <1>9, TaskSteps DEF Finish, Leave
  <2>2. FileMoves(t)
    BY <1>9, FileSteps DEF Finish, fileVars, Leave
  <2>3. Rest
    BY <1>9 DEF Finish, TypeOK, fileVars, closeVars, Leave
  <2>4. QED
    BY <2>1, <2>2, <2>3
<1>10. CASE Enter(t)
  <2>1. TaskMoves(t)
    BY <1>10, TaskSteps DEF Enter
  <2>2. FileMoves(t)
    BY <1>10, FileSteps DEF Enter, fileVars
  <2>3. Rest
    BY <1>10 DEF Enter, TypeOK, fileVars, closeVars
  <2>4. QED
    BY <2>1, <2>2, <2>3
<1>11. CASE Entered(t)
  <2>1. TaskMoves(t)
    BY <1>11, TaskSteps DEF Entered
  <2>2. FileMoves(t)
    BY <1>11, FileSteps DEF Entered, fileVars
  <2>3. Rest
    BY <1>11 DEF Entered, TypeOK, fileVars, closeVars, AcloseObjects, Pools, ObjectsPools, Opened
  <2>4. QED
    BY <2>1, <2>2, <2>3
<1>12. CASE Exit(t)
  <2>1. TaskMoves(t)
    BY <1>12, TaskSteps DEF Exit
  <2>2. FileMoves(t)
    BY <1>12, FileSteps DEF Exit, fileVars
  <2>3. Rest
    BY <1>12 DEF Exit, TypeOK, fileVars, closeVars, AcloseObjects
  <2>4. QED
    BY <2>1, <2>2, <2>3
<1>13. CASE CloseObjects(t)
  <2>1. TaskMoves(t)
    BY <1>13, TaskSteps DEF CloseObjects
  <2>2. FileMoves(t)
    BY <1>13, FileSteps DEF CloseObjects, fileVars
  <2>3. Rest
    BY <1>13 DEF CloseObjects, TypeOK, fileVars, closeVars, AcloseObjects
  <2>4. QED
    BY <2>1, <2>2, <2>3
<1>14. CASE Joined(t)
  <2>1. TaskMoves(t)
    <3>1. task[t].held \in Holdings
      BY DEF TypeOK, TaskState
    <3>2. PICK outcome \in Outcomes : Ends(t, outcome)
      BY <1>14, <3>1 DEF Joined
    <3>3. QED
      BY <3>2, TaskSteps
  <2>2. FileMoves(t)
    BY <1>14, FileSteps DEF Joined, fileVars
  <2>3. Rest
    BY <1>14 DEF Joined, TypeOK, fileVars, closeVars
  <2>4. QED
    BY <2>1, <2>2, <2>3
<1>15. CASE CloseStorage(t)
  <2>1. TaskMoves(t)
    BY <1>15, TaskSteps DEF CloseStorage
  <2>2. FileMoves(t)
    BY <1>15, FileSteps DEF CloseStorage, fileVars
  <2>3. Rest
    BY <1>15 DEF CloseStorage, TypeOK, fileVars, closeVars
  <2>4. QED
    BY <2>1, <2>2, <2>3
<1>16. CASE StorageClosed(t)
  <2>1. TaskMoves(t)
    BY <1>16, TaskSteps DEF StorageClosed
  <2>2. FileMoves(t)
    BY <1>16, FileSteps DEF StorageClosed, fileVars
  <2>3. Rest
    BY <1>16 DEF StorageClosed, TypeOK, fileVars, closeVars, Pools, StoragePools
  <2>4. QED
    BY <2>1, <2>2, <2>3
<1>17. CASE Cancel(t)
  <2>1. TaskMoves(t)
    BY <1>17, CancelMoves
  <2>2. FileMoves(t)
    <3>1. (file[t].exists /\ task[t].job = "storage_download") \in BOOLEAN
      BY DEF TypeOK, FileState
    <3>2. \/ UNCHANGED file
          \/ file' = [file EXCEPT ![t] = Lost(@)]
          \/ file' = [file EXCEPT ![t] = [Removed(@) EXCEPT
                         !.exists = file[t].exists /\ task[t].job = "storage_download"]]
      BY <1>17 DEF Cancel
    <3>3. QED
      BY <3>1, <3>2, FileSteps
  <2>3. Rest
    BY <1>17 DEF Cancel, TypeOK, fileVars, closeVars
  <2>4. QED
    BY <2>1, <2>2, <2>3
<1>18. CASE AbandonWrite(t)
  <2>1. TaskMoves(t)
    BY <1>18, TaskSteps DEF AbandonWrite
  <2>2. FileMoves(t)
    BY <1>18, FileSteps DEF AbandonWrite
  <2>3. Rest
    BY <1>18 DEF AbandonWrite, TypeOK, closeVars
  <2>4. QED
    BY <2>1, <2>2, <2>3
<1>19. QED
  BY <1>1, <1>2, <1>3, <1>4, <1>5, <1>6, <1>7, <1>8, <1>9, <1>10, <1>11, <1>12, <1>13, <1>14,
     <1>15, <1>16, <1>17, <1>18 DEF Act

-----------------------------------------------------------------------------
(* One step of the task that moves *)

\* What a step makes of t and of its file.
Now(t, pc, held, outcome) ==
    /\ task'[t].job = task[t].job /\ task'[t].cancels = task[t].cancels
    /\ task'[t].pc = pc /\ task'[t].held = held /\ task'[t].outcome = outcome

FileIs(t, exists, open, response, read, length) ==
    /\ file'[t].exists = exists /\ file'[t].open = open /\ file'[t].response = response
    /\ file'[t].read = read /\ file'[t].length = length

FileStays(t) ==
    /\ FileIs(t, file[t].exists, file[t].open, file[t].response, file[t].read, file[t].length)
    /\ file'[t].lost = file[t].lost
FileClosed(t, exists) == FileIs(t, exists, FALSE, FALSE, file[t].read, file[t].length)
FileLost(t) == FileClosed(t, FALSE) /\ file'[t].lost
NoneYet(t) == FileIs(t, FALSE, FALSE, FALSE, 0, 0)
RestStays(t) == thread'[t] = thread[t] /\ (t \in put' <=> t \in put)

LEMMA TaskEffects ==
    ASSUME TypeOK, NEW t \in Tasks
    PROVE  /\ \A pc : Goes(t, pc) => Now(t, pc, task[t].held, task[t].outcome)
           /\ \A outcome : Ends(t, outcome) => Now(t, "done", task[t].held, outcome)
           /\ \A held : AcloseObjects(t, held) => Now(t, "joining", held, task[t].outcome)
           /\ NextAttempt(t) => \/ Now(t, "backoff", task[t].held, task[t].outcome)
                                \/ Now(t, "done", task[t].held, "error")
           /\ UNCHANGED task => Now(t, task[t].pc, task[t].held, task[t].outcome)
<1>1. task \in [Tasks -> TaskState] /\ task[t] \in TaskState
  BY DEF TypeOK
<1>2. ASSUME NEW pc, Goes(t, pc) PROVE Now(t, pc, task[t].held, task[t].outcome)
  BY <1>1, <1>2 DEF Goes, Now, TaskState
<1>3. ASSUME NEW outcome, Ends(t, outcome) PROVE Now(t, "done", task[t].held, outcome)
  BY <1>1, <1>3 DEF Ends, Now, TaskState
<1>4. ASSUME NEW held, AcloseObjects(t, held) PROVE Now(t, "joining", held, task[t].outcome)
  BY <1>1, <1>4 DEF AcloseObjects, Now, TaskState
<1>5. ASSUME NextAttempt(t)
      PROVE  Now(t, "backoff", task[t].held, task[t].outcome) \/ Now(t, "done", task[t].held, "error")
  BY <1>1, <1>3, <1>5 DEF NextAttempt, Now, TaskState
<1>6. UNCHANGED task => Now(t, task[t].pc, task[t].held, task[t].outcome)
  BY DEF Now
<1>7. QED
  BY <1>2, <1>3, <1>4, <1>5, <1>6

LEMMA FileEffects ==
    ASSUME TypeOK, NEW t \in Tasks
    PROVE  /\ UNCHANGED file => FileStays(t)
           /\ file' = [file EXCEPT ![t] = NoFile] => NoneYet(t)
           /\ file' = [file EXCEPT ![t] = [NoFile EXCEPT !.exists = TRUE]] =>
                FileIs(t, TRUE, FALSE, FALSE, 0, 0)
           /\ file' = [file EXCEPT ![t] = Removed(@)] => FileClosed(t, FALSE)
           /\ file' = [file EXCEPT ![t] = Lost(@)] => FileLost(t)
           /\ \A b \in BOOLEAN :
                file' = [file EXCEPT ![t] = [Removed(@) EXCEPT !.exists = b]] => FileClosed(t, b)
           /\ file' = [file EXCEPT ![t].exists = TRUE, ![t].open = TRUE, ![t].response = TRUE]
                => FileIs(t, TRUE, TRUE, TRUE, file[t].read, file[t].length)
           /\ file' = [file EXCEPT ![t].open = TRUE, ![t].response = TRUE]
                => FileIs(t, file[t].exists, TRUE, TRUE, file[t].read, file[t].length)
           /\ file' = [file EXCEPT ![t].read = @ + 1]
                => FileIs(t, file[t].exists, file[t].open, file[t].response,
                          file[t].read + 1, file[t].length)
           /\ file' = [file EXCEPT ![t].length = @ + 1]
                => FileIs(t, file[t].exists, file[t].open, file[t].response,
                          file[t].read, file[t].length + 1)
                   /\ file'[t].lost = file[t].lost
<1>1. file \in [Tasks -> FileState] /\ file[t] \in FileState
  BY DEF TypeOK
<1>2. /\ file' = [file EXCEPT ![t] = Removed(@)] => FileClosed(t, FALSE)
      /\ file' = [file EXCEPT ![t] = Lost(@)] => FileLost(t)
  BY <1>1 DEF FileState, FileIs, FileClosed, FileLost, Removed, Lost
<1>3. ASSUME NEW b \in BOOLEAN, file' = [file EXCEPT ![t] = [Removed(@) EXCEPT !.exists = b]]
      PROVE  FileClosed(t, b)
  <2>1. file'[t] = [Removed(file[t]) EXCEPT !.exists = b]
    BY <1>1, <1>3
  <2>2. QED
    BY <1>1, <2>1, Zenon DEF FileState, FileIs, FileClosed, Removed
<1>4. /\ UNCHANGED file => FileStays(t)
      /\ file' = [file EXCEPT ![t] = NoFile] => NoneYet(t)
      /\ file' = [file EXCEPT ![t] = [NoFile EXCEPT !.exists = TRUE]] =>
           FileIs(t, TRUE, FALSE, FALSE, 0, 0)
  BY <1>1 DEF FileState, NoFile, FileIs, FileStays, NoneYet
<1>5. /\ file' = [file EXCEPT ![t].exists = TRUE, ![t].open = TRUE, ![t].response = TRUE]
           => FileIs(t, TRUE, TRUE, TRUE, file[t].read, file[t].length)
      /\ file' = [file EXCEPT ![t].open = TRUE, ![t].response = TRUE]
           => FileIs(t, file[t].exists, TRUE, TRUE, file[t].read, file[t].length)
  BY <1>1 DEF FileState, FileIs
<1>6. /\ file' = [file EXCEPT ![t].read = @ + 1]
           => FileIs(t, file[t].exists, file[t].open, file[t].response,
                     file[t].read + 1, file[t].length)
      /\ file' = [file EXCEPT ![t].length = @ + 1]
           => FileIs(t, file[t].exists, file[t].open, file[t].response,
                     file[t].read, file[t].length + 1)
              /\ file'[t].lost = file[t].lost
  BY <1>1 DEF FileState, FileIs
<1>7. QED
  BY <1>2, <1>3, <1>4, <1>5, <1>6

LEMMA PartsStep ==
    ASSUME IInv, NEW t \in Tasks, Act(t)
    PROVE  Writes(t)' /\ Ended(t)' /\ Holding(t)'
<1>0. /\ TypeOK /\ thread[t] \in {"none", "running", "written", "failed", "abandoned"}
      /\ Chunks \in Nat /\ file[t].length \in 0..Chunks /\ file[t].read \in 0..Chunks
      /\ task[t].cancels \in Nat
      /\ Writes(t) /\ Ended(t) /\ Holding(t)
      /\ task[t].pc = "joining" => task[t].job \in Closers
  BY ClientConstants DEF IInv, Closing, TypeOK, FileState, TaskState
<1>a. closeTask = "failed" => closeTask' = "failed"
  BY DEF Act, Download, ObjectsAnswer, BeginAttempt, StorageAnswer, Broken, Chunk, ThreadEnds,
     AbandonWrite, Written, Finish, Enter, Entered, Exit, CloseObjects, Joined, CloseStorage, StorageClosed,
     Cancel, AcloseObjects, closeVars
<1>b. /\ thread \in [Tasks -> {"none", "running", "written", "failed", "abandoned"}]
      /\ task \in [Tasks -> TaskState] /\ task[t] \in TaskState
  BY <1>0 DEF TypeOK
<1> DEFINE H == task[t].held
           O == task[t].outcome
           J == task[t].job
           P == task[t].pc
<1>1. CASE Download(t)
  <2>1. J \in Downloads /\ P = "idle" /\ Now(t, "asking", H, O) /\ FileStays(t) /\ RestStays(t)
    BY <1>0, <1>b, <1>1, TaskEffects, FileEffects
    DEF Download, At, Downloads, RestStays, fileVars, closeVars
  <2>2. QED
    BY <1>0, <1>a, <2>1
    DEF Writes, Ended, Holding, Now, FileIs, FileStays, FileClosed, FileLost, NoneYet, RestStays, Downloads
<1>2. CASE ObjectsAnswer(t)
  <2>1. /\ J = "objects_download" /\ P = "asking" /\ RestStays(t)
        /\ \/ /\ Now(t, "reading", H, O)
              /\ FileIs(t, TRUE, TRUE, TRUE, file[t].read, file[t].length)
           \/ Now(t, "done", H, "error") /\ FileStays(t)
    BY <1>0, <1>b, <1>2, TaskEffects, FileEffects
    DEF ObjectsAnswer, At, Downloads, RestStays, fileVars, closeVars
  <2>2. QED
    BY <1>0, <1>a, <2>1
    DEF Writes, Ended, Holding, Now, FileIs, FileStays, FileClosed, FileLost, NoneYet, RestStays, Downloads
<1>3. CASE BeginAttempt(t)
  <2>1. /\ J = "storage_download" /\ P \in {"asking", "backoff"} /\ RestStays(t)
        /\ \/ Now(t, "requesting", H, O) /\ FileIs(t, TRUE, FALSE, FALSE, 0, 0)
           \/ Now(t, "done", H, "error") /\ FileStays(t)
    BY <1>0, <1>b, <1>3, TaskEffects, FileEffects
    DEF BeginAttempt, At, Downloads, RestStays, fileVars, closeVars
  <2>2. QED
    BY <1>0, <1>a, <2>1
    DEF Writes, Ended, Holding, Now, FileIs, FileStays, FileClosed, FileLost, NoneYet, RestStays, Downloads
<1>4. CASE StorageAnswer(t)
  <2>1. /\ J = "storage_download" /\ P = "requesting" /\ RestStays(t)
        /\ \/ /\ Now(t, "reading", H, O)
              /\ FileIs(t, file[t].exists, TRUE, TRUE, file[t].read, file[t].length)
           \/ (Now(t, "backoff", H, O) \/ Now(t, "done", H, "error")) /\ NoneYet(t)
    BY <1>0, <1>b, <1>4, TaskEffects, FileEffects
    DEF StorageAnswer, At, Downloads, RestStays, fileVars, closeVars
  <2>2. QED
    BY <1>0, <1>a, <2>1
    DEF Writes, Ended, Holding, Now, FileIs, FileStays, FileClosed, FileLost, NoneYet, RestStays, Downloads
<1>5. CASE Broken(t)
  <2>1. /\ RestStays(t)
        /\ \/ /\ J \in Downloads /\ P \in {"requesting", "reading"}
              /\ Now(t, "done", H, "error") /\ FileClosed(t, FALSE)
           \/ /\ J = "storage_download" /\ P \in {"requesting", "reading"}
              /\ (Now(t, "backoff", H, O) \/ Now(t, "done", H, "error")) /\ NoneYet(t)
    BY <1>0, <1>b, <1>5, TaskEffects, FileEffects
    DEF Broken, At, Downloads, RestStays, fileVars, closeVars, Leave, FileLost
  <2>2. QED
    BY <1>0, <1>a, <2>1
    DEF Writes, Ended, Holding, Now, FileIs, FileStays, FileClosed, FileLost, NoneYet, RestStays, Downloads
<1>6. CASE Chunk(t)
  <2>1. /\ P = "reading" /\ Now(t, "writing", H, O)
        /\ thread'[t] = "running" /\ (t \in put' <=> t \in put)
        /\ FileIs(t, file[t].exists, file[t].open, file[t].response,
                  file[t].read + 1, file[t].length)
    BY <1>0, <1>b, <1>6, TaskEffects, FileEffects
    DEF Chunk, At, Downloads, RestStays, fileVars, closeVars
  <2>2. QED
    BY <1>0, <1>a, <2>1
    DEF Writes, Ended, Holding, Now, FileIs, FileStays, FileClosed, FileLost, NoneYet, RestStays, Downloads
<1>7. CASE ThreadEnds(t)
  <2>1. /\ thread[t] = "running" /\ Now(t, P, H, O) /\ (t \in put' <=> t \in put)
        /\ \/ /\ thread'[t] = "written"
              /\ FileIs(t, file[t].exists, file[t].open, file[t].response,
                        file[t].read, file[t].length + 1)
              /\ file'[t].lost = file[t].lost
           \/ thread'[t] = "failed" /\ FileStays(t)
    BY <1>0, <1>b, <1>7, TaskEffects, FileEffects
    DEF ThreadEnds, At, Downloads, RestStays, fileVars, closeVars
  <2>2. QED
    BY <1>0, <1>a, <2>1
    DEF Writes, Ended, Holding, Now, FileIs, FileStays, FileClosed, FileLost, NoneYet, RestStays, Downloads
<1>8. CASE Written(t)
  <2>1. /\ P = "writing" /\ thread[t] \in {"written", "failed", "abandoned"}
        /\ thread'[t] \in {"none", "abandoned"} /\ (t \in put' <=> t \in put)
        /\ \/ H # "none" /\ Now(t, "done", H, H) /\ FileClosed(t, FALSE)
           \/ Now(t, "done", H, "error") /\ FileLost(t)
           \/ /\ H = "none" /\ (Now(t, "done", H, "error") \/ Now(t, "done", H, "canceled"))
              /\ FileClosed(t, FALSE)
           \/ /\ H = "none" /\ thread[t] = "written" /\ thread'[t] = "none"
              /\ Now(t, "reading", H, O) /\ FileStays(t)
    BY <1>0, <1>b, <1>8, TaskEffects, FileEffects
    DEF Written, At, Downloads, RestStays, fileVars, closeVars, Leave, Resumed
  <2>2. QED
    BY <1>0, <1>a, <2>1
    DEF Writes, Ended, Holding, Now, FileIs, FileStays, FileClosed, FileLost, NoneYet, RestStays, Downloads
<1>9. CASE Finish(t)
  <2>1. /\ P = "reading" /\ thread'[t] = thread[t] /\ FileClosed(t, FALSE)
        /\ \/ Now(t, "done", H, "ok") /\ t \in put'
           \/ Now(t, "done", H, "error") /\ (t \in put' <=> t \in put)
    BY <1>0, <1>b, <1>9, TaskEffects, FileEffects
    DEF Finish, At, Downloads, RestStays, fileVars, closeVars, Leave, FileLost
  <2>2. QED
    BY <1>0, <1>a, <2>1
    DEF Writes, Ended, Holding, Now, FileIs, FileStays, FileClosed, FileLost, NoneYet, RestStays, Downloads
<1>10. CASE Enter(t)
  <2>1. /\ J = "objects_session" /\ P = "idle" /\ FileStays(t) /\ RestStays(t)
        /\ Now(t, "done", H, "error") \/ Now(t, "entering", H, O)
    BY <1>0, <1>b, <1>10, TaskEffects, FileEffects
    DEF Enter, At, Downloads, RestStays, fileVars, closeVars
  <2>2. QED
    BY <1>0, <1>a, <2>1
    DEF Writes, Ended, Holding, Now, FileIs, FileStays, FileClosed, FileLost, NoneYet, RestStays, Downloads
<1>11. CASE Entered(t)
  <2>1. /\ J = "objects_session" /\ P = "entering" /\ FileStays(t) /\ RestStays(t)
        /\ \/ Now(t, "inside", H, O) \/ Now(t, "entering", H, O)
           \/ Now(t, "joining", "error", O)
    BY <1>0, <1>b, <1>11, TaskEffects, FileEffects
    DEF Entered, At, Downloads, RestStays, fileVars, closeVars
  <2>2. QED
    BY <1>0, <1>a, <2>1
    DEF Writes, Ended, Holding, Now, FileIs, FileStays, FileClosed, FileLost, NoneYet, RestStays, Downloads
<1>12. CASE Exit(t)
  <2>1. /\ J = "objects_session" /\ P = "inside" /\ FileStays(t) /\ RestStays(t)
        /\ Now(t, "joining", "none", O)
    BY <1>0, <1>b, <1>12, TaskEffects, FileEffects
    DEF Exit, At, Downloads, RestStays, fileVars, closeVars
  <2>2. QED
    BY <1>0, <1>a, <2>1
    DEF Writes, Ended, Holding, Now, FileIs, FileStays, FileClosed, FileLost, NoneYet, RestStays, Downloads
<1>13. CASE CloseObjects(t)
  <2>1. /\ J = "objects_close" /\ P = "idle" /\ FileStays(t) /\ RestStays(t)
        /\ Now(t, "joining", "none", O)
    BY <1>0, <1>b, <1>13, TaskEffects, FileEffects
    DEF CloseObjects, At, Downloads, RestStays, fileVars, closeVars
  <2>2. QED
    BY <1>0, <1>a, <2>1
    DEF Writes, Ended, Holding, Now, FileIs, FileStays, FileClosed, FileLost, NoneYet, RestStays, Downloads
<1>14. CASE Joined(t)
  <2>1. /\ P = "joining" /\ FileStays(t) /\ RestStays(t)
        /\ \/ H \in {"canceled", "interrupted"} /\ Now(t, "done", H, "canceled")
           \/ H = "interrupted" /\ closeTask = "failed" /\ Now(t, "done", H, "error")
           \/ /\ H \in {"none", "error"}
              /\ \E outcome \in Outcomes : Now(t, "done", H, outcome)
    BY <1>0, <1>b, <1>14, TaskEffects, FileEffects
    DEF Joined, At, Downloads, RestStays, fileVars, closeVars, Holdings, Outcomes, TaskState
  <2>2. QED
    BY <1>0, <1>a, <2>1
    DEF Writes, Ended, Holding, Now, FileIs, FileStays, FileClosed, FileLost, NoneYet, RestStays, Downloads,
        Closers
<1>15. CASE CloseStorage(t)
  <2>1. /\ J = "storage_close" /\ P = "idle" /\ FileStays(t) /\ RestStays(t)
        /\ Now(t, "done", H, "ok") \/ Now(t, "control", H, O)
    BY <1>0, <1>b, <1>15, TaskEffects, FileEffects
    DEF CloseStorage, At, Downloads, RestStays, fileVars, closeVars
  <2>2. QED
    BY <1>0, <1>a, <2>1
    DEF Writes, Ended, Holding, Now, FileIs, FileStays, FileClosed, FileLost, NoneYet, RestStays, Downloads
<1>16. CASE StorageClosed(t)
  <2>1. /\ J = "storage_close" /\ P \in {"control", "data"} /\ FileStays(t) /\ RestStays(t)
        /\ \/ Now(t, "data", H, O) \/ Now(t, "done", H, "ok") \/ Now(t, "done", H, "error")
    BY <1>0, <1>b, <1>16, TaskEffects, FileEffects
    DEF StorageClosed, At, Downloads, RestStays, fileVars, closeVars, StoragePools
  <2>2. QED
    BY <1>0, <1>a, <2>1
    DEF Writes, Ended, Holding, Now, FileIs, FileStays, FileClosed, FileLost, NoneYet, RestStays, Downloads
<1>17. CASE Cancel(t)
  <2> DEFINE Now1(pc, held, outcome) ==
               /\ task'[t].job = task[t].job /\ task'[t].cancels = task[t].cancels + 1
               /\ task'[t].pc = pc /\ task'[t].held = held /\ task'[t].outcome = outcome
  <2>1. \A pc, held, outcome :
          task' = [task EXCEPT ![t].pc = pc, ![t].cancels = @ + 1, ![t].held = held,
                               ![t].outcome = outcome] => Now1(pc, held, outcome)
    BY <1>b DEF TaskState
  <2> HIDE DEF Now1
  <2>2. /\ P \notin {"idle", "done"} /\ RestStays(t)
        /\ \/ Holds(t) /\ Now1(P, "canceled", "none") /\ FileStays(t)
           \/ /\ ~Holds(t) /\ J = "objects_session"
              /\ Now1("joining", "interrupted", "none") /\ FileStays(t)
           \/ /\ ~Holds(t) /\ J \in Downloads
              /\ \/ /\ Now1("done", "none", "canceled")
                    /\ FileClosed(t, file[t].exists /\ J = "storage_download")
                 \/ Now1("done", "none", "error") /\ FileLost(t)
           \/ J = "storage_close" /\ Now1("done", "none", "canceled") /\ FileStays(t)
    <3>1. (file[t].exists /\ J = "storage_download") \in BOOLEAN
      BY <1>0 DEF TypeOK, FileState
    <3>2. QED
      BY <1>0, <1>17, <2>1, <3>1, FileEffects DEF Cancel, RestStays
  <2>3. QED
    BY <1>0, <1>a, <2>2
    DEF Writes, Ended, Holding, Now1, FileIs, FileStays, FileClosed, FileLost, RestStays, Downloads,
        Holds, At
<1>18. CASE AbandonWrite(t)
  <2>1. /\ J = "objects_download" /\ P = "writing" /\ Now(t, P, H, O) /\ FileStays(t)
        /\ thread'[t] = "abandoned" /\ (t \in put' <=> t \in put)
    BY <1>0, <1>b, <1>18, TaskEffects, FileEffects DEF AbandonWrite, At
  <2>2. QED
    BY <1>0, <1>a, <2>1
    DEF Writes, Ended, Holding, Now, FileIs, FileStays, Downloads
<1>19. QED
  BY <1>1, <1>2, <1>3, <1>4, <1>5, <1>6, <1>7, <1>8, <1>9, <1>10, <1>11, <1>12, <1>13, <1>14,
     <1>15, <1>16, <1>17, <1>18 DEF Act

-----------------------------------------------------------------------------
(* Opening and closing *)

LEMMA OthersClose ==
    ASSUME IInv, NEW t \in Tasks, MovesOnly(t),
           task[t].job \notin Closers, task'[t].pc \notin {"entering", "inside", "joining"},
           closeTask' = closeTask, "objects" \in closed' <=> "objects" \in closed,
           \A p \in ObjectsPools : pool'[p] = pool[p]
    PROVE  Closing'
<1>1. Closing /\ (\A s \in Tasks : task'[s].job = task[s].job)
      /\ \A s \in Tasks \ {t} : task'[s] = task[s]
  BY DEF IInv, MovesOnly, TaskMoves
<1>2. NoneOpen' <=> NoneOpen
  BY DEF NoneOpen
<1>3. ClosingOver' <=> ClosingOver
  BY DEF ClosingOver
<1>4. QED
  BY <1>1, <1>2, <1>3 DEF Closing, Closers

LEMMA DownloadsClose ==
    ASSUME IInv, NEW t \in Tasks, MovesOnly(t), UNCHANGED closeVars,
           \/ Download(t) \/ ObjectsAnswer(t) \/ BeginAttempt(t) \/ StorageAnswer(t)
           \/ Broken(t) \/ Chunk(t) \/ ThreadEnds(t) \/ AbandonWrite(t) \/ Written(t) \/ Finish(t)
    PROVE  Closing'
<1>1. /\ TypeOK /\ Writes(t) /\ "storage_download" \notin Closers
      /\ \A job \in Downloads : job \notin Closers
  BY DEF IInv, Downloads, Closers
<1>2. task[t].job \notin Closers
  BY <1>1 DEF Download, ObjectsAnswer, BeginAttempt, StorageAnswer, Broken, Chunk, ThreadEnds,
     AbandonWrite, Written, Finish, At, Writes, Downloads
<1>3. task'[t].pc \notin {"entering", "inside", "joining"}
  BY <1>1, TaskEffects DEF Download, ObjectsAnswer, BeginAttempt, StorageAnswer, Broken, Chunk,
     ThreadEnds, AbandonWrite, Written, Finish, Leave, Writes, Now, At
<1>4. QED
  BY <1>2, <1>3, OthersClose DEF closeVars

\* Who has closed the client has done so whatever he does next.
LEMMA Witnesses ==
    ASSUME IInv, NEW t \in Tasks, MovesOnly(t), task'[t].pc # "idle",
           task[t].pc \in {"joining", "done"} => task'[t].pc \in {"joining", "done"}
    PROVE  /\ (\E s \in Tasks : task[s].job = "objects_close" /\ task[s].pc # "idle")
                => \E s \in Tasks : task'[s].job = "objects_close" /\ task'[s].pc # "idle"
           /\ (\E s \in Tasks : task[s].job = "objects_session" /\ task[s].pc # "idle")
                => \E s \in Tasks : task'[s].job = "objects_session" /\ task'[s].pc # "idle"
           /\ (\E s \in Tasks : task[s].job = "objects_session" /\ task[s].pc \in {"joining", "done"})
                => \E s \in Tasks : /\ task'[s].job = "objects_session"
                                    /\ task'[s].pc \in {"joining", "done"}
  BY DEF MovesOnly, TaskMoves

\* A call of aclose.
LEMMA Acloses ==
    ASSUME IInv, NEW t \in Tasks, MovesOnly(t), task[t].job \in Closers, UNCHANGED pool,
           task[t].pc # "done", task'[t].pc = "joining",
           closed' = closed \cup {"objects"},
           closeTask' = IF closeTask = "none" THEN "running" ELSE closeTask
    PROVE  Closing'
<1>1. /\ Closing
      /\ \A s \in Tasks : task'[s].job = task[s].job
      /\ \A s \in Tasks \ {t} : task'[s] = task[s]
  BY DEF IInv, MovesOnly, TaskMoves
<1>2. NoneOpen' <=> NoneOpen
  BY DEF NoneOpen
<1>3. (ClosingOver' <=> ClosingOver) /\ closeTask' # "none" /\ "objects" \in closed'
      /\ (closeTask' \in {"ok", "failed"} => closeTask' = closeTask)
  BY DEF ClosingOver
<1>4. \E s \in Tasks : \/ task'[s].job = "objects_close" /\ task'[s].pc # "idle"
                       \/ task'[s].job = "objects_session" /\ task'[s].pc \in {"joining", "done"}
  BY <1>1 DEF Closers
<1>5. /\ \A s \in Tasks : task'[s].pc \in {"entering", "inside"} => task'[s].job = "objects_session"
      /\ \A s \in Tasks : task'[s].pc = "joining" => task'[s].job \in Closers
      /\ \A s \in Tasks : task'[s].pc = "done" => task'[s] = task[s]
  BY <1>1 DEF Closing
<1>6. /\ \A s \in Tasks : task'[s].pc = "done" /\ task'[s].job = "objects_close" => ClosingOver'
      /\ \A s \in Tasks : task'[s].pc = "done" /\ task'[s].job = "objects_session"
                           => ClosingOver' \/ NoneOpen'
  BY <1>1, <1>2, <1>3, <1>5 DEF Closing
<1>7. \A s, r \in Tasks :
        task'[s].job = "objects_session" /\ task'[r].job = "objects_session" => s = r
  BY <1>1 DEF Closing
<1>8. /\ ~NoneOpen' => \E s \in Tasks : task'[s].job = "objects_session" /\ task'[s].pc # "idle"
      /\ \A p \in ObjectsPools : pool'[p] = "stray" =>
           \E s \in Tasks : task'[s].job = "objects_close" /\ task'[s].pc # "idle"
  BY <1>1, <1>2, Witnesses DEF Closing
<1>9. closeTask' \in {"ok", "failed"} => NoneOpen'
  BY <1>1, <1>2, <1>3 DEF Closing
<1>10. QED
  BY <1>3, <1>4, <1>5, <1>6, <1>7, <1>8, <1>9 DEF Closing

LEMMA ClosingStep ==
    ASSUME IInv, NEW t \in Tasks, Act(t), TypeOK', MovesOnly(t)
    PROVE  Closing'
<1>0. /\ TypeOK /\ Closing /\ Writes(t)
      /\ task[t].job \in Jobs
      /\ \A s \in Tasks : task'[s].job = task[s].job
      /\ \A s \in Tasks \ {t} : task'[s] = task[s]
  BY DEF IInv, MovesOnly, TaskMoves, TypeOK, TaskState
<1>1. CASE \/ Download(t) \/ ObjectsAnswer(t) \/ BeginAttempt(t) \/ StorageAnswer(t)
           \/ Broken(t) \/ Chunk(t) \/ ThreadEnds(t) \/ AbandonWrite(t) \/ Written(t) \/ Finish(t)
  <2>1. UNCHANGED closeVars
    BY <1>1 DEF Download, ObjectsAnswer, BeginAttempt, StorageAnswer, Broken, Chunk, ThreadEnds,
       AbandonWrite, Written, Finish
  <2>2. QED
    BY <1>1, <2>1, DownloadsClose
<1>2. CASE Enter(t)
  <2>1. task[t].job = "objects_session" /\ task[t].pc = "idle" /\ UNCHANGED closeVars
        /\ \/ "objects" \in closed /\ task'[t].pc = "done"
           \/ "objects" \notin closed /\ task'[t].pc = "entering"
    BY <1>0, <1>2, TaskEffects DEF Enter, At, Now
  <2>2. /\ NoneOpen /\ (NoneOpen' <=> NoneOpen) /\ (ClosingOver' <=> ClosingOver)
        /\ closeTask' = closeTask /\ closed' = closed /\ pool' = pool
    BY <1>0, <2>1 DEF Closing, NoneOpen, closeVars, ClosingOver
  <2>3. QED
    BY <1>0, <2>1, <2>2, Witnesses DEF Closing
<1>3. CASE Entered(t)
  <2>1. task[t].job = "objects_session" /\ task[t].pc = "entering"
    BY <1>3 DEF Entered, At
  <2>2. CASE /\ Goes(t, "inside") \/ UNCHANGED task
             /\ UNCHANGED <<closed, closeTask>>
             /\ \E p \in ObjectsPools : pool' = [pool EXCEPT ![p] = Opened]
    <3>1. task'[t].pc \in {"inside", "entering"}
      BY <1>0, <2>1, <2>2, TaskEffects DEF Now
    <3>2. closeTask' = closeTask /\ closed' = closed /\ (ClosingOver' <=> ClosingOver)
      BY <2>2 DEF ClosingOver
    <3>3. /\ ClosingOver => (NoneOpen => NoneOpen')
          /\ \A p \in ObjectsPools : pool'[p] = "stray" => ClosingOver \/ pool[p] = "stray"
      BY <1>0, <2>2 DEF Opened, NoneOpen, TypeOK, Pools
    <3>4. closeTask # "none" =>
            \E s \in Tasks : task[s].job = "objects_close" /\ task[s].pc # "idle"
      BY <1>0, <2>1 DEF Closing
    <3>5. ClosingOver => closeTask # "none"
      BY DEF ClosingOver
    <3>6. closeTask \in {"ok", "failed"} => ClosingOver
      BY DEF ClosingOver
    <3>7. \A s \in Tasks : task[s].pc = "done" /\ task[s].job = "objects_session" => s # t
      BY <2>1
    <3>8. QED
      BY <1>0, <2>1, <3>1, <3>2, <3>3, <3>4, <3>5, <3>6, <3>7, Witnesses DEF Closing
  <2>3. CASE AcloseObjects(t, "error") /\ UNCHANGED pool
    <3>1. task'[t].pc = "joining"
      BY <1>0, <2>3, TaskEffects DEF AcloseObjects, Now
    <3>2. QED
      BY <2>1, <2>3, <3>1, Acloses DEF AcloseObjects, Closers
  <2>4. QED
    BY <1>3, <2>2, <2>3 DEF Entered, ObjectsPools
<1>4. CASE Exit(t) \/ CloseObjects(t)
  <2>1. /\ task[t].job \in Closers /\ task'[t].pc = "joining" /\ UNCHANGED pool
        /\ closeTask' = IF closeTask = "none" THEN "running" ELSE closeTask
        /\ closed' = closed \cup {"objects"}
        /\ task[t].pc # "done"
    BY <1>0, <1>4, TaskEffects DEF Exit, CloseObjects, AcloseObjects, At, Now, Closers
  <2>2. QED
    BY <2>1, Acloses
<1>5. CASE Joined(t)
  <2>1. /\ task[t].pc = "joining" /\ task'[t].pc = "done" /\ ClosingOver
        /\ UNCHANGED closeVars
    BY <1>0, <1>5, TaskEffects DEF Joined, Now
  <2>2. /\ (NoneOpen' <=> NoneOpen) /\ (ClosingOver' <=> ClosingOver)
        /\ closeTask' = closeTask /\ closed' = closed /\ pool' = pool
    BY <2>1 DEF NoneOpen, closeVars, ClosingOver
  <2>3. QED
    BY <1>0, <2>1, <2>2, Witnesses DEF Closing
<1>6. CASE CloseStorage(t) \/ StorageClosed(t)
  <2>1. task[t].job \notin Closers
    BY <1>6 DEF CloseStorage, StorageClosed, At, Closers
  <2>2. task'[t].pc \notin {"entering", "inside", "joining"}
    BY <1>0, <1>6, TaskEffects DEF CloseStorage, StorageClosed, Now
  <2>3. /\ closeTask' = closeTask /\ ("objects" \in closed' <=> "objects" \in closed)
        /\ \A p \in ObjectsPools : pool'[p] = pool[p]
    BY <1>0, <1>6 DEF CloseStorage, StorageClosed, TypeOK, Pools, ObjectsPools, StoragePools
  <2>4. QED
    BY <2>1, <2>2, <2>3, OthersClose
<1>7. CASE Cancel(t)
  <2>1. task \in [Tasks -> TaskState] /\ task[t] \in TaskState /\ task[t].pc \notin {"idle", "done"}
        /\ UNCHANGED pool
    BY <1>0, <1>7 DEF TypeOK, Cancel
  <2>2. \/ /\ Holds(t) /\ task'[t].pc = task[t].pc
           /\ UNCHANGED <<closed, closeTask>>
        \/ /\ task[t].job = "objects_session" /\ task'[t].pc = "joining"
           /\ closed' = closed \cup {"objects"}
           /\ closeTask' = IF closeTask = "none" THEN "running" ELSE closeTask
        \/ /\ task[t].job \notin Closers /\ task'[t].pc = "done"
           /\ UNCHANGED <<closed, closeTask>>
    BY <1>7, <2>1 DEF Cancel, TaskState, Closers, Downloads
  <2>3. CASE task[t].job \notin Closers /\ task'[t].pc = "done" /\ UNCHANGED <<closed, closeTask>>
    BY <2>1, <2>3, OthersClose
  <2>4. CASE Holds(t) /\ task'[t].pc = task[t].pc /\ UNCHANGED <<closed, closeTask>>
    <3>1. /\ (NoneOpen' <=> NoneOpen) /\ (ClosingOver' <=> ClosingOver)
          /\ closeTask' = closeTask /\ closed' = closed /\ pool' = pool
      BY <2>1, <2>4 DEF NoneOpen, ClosingOver
    <3>2. QED
      BY <1>0, <2>1, <2>4, <3>1 DEF Closing
  <2>5. CASE /\ task[t].job = "objects_session" /\ task'[t].pc = "joining"
             /\ closed' = closed \cup {"objects"}
             /\ closeTask' = IF closeTask = "none" THEN "running" ELSE closeTask
    BY <2>1, <2>5, Acloses DEF Closers
  <2>6. QED
    BY <2>2, <2>3, <2>4, <2>5
<1>8. QED
  BY <1>1, <1>2, <1>3, <1>4, <1>5, <1>6, <1>7 DEF Act

\* The end of the close task, and what it does to the pools.
LEMMA CloseStepKeeps ==
    ASSUME IInv, CloseStep \/ CancelClosing
    PROVE  IInv'
<1>1. /\ UNCHANGED <<task, file, thread, target, put, closed>>
      /\ closeTask \in {"running", "failing", "canceling"}
      /\ TypeOK /\ Closing
  BY DEF IInv, CloseStep, CancelClosing, fileVars
<1>2. Innermost \in ObjectsPools
  BY DEF Innermost, ObjectsPools
<1>3. /\ closeTask' \in {"running", "failing", "canceling", "ok", "failed", "canceled"}
      /\ closeTask' \in {"ok", "failed"} => NoneOpen
      /\ \/ pool' = pool
         \/ \E p \in ObjectsPools, result \in {"closed", "broken"} :
              pool' = [pool EXCEPT ![p] = result]
  BY <1>1, <1>2 DEF CloseStep, CancelClosing, NoneOpen, OpenPools
<1>4. /\ pool' \in [Pools -> {"none", "open", "closed", "broken", "stray"}]
      /\ NoneOpen => NoneOpen'
      /\ \A p \in ObjectsPools : pool'[p] = "stray" => pool[p] = "stray"
  BY <1>1, <1>3 DEF TypeOK, NoneOpen, ObjectsPools, Pools
<1>5. TypeOK'
  BY <1>1, <1>3, <1>4 DEF TypeOK
<1>6. Closing'
  <2>1. ~ClosingOver /\ closeTask # "none" /\ closeTask' # "none"
    BY <1>1, <1>3 DEF ClosingOver
  <2>2. QED
    BY <1>1, <1>3, <1>4, <2>1 DEF Closing
<1>7. \A t \in Tasks : (Writes(t) /\ Ended(t) /\ Holding(t))'
  BY <1>1 DEF IInv, Writes, Ended, Holding
<1>8. QED
  BY <1>1, <1>5, <1>6, <1>7 DEF IInv

-----------------------------------------------------------------------------
(* The theorems *)

LEMMA Initial == Init => IInv
<1> SUFFICES ASSUME Init PROVE IInv
  OBVIOUS
<1>1. PICK work \in Workloads :
        task = [t \in Tasks |-> [job |-> work[t], pc |-> "idle", n |-> 1, cancels |-> 0,
                                held |-> "none", outcome |-> "none"]]
  BY DEF Init
<1>2. work \in [Tasks -> Jobs]
  BY ClientConstants
<1>3. task \in [Tasks -> TaskState]
  <2>1. 1 \in 1..MaxAttempts /\ 0 \in 0..MaxCancels
    BY ClientConstants
  <2>2. QED
    BY <1>1, <1>2, <2>1 DEF TaskState, Places, Holdings, Outcomes
<1>4. \A t \in Tasks : NoFile \in FileState /\ file[t] = NoFile
  <2>1. 0 \in 0..Chunks
    BY ClientConstants
  <2>2. NoFile \in FileState
    BY <2>1, Zenon DEF NoFile, FileState
  <2>3. QED
    BY <2>2 DEF Init
<1>5. TypeOK
  BY <1>3, <1>4 DEF Init, TypeOK, Pools, ObjectsPools, StoragePools
<1>6. ASSUME NEW t \in Tasks PROVE Writes(t) /\ Ended(t) /\ Holding(t)
  BY <1>1, <1>4 DEF Init, Writes, Ended, Holding, NoFile
<1>7. Closing
  <2>1. NoneOpen /\ \A p \in ObjectsPools : pool[p] # "stray"
    BY DEF Init, NoneOpen, Pools, ObjectsPools, StoragePools
  <2>2. QED
    BY <1>1, <2>1, ClientConstants DEF Init, Closing
<1>8. QED
  BY <1>5, <1>6, <1>7 DEF IInv, Init

LEMMA Consecutive == IInv /\ [Next]_vars => IInv'
<1> SUFFICES ASSUME IInv, [Next]_vars PROVE IInv'
  OBVIOUS
<1>1. ASSUME NEW t \in Tasks, Act(t) PROVE IInv'
  <2>1. TypeOK' /\ MovesOnly(t)
    BY <1>1, OneMoves DEF IInv
  <2>2. Writes(t)' /\ Ended(t)' /\ Holding(t)'
    BY <1>1, PartsStep
  <2>3. Closing'
    BY <1>1, <2>1, ClosingStep
  <2>4. closeTask = "failed" => closeTask' = "failed"
    BY <1>1 DEF Act, Download, ObjectsAnswer, BeginAttempt, StorageAnswer, Broken, Chunk,
       ThreadEnds, AbandonWrite, Written, Finish, Enter, Entered, Exit, CloseObjects, Joined, CloseStorage,
       StorageClosed, Cancel, AcloseObjects, closeVars
  <2>5. ASSUME NEW s \in Tasks \ {t} PROVE (Writes(s) /\ Ended(s) /\ Holding(s))'
    BY <2>1, <2>4 DEF IInv, MovesOnly, TaskMoves, FileMoves, Writes, Ended, Holding
  <2>6. target' \in {"old"} \cup put'
    <3>1. CASE Finish(t)
      <4>1. file[t].read = Chunks /\ task[t].pc = "reading" /\ Writes(t)
        BY <1>1, <3>1 DEF Finish, IInv
      <4>2. file[t].length = Chunks
        BY <4>1 DEF Writes
      <4>3. QED
        BY <3>1, <4>2 DEF Finish, IInv
    <3>2. CASE ~Finish(t)
      <4>1. UNCHANGED <<target, put>>
        BY <1>1, <3>2 DEF Act, Download, ObjectsAnswer, BeginAttempt, StorageAnswer, Broken,
           Chunk, ThreadEnds, AbandonWrite, Written, Enter, Entered, Exit, CloseObjects, Joined,
           CloseStorage, StorageClosed, Cancel, fileVars
      <4>2. QED
        BY <4>1 DEF IInv
    <3>3. QED
      BY <3>1, <3>2
  <2>7. QED
    BY <2>1, <2>2, <2>3, <2>5, <2>6 DEF IInv
<1>2. CASE UNCHANGED vars
  BY <1>2 DEF IInv, TypeOK, Writes, Ended, Holding, Closing, NoneOpen, ClosingOver, vars, fileVars,
     closeVars
<1>3. QED
  BY <1>1, <1>2, CloseStepKeeps DEF Next, Act

LEMMA Inductive == Spec => []IInv
  BY Initial, Consecutive, PTL DEF Spec

\* Every variable of the clients has its type: no download of the storage client
\* makes more attempts than max_attempts, and no file outgrows the object.
THEOREM TypeCorrect == Spec => []TypeOK
<1>1. IInv => TypeOK
  BY DEF IInv
<1>2. QED
  BY <1>1, Inductive, PTL

\* atomic_destination and download_file replace the target only by a whole file,
\* and a download succeeds exactly when it has, for any number of tasks, chunks,
\* attempts and cancellations.
THEOREM TargetsWhole == Spec => []TargetIsWhole
<1>1. IInv => TargetIsWhole
  BY DEF IInv, Ended, TargetIsWhole
<1>2. QED
  BY <1>1, Inductive, PTL

\* file_io keeps a temporary file open for the thread that writes to it, whatever is
\* canceled meanwhile but the waiting for the thread itself.
THEOREM WritersHaveFiles == Spec => []WrittenWhileOpen
<1>1. IInv => WrittenWhileOpen
  BY DEF IInv, Writes, WrittenWhileOpen
<1>2. QED
  BY <1>1, Inductive, PTL

\* A task that is done has left no file or response open; and a call of aclose that
\* has returned no pool of the objects client, but for those that a canceled close
\* task did not reach and those that an __aenter__ opened too late.
THEOREM LeavesNothing == Spec => []NothingLeft
<1>1. IInv => NothingLeft
  <2> SUFFICES ASSUME IInv, NEW t \in Tasks, task[t].pc = "done" PROVE NothingLeft!(t)!2
    BY DEF NothingLeft
  <2>1. Writes(t) /\ Ended(t) /\ Closing
    BY DEF IInv
  <2>2. QED
    BY <2>1 DEF Writes, Ended, Closing, NoneOpen, ClosingOver
<1>2. QED
  BY <1>1, Inductive, PTL

\* A cancellation is raised in the end, held back or not, unless a clean-up fails:
\* the closing of the file that was being written, or of the client that was left.
THEOREM CancelsSurface == Spec => []CancelIsKept
<1>1. IInv => CancelIsKept
  BY DEF IInv, Holding, CancelIsKept
<1>2. QED
  BY <1>1, Inductive, PTL
=============================================================================
