----------------------------- MODULE AsyncClients -----------------------------
(***************************************************************************)
(* The tasks of an asyncio event loop that download a file or close a      *)
(* client, while they are canceled, perhaps repeatedly.  There are two     *)
(* clients: that of stellarmesh_objectstorage, which isolates file writes  *)
(* and its own closing from cancellation, and that of stellarmesh_storage, *)
(* which does not.                                                         *)
(*                                                                         *)
(* All downloads go to one target.  A file is as long as the chunks that   *)
(* were written to it; what the chunks hold is left out.  A task is        *)
(* canceled where it awaits, so every action is what one task, thread or   *)
(* peer does between two awaits.                                           *)
(***************************************************************************)
EXTENDS Integers

CONSTANTS
    Tasks,
    Workloads,      \* what the tasks of one run do
    Chunks,         \* the length of the object
    MaxAttempts,    \* ClientConfig.max_attempts of stellarmesh_storage
    MaxCancels      \* bound: how often a task is canceled

Downloads == {"objects_download", "storage_download"}
Jobs == Downloads \cup {"objects_session", "objects_close", "storage_close"}

ASSUME ClientConstants ==
    /\ Workloads \subseteq [Tasks -> Jobs]
    /\ \A work \in Workloads, s, t \in Tasks :     \* one block opens the one client
         work[s] = "objects_session" /\ work[t] = "objects_session" => s = t
    /\ Chunks \in Nat \ {0} /\ MaxAttempts \in Nat \ {0} /\ MaxCancels \in Nat

ObjectsPools == {"client", "signer"}
StoragePools == {"control", "data"}
Pools == ObjectsPools \cup StoragePools

VARIABLES
    task,       \* what every task does, awaits and has returned
    file,       \* its temporary file and the response it reads
    thread,     \* the thread that writes for it
    target,     \* whose content the target has
    put,        \* history: the tasks that have replaced the target
    pool,       \* the connection pools of the clients
    closed,     \* the clients with _closed set
    closeTask   \* _close_task of the objects client

closeVars == <<pool, closed, closeTask>>
fileVars == <<file, thread, target, put>>
vars == <<task, fileVars, closeVars>>

NoFile == [exists |-> FALSE, open |-> FALSE, length |-> 0, read |-> 0, response |-> FALSE,
           lost |-> FALSE]

\* The close task is over: its stack is never emptied again.
ClosingOver == closeTask \in {"ok", "failed", "canceled"}

Init ==
    /\ \E work \in Workloads :
         task = [t \in Tasks |-> [job |-> work[t], pc |-> "idle", n |-> 1, cancels |-> 0,
                                  held |-> "none", outcome |-> "none"]]
    /\ file = [t \in Tasks |-> NoFile]
    /\ thread = [t \in Tasks |-> "none"]
    /\ target = "old" /\ put = {}
    /\ pool = [p \in Pools |-> IF p \in StoragePools THEN "open" ELSE "none"]
    /\ closed = {}
    /\ closeTask = "none"

At(t, job, pc) == task[t].job = job /\ task[t].pc = pc
Goes(t, pc) == task' = [task EXCEPT ![t].pc = pc]
Ends(t, outcome) == task' = [task EXCEPT ![t].pc = "done", ![t].outcome = outcome]

-----------------------------------------------------------------------------
(* Downloads *)

\* get_object, or presign_get, is asked.
Download(t) ==
    /\ task[t].job \in Downloads /\ task[t].pc = "idle"
    /\ Goes(t, "asking")
    /\ UNCHANGED <<fileVars, closeVars>>

Removed(f) == [f EXCEPT !.exists = FALSE, !.open = FALSE, !.response = FALSE]

\* Closing flushes the file; when that fails its OSError is raised in place of
\* whatever was on its way.
Lost(f) == [Removed(f) EXCEPT !.lost = TRUE]

\* The download fails and cleans up: atomic_destination and open_object whatever the
\* exception is, download_file of the storage client except for CancelledError.
Leave(t, outcome) ==
    \/ Ends(t, outcome) /\ file' = [file EXCEPT ![t] = Removed(@)]
    \/ file[t].open /\ Ends(t, "error") /\ file' = [file EXCEPT ![t] = Lost(@)]

\* open_object has the response, atomic_destination makes the temporary file or
\* fails; or get_object fails.
ObjectsAnswer(t) ==
    /\ At(t, "objects_download", "asking")
    /\ \/ /\ Goes(t, "reading")
          /\ file' = [file EXCEPT ![t].exists = TRUE, ![t].open = TRUE, ![t].response = TRUE]
       \/ Ends(t, "error") /\ UNCHANGED file
    /\ UNCHANGED <<thread, target, put, closeVars>>

\* The request is signed and _temporary_path makes a file; either may fail.
BeginAttempt(t) ==
    /\ task[t].job = "storage_download" /\ task[t].pc \in {"asking", "backoff"}
    /\ \/ Goes(t, "requesting") /\ file' = [file EXCEPT ![t] = [NoFile EXCEPT !.exists = TRUE]]
       \/ Ends(t, "error") /\ UNCHANGED file
    /\ UNCHANGED <<thread, target, put, closeVars>>

NextAttempt(t) ==
    IF task[t].n < MaxAttempts
    THEN task' = [task EXCEPT ![t].pc = "backoff", ![t].n = @ + 1]
    ELSE Ends(t, "error")

\* A status: success, one that is retried, or another.
StorageAnswer(t) ==
    /\ At(t, "storage_download", "requesting")
    /\ \/ Goes(t, "reading") /\ file' = [file EXCEPT ![t].open = TRUE, ![t].response = TRUE]
       \/ NextAttempt(t) /\ file' = [file EXCEPT ![t] = NoFile]
       \/ Ends(t, "error") /\ file' = [file EXCEPT ![t] = NoFile]
    /\ UNCHANGED <<thread, target, put, closeVars>>

\* The connection breaks or stays silent; a response that is too short is noticed
\* by the HTTP libraries.  The storage client tries again with a new file, unless the
\* old one cannot be closed.
Broken(t) ==
    /\ \/ At(t, "objects_download", "reading") /\ Leave(t, "error")
       \/ /\ task[t].job = "storage_download" /\ task[t].pc \in {"requesting", "reading"}
          /\ \/ NextAttempt(t) /\ file' = [file EXCEPT ![t] = NoFile]
             \/ file[t].open /\ Ends(t, "error") /\ file' = [file EXCEPT ![t] = Lost(@)]
    /\ UNCHANGED <<thread, target, put, closeVars>>

\* A chunk arrives and a thread is asked to write it.
Chunk(t) ==
    /\ task[t].pc = "reading" /\ file[t].read < Chunks
    /\ Goes(t, "writing")
    /\ file' = [file EXCEPT ![t].read = @ + 1]
    /\ thread' = [thread EXCEPT ![t] = "running"]
    /\ UNCHANGED <<target, put, closeVars>>

\* The write succeeds or fails, whatever has become of the task.
ThreadEnds(t) ==
    /\ thread[t] = "running"
    /\ \/ /\ thread' = [thread EXCEPT ![t] = "written"]
          /\ file' = [file EXCEPT ![t].length = @ + 1]
       \/ thread' = [thread EXCEPT ![t] = "failed"] /\ UNCHANGED file
    /\ UNCHANGED <<task, target, put, closeVars>>

\* The task that waits for the thread in file_io is canceled itself, as only the end
\* of the event loop does.  The thread writes on; what it does matters no more.
AbandonWrite(t) ==
    /\ At(t, "objects_download", "writing") /\ thread[t] # "none"
    /\ thread' = [thread EXCEPT ![t] = "abandoned"]
    /\ UNCHANGED <<task, file, target, put, closeVars>>

\* What a task knows of its write, when the thread or the waiting for it is over.
Resumed(t) == thread' = [thread EXCEPT ![t] = IF @ = "abandoned" THEN @ ELSE "none"]

\* Fault: what the write returned is forgotten.
Written_IgnoresError(t) ==
    /\ task[t].pc = "writing" /\ thread[t] \in {"written", "failed", "abandoned"}
    /\ IF task[t].held # "none" THEN Leave(t, task[t].held)
       ELSE Goes(t, "reading") /\ UNCHANGED file
    /\ Resumed(t)
    /\ UNCHANGED <<target, put, closeVars>>

\* Fault: a cancellation during the write is forgotten.
Written_Uncanceled(t) ==
    /\ task[t].pc = "writing" /\ thread[t] = "written"
    /\ Goes(t, "reading") /\ UNCHANGED file
    /\ Resumed(t)
    /\ UNCHANGED <<target, put, closeVars>>

\* Fault: file_io waits on when the write has failed.
Written_OnSuccess(t) ==
    /\ task[t].pc = "writing" /\ thread[t] = "written"
    /\ IF task[t].held # "none" THEN Leave(t, task[t].held)
       ELSE Goes(t, "reading") /\ UNCHANGED file
    /\ Resumed(t)
    /\ UNCHANGED <<target, put, closeVars>>

\* file_io returns or raises: a cancellation it holds first, then the cancellation or
\* the error of the write.
Written(t) ==
    /\ task[t].pc = "writing" /\ thread[t] \in {"written", "failed", "abandoned"}
    /\ IF task[t].held # "none" THEN Leave(t, task[t].held)
       ELSE IF thread[t] = "abandoned" THEN Leave(t, "canceled")
       ELSE IF thread[t] = "failed" THEN Leave(t, "error")
       ELSE Goes(t, "reading") /\ UNCHANGED file
    /\ Resumed(t)
    /\ UNCHANGED <<target, put, closeVars>>

\* The response ends: the file is closed and replaces the target, or one of the
\* two fails.
Finish(t) ==
    /\ task[t].pc = "reading" /\ file[t].read = Chunks
    /\ \/ /\ target' = IF file[t].length = Chunks THEN t ELSE "torn"
          /\ put' = put \cup {t}
          /\ Ends(t, "ok")
          /\ file' = [file EXCEPT ![t] = Removed(@)]
       \/ Leave(t, "error") /\ UNCHANGED <<target, put>>
    /\ UNCHANGED <<thread, closeVars>>

-----------------------------------------------------------------------------
(* Opening and closing *)

\* Fault: a second call returns at once.
AcloseObjects_Early(t, held) ==
    IF "objects" \in closed
    THEN Ends(t, "ok") /\ UNCHANGED <<closed, closeTask>>
    ELSE /\ closed' = closed \cup {"objects"}
         /\ closeTask' = "running"
         /\ task' = [task EXCEPT ![t].pc = "joining", ![t].held = held]

\* aclose of the objects client: the first call starts the one task that closes,
\* every call waits for it.  "held" is the exception its caller holds.
AcloseObjects(t, held) ==
    /\ closed' = closed \cup {"objects"}
    /\ closeTask' = IF closeTask = "none" THEN "running" ELSE closeTask
    /\ task' = [task EXCEPT ![t].pc = "joining", ![t].held = held]

\* __aenter__
Enter(t) ==
    /\ At(t, "objects_session", "idle")
    /\ IF "objects" \in closed THEN Ends(t, "error") ELSE Goes(t, "entering")
    /\ UNCHANGED <<fileVars, closeVars>>

\* A pool that is opened when the close task is over stays open for good.
Opened == IF ClosingOver THEN "stray" ELSE "open"

\* The S3 client, and then, if there is another endpoint for it, the signer is
\* there; or one of them fails.
Entered(t) ==
    /\ At(t, "objects_session", "entering")
    /\ \/ /\ pool["client"] = "none"
          /\ pool' = [pool EXCEPT !["client"] = Opened]
          /\ Goes(t, "inside") \/ UNCHANGED task
          /\ UNCHANGED <<closed, closeTask>>
       \/ /\ pool["client"] # "none"
          /\ pool' = [pool EXCEPT !["signer"] = Opened]
          /\ Goes(t, "inside")
          /\ UNCHANGED <<closed, closeTask>>
       \/ AcloseObjects(t, "error") /\ UNCHANGED pool
    /\ UNCHANGED fileVars

\* The block of async with ends.
Exit(t) ==
    /\ At(t, "objects_session", "inside")
    /\ AcloseObjects(t, "none")
    /\ UNCHANGED <<fileVars, pool>>

\* aclose is called by another task, even while the client is being opened.
CloseObjects(t) ==
    /\ At(t, "objects_close", "idle")
    /\ AcloseObjects(t, "none")
    /\ UNCHANGED <<fileVars, pool>>

OpenPools == {p \in ObjectsPools : pool[p] = "open"}
Innermost == IF "signer" \in OpenPools THEN "signer" ELSE "client"

\* The close task: the signer first; a failure does not keep it from the rest.  What
\* was raised last is its own end.
CloseStep ==
    /\ closeTask \in {"running", "failing", "canceling"}
    /\ \/ /\ OpenPools = {}
          /\ closeTask' = CASE closeTask = "running"   -> "ok"
                            [] closeTask = "failing"   -> "failed"
                            [] closeTask = "canceling" -> "canceled"
          /\ UNCHANGED pool
       \/ /\ OpenPools # {}
          /\ \/ pool' = [pool EXCEPT ![Innermost] = "closed"] /\ UNCHANGED closeTask
             \/ pool' = [pool EXCEPT ![Innermost] = "broken"] /\ closeTask' = "failing"
    /\ UNCHANGED <<task, fileVars, closed>>

\* The close task is canceled itself, as only the end of the event loop does: before
\* it has begun, or while it closes a pool.
CancelClosing ==
    /\ \/ /\ closeTask = "running" /\ \A p \in ObjectsPools : pool[p] \in {"none", "open"}
          /\ closeTask' = "canceled"
          /\ UNCHANGED pool
       \/ /\ closeTask \in {"running", "failing", "canceling"} /\ OpenPools # {}
          /\ pool' = [pool EXCEPT ![Innermost] = "broken"]
          /\ closeTask' = "canceling"
    /\ UNCHANGED <<task, fileVars, closed>>

\* aclose returns or raises: a cancellation during it or of the close task first, then
\* the failure of the closing, then what the caller of aclose holds.
Joined(t) ==
    /\ task[t].pc = "joining" /\ ClosingOver
    /\ LET held == task[t].held
       IN  Ends(t, IF held = "canceled" \/ closeTask = "canceled" THEN "canceled"
                   ELSE IF closeTask = "failed" \/ held = "error" THEN "error"
                   ELSE IF held = "interrupted" THEN "canceled"
                   ELSE "ok")
    /\ UNCHANGED <<fileVars, closeVars>>

\* aclose of the storage client
CloseStorage(t) ==
    /\ At(t, "storage_close", "idle")
    /\ closed' = closed \cup {"storage"}
    /\ IF "storage" \in closed THEN Ends(t, "ok") ELSE Goes(t, "control")
    /\ UNCHANGED <<fileVars, pool, closeTask>>

\* A pool of it is closed, or fails to.
StorageClosed(t) ==
    /\ task[t].job = "storage_close" /\ task[t].pc \in StoragePools
    /\ \/ /\ pool' = [pool EXCEPT ![task[t].pc] = "closed"]
          /\ IF task[t].pc = "control" THEN Goes(t, "data") ELSE Ends(t, "ok")
       \/ /\ pool' = [pool EXCEPT ![task[t].pc] = "broken"]
          /\ Ends(t, "error")
    /\ UNCHANGED <<fileVars, closed, closeTask>>

-----------------------------------------------------------------------------
(* Cancellation *)

\* Fault: the second cancellation is not held back.
Holds_Once(t) ==
    /\ task[t].cancels = 0
    /\ At(t, "objects_download", "writing") \/ task[t].pc = "joining"

\* file_io and aclose of the objects client go on and raise it later.
Holds(t) == At(t, "objects_download", "writing") \/ task[t].pc = "joining"

Cancel(t) ==
    /\ task[t].pc \notin {"idle", "done"} /\ task[t].cancels < MaxCancels
    /\ LET Canceled(pc, held, outcome) ==
             task' = [task EXCEPT ![t].pc = pc, ![t].cancels = @ + 1,
                                  ![t].held = held, ![t].outcome = outcome]
       IN  \/ /\ Holds(t)
              /\ Canceled(task[t].pc, "canceled", "none")
              /\ UNCHANGED <<file, closed, closeTask>>
           \/ /\ ~Holds(t) /\ task[t].job = "objects_session"
              /\ Canceled("joining", "interrupted", "none")
              /\ closed' = closed \cup {"objects"}
              /\ closeTask' = IF closeTask = "none" THEN "running" ELSE closeTask
              /\ UNCHANGED file
           \/ /\ ~Holds(t) /\ task[t].job \in Downloads
              /\ \/ /\ Canceled("done", "none", "canceled")
                    /\ file' = [file EXCEPT ![t] =
                                  [Removed(@) EXCEPT
                                    !.exists = file[t].exists
                                               /\ task[t].job = "storage_download"]]
                 \/ /\ file[t].open
                    /\ Canceled("done", "none", "error")
                    /\ file' = [file EXCEPT ![t] = Lost(@)]
              /\ UNCHANGED <<closed, closeTask>>
           \/ /\ task[t].job = "storage_close"
              /\ Canceled("done", "none", "canceled")
              /\ UNCHANGED <<file, closed, closeTask>>
    /\ UNCHANGED <<thread, target, put, pool>>

Next ==
    \/ \E t \in Tasks :
         \/ Download(t) \/ ObjectsAnswer(t) \/ BeginAttempt(t) \/ StorageAnswer(t) \/ Broken(t)
         \/ Chunk(t) \/ ThreadEnds(t) \/ AbandonWrite(t) \/ Written(t) \/ Finish(t)
         \/ Enter(t) \/ Entered(t) \/ Exit(t) \/ CloseObjects(t) \/ Joined(t)
         \/ CloseStorage(t) \/ StorageClosed(t) \/ Cancel(t)
    \/ CloseStep \/ CancelClosing

Spec == Init /\ [][Next]_vars

\* A write ends, the closing of a connection pool ends, and the event loop resumes
\* a task whose await is over.
Fairness ==
    /\ WF_vars(CloseStep)
    /\ \A t \in Tasks : WF_vars(ThreadEnds(t)) /\ WF_vars(Written(t)) /\ WF_vars(Joined(t))

FairSpec == Spec /\ Fairness

-----------------------------------------------------------------------------
(* Properties *)

Places ==
    {"idle", "asking", "requesting", "reading", "writing", "backoff", "entering", "inside",
     "joining", "control", "data", "done"}
Holdings == {"none", "error", "canceled", "interrupted"}
Outcomes == {"none", "ok", "error", "canceled"}

TaskState ==
    [job : Jobs, pc : Places, n : 1..MaxAttempts, cancels : 0..MaxCancels,
     held : Holdings, outcome : Outcomes]

FileState ==
    [exists : BOOLEAN, open : BOOLEAN, length : 0..Chunks, read : 0..Chunks, response : BOOLEAN,
     lost : BOOLEAN]

\* Every variable has its type: no download makes more attempts than it may, and
\* no file gets longer than the object.
TypeOK ==
    /\ task \in [Tasks -> TaskState]
    /\ file \in [Tasks -> FileState]
    /\ thread \in [Tasks -> {"none", "running", "written", "failed", "abandoned"}]
    /\ target \in {"old", "torn"} \cup Tasks /\ put \subseteq Tasks
    /\ pool \in [Pools -> {"none", "open", "closed", "broken", "stray"}]
    /\ closed \subseteq {"objects", "storage"}
    /\ closeTask \in {"none", "running", "failing", "canceling", "ok", "failed", "canceled"}

\* The target holds what it held before or all of an object, although writes fail,
\* attempts break off and two downloads replace it; and a download succeeds if and
\* only if it has replaced it.
TargetIsWhole ==
    /\ target \in {"old"} \cup put
    /\ \A t \in Tasks : (task[t].job \in Downloads /\ task[t].pc = "done") =>
         (task[t].outcome = "ok" <=> t \in put)

\* Whatever is over has left nothing behind, however often it was canceled: a
\* download no open file, no open response and no temporary file, unless it was one
\* of the storage client and was canceled.  A call of aclose of the objects client
\* leaves no connection pool open, unless the end of the event loop canceled the
\* closing itself or a pool was opened after it: aclose does not wait for an
\* __aenter__ that is under way, and no later call closes what that opens.
NothingLeft ==
    \A t \in Tasks : task[t].pc = "done" =>
        /\ ~file[t].open /\ ~file[t].response
        /\ file[t].exists => task[t].job = "storage_download" /\ task[t].outcome = "canceled"
        /\ task[t].job \in {"objects_session", "objects_close"} =>
             \A p \in ObjectsPools :
                /\ pool[p] = "open" => closeTask = "canceled"
                /\ pool[p] = "stray" => \E s \in Tasks : /\ task[s].job = "objects_close"
                                                      /\ task[s].pc # "idle"

\* file_io: the objects client neither closes nor deletes a file to which a thread
\* is still writing, however often the task is canceled; only if the write's own
\* task is canceled too is the thread abandoned.
WrittenWhileOpen ==
    \A t \in Tasks : (task[t].job = "objects_download" /\ thread[t] = "running") =>
        file[t].exists /\ file[t].open /\ task[t].pc = "writing"

\* A cancellation reaches the caller as such, unless the cleaning up fails: the
\* temporary file cannot be closed, or the client that was being left.
CancelIsKept ==
    \A t \in Tasks : (task[t].pc = "done" /\ task[t].cancels > 0) =>
        \/ task[t].outcome = "canceled"
        \/ task[t].job \in Downloads /\ file[t].lost
        \/ task[t].job = "objects_session" /\ closeTask = "failed"

\* A canceled task ends, and so does every call of aclose of the objects client.
EndsAtLast ==
    \A t \in Tasks :
        (task[t].cancels > 0 \/ task[t].pc = "joining") ~> (task[t].pc = "done")
=============================================================================
