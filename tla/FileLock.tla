------------------------------- MODULE FileLock -------------------------------
(***************************************************************************)
(* The file locks (CentralFileQueue) and the tasks that use them: PullTask, *)
(* UploadTask and DeleteTask ask IsFileLocked, then LockFile, work, and    *)
(* UnlockFile.  Each of the three calls is a critical section of its own,  *)
(* and the tasks do not look at what LockFile returns.                     *)
(*                                                                         *)
(* Locks are keyed by the path a task was given, and a file has two: the   *)
(* canonical one API calls use, and the aliased one the manifest and the   *)
(* cargo of file posts keep, which FileSync puts in its pull requests.     *)
(***************************************************************************)
EXTENDS Naturals

CONSTANTS
    Workers,      \* the ThreadWorkers, one task at a time each
    Files,
    Paths,
    Canonical,    \* Canonical[f]: the absolute path of f
    Aliased,      \* Aliased[f]: its path below an alias of a root directory
    NoPath        \* the worker's task has no file

ASSUME FileLockAssumption ==
    /\ Canonical \in [Files -> Paths]
    /\ Aliased \in [Files -> Paths]
    /\ \A f, g \in Files : Canonical[f] # Aliased[g]
    /\ NoPath \notin Paths

VARIABLES
    locked,       \* FileQueue::file_queue_, the paths mapped to true
    notice,       \* the last of FILE_LOCK, FILE_UNLOCK raised for a path
    place,           \* where each worker's RunTask is
    path          \* the path its task locks

lockVars == <<locked, notice, place, path>>

LockInit ==
    /\ locked = {}
    /\ notice = [n \in Paths |-> "none"]
    /\ place = [w \in Workers |-> "idle"]
    /\ path = [w \in Workers |-> NoPath]

Proceed(w, from, to) == place[w] = from /\ place' = [place EXCEPT ![w] = to]

Begin(w, n) ==
    /\ Proceed(w, "idle", "test")
    /\ path' = [path EXCEPT ![w] = n]
    /\ UNCHANGED <<locked, notice>>

\* A pull is asked for by the API or by FileSync.
StartPull(w) == \E f \in Files : \E n \in {Canonical[f], Aliased[f]} : Begin(w, n)

\* A delete is asked for by the API, or by a REQUEST_DELETE event.
StartDelete(w) == \E f \in Files : Begin(w, Canonical[f])

\* An upload is asked for by post id; the task makes the path canonical, if
\* the manifest knows the post.
StartUpload(w) == \E f \in Files : Begin(w, Canonical[f])

StartUnknownUpload(w) ==
    /\ Proceed(w, "idle", "done")
    /\ UNCHANGED <<locked, notice, path>>

\* IsFileLocked: a task that finds the path locked calls back with
\* A_FAIL_FILE_IN_USE, ...
FindLocked(w) ==
    /\ Proceed(w, "test", "done")
    /\ path[w] \in locked
    /\ UNCHANGED <<locked, notice, path>>

\* ... and one that does not goes on to lock it.
FindFree(w) ==
    /\ Proceed(w, "test", "lock")
    /\ path[w] \notin locked
    /\ UNCHANGED <<locked, notice, path>>

\* LockFile fails on a path that is locked by now, but raises the event, and
\* its result is not looked at.
LockFile(w) ==
    /\ Proceed(w, "lock", "working")
    /\ locked' = locked \cup {path[w]}
    /\ notice' = [notice EXCEPT ![path[w]] = "lock"]
    /\ UNCHANGED path

\* PullFile, ProcessFile or the soft delete returns; the task unlocks whatever
\* the status.
Work(w) ==
    /\ Proceed(w, "working", "unlock")
    /\ UNCHANGED <<locked, notice, path>>

\* Wrong variant: the task returns without giving the lock back.
UnlockFile_Forgotten(w) ==
    /\ Proceed(w, "unlock", "done")
    /\ UNCHANGED <<locked, notice, path>>

UnlockFile(w) ==
    /\ Proceed(w, "unlock", "done")
    /\ locked' = locked \ {path[w]}
    /\ notice' = [notice EXCEPT ![path[w]] = "unlock"]
    /\ UNCHANGED path

\* Callback and SetFinishedState
Finish(w) ==
    /\ Proceed(w, "done", "idle")
    /\ path' = [path EXCEPT ![w] = NoPath]
    /\ UNCHANGED <<locked, notice>>

StartTask(w) == StartPull(w) \/ StartDelete(w) \/ StartUpload(w) \/ StartUnknownUpload(w)

TaskStep(w) ==
    \/ FindLocked(w) \/ FindFree(w) \/ LockFile(w) \/ Work(w) \/ UnlockFile(w)
    \/ Finish(w)

LockNext == \E w \in Workers : StartTask(w) \/ TaskStep(w)

\* A task that has begun is polled until it is finished.
LockSpec == LockInit /\ [][LockNext]_lockVars /\ \A w \in Workers : WF_lockVars(TaskStep(w))

-----------------------------------------------------------------------------
Places == {"idle", "test", "lock", "working", "unlock", "done"}

\* The type invariant: a task at a lock has a path.
LockTypeOK ==
    /\ locked \subseteq Paths
    /\ notice \in [Paths -> {"none", "lock", "unlock"}]
    /\ place \in [Workers -> Places]
    /\ path \in [Workers -> Paths \cup {NoPath}]
    /\ \A w \in Workers : place[w] \notin {"idle", "done"} => path[w] \in Paths

Using(w) == place[w] \in {"working", "unlock"}

\* A path is locked only while some task works on it, however the tests, the
\* locks and the unlocks of different tasks interleave (a task may release
\* the lock another one took): none stays locked for good, and whoever is
\* told that a file is in use was refused for a task that did use it.  The
\* application's last notice says the same as the lock.
LockBacked ==
    \A n \in Paths :
        /\ n \in locked => \E w \in Workers : Using(w) /\ path[w] = n
        /\ n \in locked <=> notice[n] = "lock"

\* A path whose users keep coming and going becomes free again.
Unlocks == \A n \in Paths : [](n \in locked => <>(n \notin locked))

=============================================================================
