------------------------------ MODULE FolderSem ------------------------------
(***************************************************************************)
(* The folder semaphore: a FolderMap that threads share through instance_, *)
(* and in each thread a FolderSem on the stack around one use of a folder. *)
(* Downloads read a folder while they move a file into it                  *)
(* (GetFileStrategy); renames and moves write it (RenameHandler,           *)
(* FileHandler).                                                           *)
(*                                                                         *)
(* read_map_, write_map_ and requested_write_map_ have a mutex each; every *)
(* critical section is an action.  So is every access to instance_, which  *)
(* no mutex guards: the map is made by whoever finds none and deleted by   *)
(* whoever counts the last user out, and other threads come in between.    *)
(* Two threads may hold two maps; and one may be handed a map that is      *)
(* deleted under it.  What the program does then is undefined: the model   *)
(* records it (torn) and lets the program end (Crash).                     *)
(***************************************************************************)
EXTENDS Naturals, FiniteSets

CONSTANTS
    Users,        \* threads that use folders
    Folders,      \* folder post ids
    Reads,        \* Reads[p]: the folders thread p reads
    Writes,       \* Writes[p]: the folders thread p renames
    Throwing,     \* threads whose file system call may throw while they write
    NoUse,        \* the thread uses no folder
    Maps,         \* addresses of FolderMaps (a bound)
    NoMap         \* NULL

ASSUME FolderSemAssumption ==
    /\ IsFiniteSet(Users)
    /\ Reads \in [Users -> SUBSET Folders]
    /\ Writes \in [Users -> SUBSET Folders]
    /\ Throwing \subseteq Users
    /\ NoUse \notin Folders
    /\ NoMap \notin Maps

VARIABLES
    readMap,      \* FolderMap::read_map_ of every map
    writeMap,     \* FolderMap::write_map_, its keys: <<map, folder>>
    requested,    \* FolderMap::requested_write_map_, its keys
    instance,     \* FolderMap::instance_
    refCount,     \* g_ref_count
    live,         \* the maps that are allocated
    at,           \* where each thread is
    on,           \* the folder its FolderSem is used for
    fm,           \* FolderSem::fm_
    torn          \* a thread was left with a map that is deleted, or with none

contents == <<readMap, writeMap, requested>>
pointers == <<instance, refCount, live, torn>>
semVars == <<contents, pointers, at, on, fm>>

SemInit ==
    /\ readMap = [k \in Maps \X Folders |-> 0]
    /\ writeMap = {}
    /\ requested = {}
    /\ instance = NoMap
    /\ refCount = 0
    /\ live = {}
    /\ at = [p \in Users |-> "out"]
    /\ on = [p \in Users |-> NoUse]
    /\ fm = [p \in Users |-> NoMap]
    /\ torn = FALSE

MoveTo(p, from, to) == ~torn /\ at[p] = from /\ at' = [at EXCEPT ![p] = to]

\* What the maps of a FolderMap are asked for.
Entry(p) == <<fm[p], on[p]>>

-----------------------------------------------------------------------------
\* FolderMap::instance: look whether there is a map, ...
Start(p) ==
    /\ Reads[p] \cup Writes[p] # {}
    /\ MoveTo(p, "out", IF instance = NoMap THEN "create" ELSE "join")
    /\ UNCHANGED <<contents, pointers, on, fm>>

\* ... make one if there was none (a map that was lost to a second creator
\* stays allocated; once nobody has it, its address stands for a new one), ...
CreateMap(p) ==
    /\ MoveTo(p, "create", "join")
    /\ \E m \in Maps :
        /\ m \notin live \/ (m # instance /\ \A q \in Users : fm[q] # m)
        /\ instance' = m
        /\ live' = live \cup {m}
        /\ readMap' = [k \in Maps \X Folders |-> IF k[1] = m THEN 0 ELSE readMap[k]]
        /\ writeMap' = { k \in writeMap : k[1] # m }
        /\ requested' = { k \in requested : k[1] # m }
    /\ UNCHANGED <<refCount, torn, on, fm>>

\* ... count oneself in, ...
Join(p) ==
    /\ MoveTo(p, "join", "joined")
    /\ refCount' = refCount + 1
    /\ UNCHANGED <<contents, instance, live, torn, on, fm>>

\* ... and read the pointer again.
TakeMap(p) ==
    /\ fm' = [fm EXCEPT ![p] = instance]
    /\ torn' = (instance \notin live)
    /\ UNCHANGED <<contents, instance, refCount, live>>

-----------------------------------------------------------------------------
\* AquireRead: spin until no write is requested, ...
StartRead(p) ==
    /\ MoveTo(p, "joined", "check")
    /\ TakeMap(p)
    /\ \E f \in Reads[p] : on' = [on EXCEPT ![p] = f]

CheckRequested(p) ==
    /\ MoveTo(p, "check", "enter")
    /\ Entry(p) \notin requested
    /\ UNCHANGED <<contents, pointers, on, fm>>

\* ... then, under another mutex, count oneself in.
EnterRead(p) ==
    /\ MoveTo(p, "enter", "reading")
    /\ readMap' = [readMap EXCEPT ![Entry(p)] = @ + 1]
    /\ UNCHANGED <<writeMap, requested, pointers, on, fm>>

\* Wrong variant: the reader does not count itself out.
ReleaseRead_Uncounted(p) ==
    /\ MoveTo(p, "reading", "done")
    /\ UNCHANGED <<contents, pointers, on, fm>>

ReleaseRead(p) ==
    /\ MoveTo(p, "reading", "done")
    /\ readMap' = [readMap EXCEPT ![Entry(p)] = @ - 1]
    /\ UNCHANGED <<writeMap, requested, pointers, on, fm>>

-----------------------------------------------------------------------------
\* AquireWrite: look at the readers, ...
StartWrite(p) ==
    /\ MoveTo(p, "joined", "count")
    /\ TakeMap(p)
    /\ \E f \in Writes[p] : on' = [on EXCEPT ![p] = f]

CountReaders(p) ==
    /\ MoveTo(p, "count", IF readMap[Entry(p)] > 0 THEN "request" ELSE "claim")
    /\ UNCHANGED <<contents, pointers, on, fm>>

\* Wrong variant: the writer waits without a request.
RequestWrite_Silent(p) ==
    /\ MoveTo(p, "request", "count")
    /\ UNCHANGED <<contents, pointers, on, fm>>

\* ... ask them to stay out and try again while there are any, ...
RequestWrite(p) ==
    /\ MoveTo(p, "request", "count")
    /\ requested' = requested \cup {Entry(p)}
    /\ UNCHANGED <<readMap, writeMap, pointers, on, fm>>

\* wm_mtx_ of a map is held from the entry in write_map_ to the end of the
\* request.
WriteMutexFree(p) == \A q \in Users : at[q] = "clear" => fm[q] # fm[p]

\* Wrong variant: a writer does not look for another one.
ClaimWrite_Unchecked(p) ==
    /\ MoveTo(p, "claim", "clear")
    /\ WriteMutexFree(p)
    /\ writeMap' = writeMap \cup {Entry(p)}
    /\ UNCHANGED <<readMap, requested, pointers, on, fm>>

\* ... else take the folder unless another writer has it, ...
ClaimWrite(p) ==
    /\ MoveTo(p, "claim", "clear")
    /\ WriteMutexFree(p)
    /\ Entry(p) \notin writeMap
    /\ writeMap' = writeMap \cup {Entry(p)}
    /\ UNCHANGED <<readMap, requested, pointers, on, fm>>

FailWrite(p) ==
    /\ MoveTo(p, "claim", "count")
    /\ WriteMutexFree(p)
    /\ Entry(p) \in writeMap
    /\ UNCHANGED <<contents, pointers, on, fm>>

\* ... and withdraw the request.
ClearRequest(p) ==
    /\ MoveTo(p, "clear", "writing")
    /\ requested' = requested \ {Entry(p)}
    /\ UNCHANGED <<readMap, writeMap, pointers, on, fm>>

ReleaseWrite(p) ==
    /\ MoveTo(p, "writing", "done")
    /\ WriteMutexFree(p)
    /\ writeMap' = writeMap \ {Entry(p)}
    /\ UNCHANGED <<readMap, requested, pointers, on, fm>>

\* The rename throws: the handler in CheckForRename is outside the block of
\* the FolderSem, whose destructor knows of no write to release (write_ is
\* never set).
ThrowInWrite(p) ==
    /\ p \in Throwing
    /\ MoveTo(p, "writing", "done")
    /\ UNCHANGED <<contents, pointers, on, fm>>

-----------------------------------------------------------------------------
\* ~FolderSem: count oneself out, ...
Leave(p) ==
    /\ MoveTo(p, "done", IF refCount = 1 THEN "last" ELSE "out")
    /\ refCount' = refCount - 1
    /\ on' = [on EXCEPT ![p] = NoUse]
    /\ fm' = [fm EXCEPT ![p] = NoMap]
    /\ UNCHANGED <<contents, instance, live, torn>>

\* ... and, the last one of all, Shutdown: look whether there is a map, ...
FindMap(p) ==
    /\ MoveTo(p, "last", IF instance = NoMap THEN "out" ELSE "delete")
    /\ UNCHANGED <<contents, pointers, on, fm>>

\* ... delete the one there is now, whoever has it and whoever deleted it
\* before, ...
DeleteMap(p) ==
    /\ MoveTo(p, "delete", "deleted")
    /\ live' = live \ {instance}
    /\ torn' = (instance # NoMap
                  /\ (instance \notin live \/ \E q \in Users : fm[q] = instance))
    /\ UNCHANGED <<contents, instance, refCount, on, fm>>

\* ... and clear the pointer, whatever it points to by now.
ClearPointer(p) ==
    /\ MoveTo(p, "deleted", "out")
    /\ instance' = NoMap
    /\ UNCHANGED <<contents, refCount, live, torn, on, fm>>

\* The program uses memory it has freed.  It may go on with what it finds
\* there, end, or do anything else; the model lets it end and begin anew.
Crash ==
    /\ torn
    /\ readMap' = [k \in Maps \X Folders |-> 0] /\ writeMap' = {} /\ requested' = {}
    /\ instance' = NoMap /\ refCount' = 0 /\ live' = {} /\ torn' = FALSE
    /\ at' = [p \in Users |-> "out"]
    /\ on' = [p \in Users |-> NoUse]
    /\ fm' = [p \in Users |-> NoMap]

UserStep(p) ==
    \/ CreateMap(p) \/ Join(p) \/ StartRead(p) \/ StartWrite(p)
    \/ CheckRequested(p) \/ EnterRead(p) \/ ReleaseRead(p)
    \/ CountReaders(p) \/ RequestWrite(p) \/ ClaimWrite(p) \/ FailWrite(p)
    \/ ClearRequest(p) \/ ReleaseWrite(p) \/ ThrowInWrite(p)
    \/ Leave(p) \/ FindMap(p) \/ DeleteMap(p) \/ ClearPointer(p)

SemNext == Crash \/ \E p \in Users : Start(p) \/ UserStep(p)

\* A thread that has begun to use a folder is scheduled until it is done;
\* none has to begin.
SemSpec == SemInit /\ [][SemNext]_semVars /\ \A p \in Users : WF_semVars(UserStep(p))

-----------------------------------------------------------------------------
InUse == {"check", "enter", "reading", "count", "request", "claim", "clear",
          "writing", "done"}

Pcs == InUse \cup {"out", "create", "join", "joined", "last", "delete", "deleted"}

\* The type invariant: a FolderSem in use has a folder, and it has a map that
\* is allocated unless the program has torn one from it.
SemTypeOK ==
    /\ readMap \in [Maps \X Folders -> Nat]
    /\ writeMap \subseteq Maps \X Folders
    /\ requested \subseteq Maps \X Folders
    /\ instance \in Maps \cup {NoMap}
    /\ refCount \in Nat
    /\ live \subseteq Maps
    /\ at \in [Users -> Pcs]
    /\ on \in [Users -> Folders \cup {NoUse}]
    /\ fm \in [Users -> Maps \cup {NoMap}]
    /\ torn \in BOOLEAN
    /\ \A p \in Users :
        /\ on[p] # NoUse <=> at[p] \in InUse
        /\ at[p] \notin InUse => fm[p] = NoMap
        /\ ~torn /\ at[p] \in InUse => fm[p] \in live

Readers(k) == { p \in Users : at[p] = "reading" /\ Entry(p) = k }

Writers(k) == { p \in Users : at[p] \in {"clear", "writing"} /\ Entry(p) = k }

Counted == { p \in Users : at[p] \in InUse \cup {"joined"} }

\* g_ref_count is the number of FolderSems that are made and not destroyed:
\* the mutex it has to itself is enough for that, if not for the map.
HoldersCounted == refCount = Cardinality(Counted)

\* read_map_ counts the readers a folder has in that map: a count that is too
\* high locks every later rename out, one that is too low wraps the unsigned
\* counter (foldersem.cpp, ReleaseRead).
ReadersCounted ==
    \A k \in Maps \X Folders : readMap[k] = Cardinality(Readers(k))

\* No folder is renamed by two threads that hold the same map, although a
\* writer that throws never gives its entry back.  Threads that found no map
\* at the same time hold two (see SingleWrites).
SingleWriter ==
    \A k \in Maps \X Folders :
        /\ \A p, q \in Writers(k) : p = q
        /\ Writers(k) # {} => k \in writeMap

\* "multiple reads, single writes" (foldersem.h): no folder is renamed by two
\* threads.  The code breaks it - two FolderSems that are made at the same time
\* can make a map each - and keeps it while one map is there (OneMapSuffices).
SingleWrites ==
    \A p, q \in Users :
        at[p] = "writing" /\ at[q] = "writing" /\ on[p] = on[q] => p = q

\* A write request keeps readers out only while a writer is there to withdraw
\* it: requests are set and erased by different threads in any order, and one
\* that nobody erases would stop every later download into the folder.
RequestBacked ==
    \A k \in requested :
        \E p \in Users : at[p] \in {"count", "request", "claim", "clear"} /\ Entry(p) = k

\* A rename gets its turn although downloads keep coming: the request holds
\* new readers back until those inside have left.  Writers spin on one mutex,
\* so it may still be starved by other renames that get in again and again;
\* and nothing is promised for a folder whose writer threw and left its entry,
\* nor once a map was deleted under its users.
WriterGetsIn ==
    \A p \in Users : \A f \in Writes[p] :
        (\A q \in Throwing : f \notin Writes[q])
            => (<>[](\A q \in Users \ {p} : at[q] # "clear")
                => (at[p] = "count" /\ on[p] = f
                        ~> torn \/ (at[p] = "writing" /\ on[p] = f)))

=============================================================================
