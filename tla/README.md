# libattic in TLA+

libattic is the client library of a file store on top of Tent: it watches
nothing by itself, an application asks it to upload, download, rename, delete
and share files, and a service thread asks the server for what other clients
did.  Everything happens on a pool of worker threads that share queues, lock
tables and an SQLite manifest.  This directory holds TLA+ modules for the parts
in which the order of steps matters, TLC configurations that check them on small
instances, and proofs that TLAPS checks for every instance.

Paths below are relative to `src/src/` of the repository.

## 1. Inventory

Each row: the state a component keeps, its operations, whom it meets, and the
module that models it.

| Component | State | Operations | Meets | Module |
|---|---|---|---|---|
| **Task dispatch** (`taskmanager`, `taskarbiter`, `taskpool`, `taskfactory`, `taskcontext`, `tasks`) | `context_queue_` of new requests, `task_filter_` of queued uploads and downloads, `context_map_` with a deque per task type | request methods, `RetrieveTasks`, `FilterTask`, `RequestTaskContext`, `RequestNextAvailableTaskContext`, `RemoveFromFilter`, `GetTentTask` | called by the C interface and by event listeners; read by every worker | `TaskArbiter` |
| **Worker threads** (`threading`, `threadworker`, `threadpool`) | `thread_worker_list_`, per worker `state_`, `current_task_`, `task_preference_`, `strict_` | `ExtendPool`, `Run`, `RetrieveTask`, `PollTask`, `StopThread`, `Shutdown` | arbiter, tasks | `TaskArbiter`, `Lifecycle` |
| **Service** (`servicemanager`, `servicetask`) | one SERVICE context | push the context, `RunTask` (retrieve tasks, process events, sleep), `OnFinished` | arbiter, event system | `TaskArbiter`, `EventSystem`, `Lifecycle` |
| **Folder semaphore** (`foldersem`) | `instance_`, `g_ref_count`; in each map `read_map_`, `write_map_`, `requested_write_map_` | `instance`, `Release`, `Shutdown`, `AquireRead/Write`, `ReleaseRead/Write` | downloads, renames, moves | `FolderSem` |
| **File locks** (`centralfilequeue`, `filequeue`) | `file_queue_`: path to bool | `IsFileLocked`, `LockFile`, `UnlockFile` | pull, upload and delete tasks; events FILE_LOCK and FILE_UNLOCK | `FileLock` |
| **Folder creation lock** (`foldercreationlock`, `folderhandler`) | set of (folder name, parent id) | `TryLock`, `Lock`, `Unlock`; `ValidateFolderPath`, `ValidateFolderTree` | folder tasks, push tasks, `FolderSync`, manifest, server | `FolderCreation` |
| **Event system** (`event`, `callbackhandler`) | event queue, listener map, callback lists | `RaiseEvent`, `ProcessEvents`, `Notify`, `RegisterForEvent`, `Shutdown` | every task raises, the service notifies | `EventSystem` |
| **Polling and synchronisation** (`polling`, `censushandler`, `filesync`, `foldersync`) | time of the last post, queues of posts to work off, `state_`, `running_` | `RunTask`, `Inquiry`, `SyncFile`, `SyncFolder` | server, manifest, task requests by events | `FolderTree`, `FileNames`, `Transfer` |
| **Upload** (`uploadtask`, `pushtask`, `post*strategy`, `chunktransform`) | file post and its in-transit flag, chunk groups | `PushFile`, `ChunkFile`, `UpdateFilePost`, `VerifyChunks` | server, file locks, manifest | `Transfer` |
| **Chunking** (`chunkbuffer`, `rollsum`) | window, buffers, position | `ReadChunk`, `Roll` | upload | `Transfer` (where chunks end is data) |
| **Download** (`pulltask`, `getfilestrategy`) | temporary file | retrieve, verify, move into place | folder semaphore, file locks | `Transfer` |
| **Rename, delete and folder tasks** (`renametask`, `renamehandler`, `deletetask`, `deletestrategy`, `foldertask`) | rows of the manifest, paths on disk | rename, move, soft delete, restore | folder semaphore, file locks | `FileNames`, `FolderTree` |
| **Manifest** (`filemanager`, `*table`) | SQLite tables | insert, query, update, delete under `manifest_mtx_` | everything | in the modules of its users; `ConfigTable` |
| **Credentials and recovery** (`credentialsmanager`, `passphrase`, `confighandler`) | access token, phrase token, master key, key pair, configuration post | register, enter, change, recover | server | `Account` |
| **Service life cycle and C interface** (`libattic`, `atticservice`, `client`) | the managers, `running_` | `start`, `stop`, request functions | all | `Lifecycle`, `Account` |
| **Other tasks** (`sharetask`, `metatask`, `configtask`, ...) | none of their own | sequences of requests | server | whether they answer: `Lifecycle` |
| **Network** (`netlib`, `connection*`, `response`, `posthandler`) | pool of connections, sockets, last response | borrow, write, read, give back | server, every task | `Wire` |
| **Posts and serialisation** (`*post`, `json*`) | data | to and from JSON | all | fields, where a property needs them |
| **Compression, cryptography, utilities** | none | wrappers | all | file system calls only |

What is hard, and what correct means, component by component:

- **Task dispatch.**  Three mutexes, and no operation holds two of them: the
  filter is tested, set and cleared and the pool pushed and popped in separate
  critical sections.  Correct: the filter and the pool agree; a merged request is
  never a lost one; a request is begun at last; one service task exists.
- **Worker threads and life cycle.**  Workers are interrupted and deleted without
  being joined, managers come up in one order, may fail, and go down in another.
  Correct: a service that says it runs has what its methods use; a pool has one
  service task; a delegate is called once, or is still there to be called.
- **Folder semaphore.**  Reader count, write request and write entry are
  guarded by three mutexes and a spin loop, and the map they are in by none: it is
  made by whoever finds none and deleted by the last user.  Correct: many readers or
  one writer; a writer gets in; nothing outlives the thread it stands for.
- **File locks.**  Test and lock are separate calls, everybody's unlock frees
  the lock, and a file has two paths.  Correct: one task at a time works on a
  file; no path stays locked.
- **Folder creation lock.**  `TryLock` tests and locks in two steps; the lock
  spans requests to the server.  Correct: one post per folder; each post has one
  row; a walk leaves no gap in the tree.
- **Event system.**  Listeners run under the registry's mutex, may raise more
  events, and the singleton is deleted while others raise.  Correct: every
  event raised while the service runs reaches the listeners once, in order;
  processing ends.
- **Polling.**  The time of the last post moves on before posts are processed,
  and posts come in an order other than that of the tree.  Correct: a follower
  comes to what the posts say, and gives up only what it cannot place.
- **Upload and download.**  A group of chunks may fail when others succeeded,
  the file changes while it is read, the process may end in between.  Correct: a
  file post out of transit refers to chunks that exist; a download is a file
  somebody uploaded; devices agree in the end.
- **Names of files.**  Row, post and disk change one after the other and
  are looked up by different columns.  Correct: one live post per file, at the
  place the user gave it, on every device.
- **Credentials.**  Correct: one master key, credentials that open it on the
  server, a key pair whose halves belong together, one shared directory.
- **Network.**  Correct: a connection has one user, an answer goes to who asked,
  and dead connections are got rid of.

`PROJECT.json` lists the single hazards at the lines where they bite.

## 2. Modules

| Module | Models | Built on |
|---|---|---|
| `Tasks` | task types in enum order, which are filtered, which the factory can make | |
| `TaskArbiter` | dispatch, workers, service | `Tasks` |
| `Coalescer` | abstract: what dispatch promises a caller | |
| `ArbiterCoalesces` | the refinement mapping | `TaskArbiter`, `INSTANCE Coalescer` |
| `FolderSem` | the folder semaphore and its users | |
| `FileLock` | file locks and the tasks that use them | |
| `FolderCreation` | creators and walkers of folders, the creation lock, the folder table, the server's posts | |
| `EventSystem` | queue, processors, listeners, callbacks, shutdown of the singleton | `INSTANCE EventChannel` |
| `EventChannel` | abstract: what the event system promises a listener | |
| `Lifecycle` | start and stop of the service, requests, callbacks, interrupted threads | |
| `ConfigTable` | the configuration table: keys, roots and working directories | |
| `Account` | passphrases, master key, key pair, configuration post, on several devices | `ConfigTable` |
| `Transfer` | a file from one device's disk to another's: push, upload, poll, download | |
| `FolderTree` | folders on several devices: tasks, posts, polling, `FolderSync` | |
| `FileNames` | where files are and what they are called: tasks, posts, polling, `FileSync` | |
| `Wire` | requests, pooled connections, answers | |
| `TaskArbiterProofs` | theorems | `ArbiterCoalesces`, `TLAPS` |
| `WireProofs`, `AccountProofs`, `TransferProofs`, `FolderTreeProofs`, `FileNamesProofs` | theorems | their module, `TLAPS` |
| `LockProofs` | theorems about three modules | `FolderSem`, `FileLock`, `FolderCreation`, `TLAPS` |
| `ServiceProofs` | theorems about two modules | `Lifecycle`, `EventSystem`, `TLAPS` |
| `MC...` | instances for TLC | their module |

The modules meet where one's step is another's subject.  A context that
`TaskArbiter` hands to a worker is a task of `FileLock` (its lock), `FolderSem`
(the folder it holds), `Transfer`, `FileNames` or `FolderTree` (what it does),
each of which lets tasks of one device begin in any order the dispatch allows.
`FolderCreation` is `FolderTree` with the creation of one folder taken apart:
the tree makes post and row in one step.  Every request to the server in those
modules "answers or fails", before or after the server did its part; `Wire` is what
such a request is made of.  `Lifecycle` starts and stops the worker and service that
`TaskArbiter` and `EventSystem` take as running.

### TaskArbiter

| Variable | Code |
|---|---|
| `hold` | `TaskManager::context_queue_` |
| `filter` | `TaskArbiter::task_filter_` (a map from type to map of keys there, a set of contexts here) |
| `pool` | `TaskPool::context_map_`, one sequence per type |
| `pc`, `ask`, `task` | where a `ThreadWorker` is in `Run`, the preferences it has still to ask for, its context |
| `batch` | the queue `RetrieveTasks` swapped out and has not handled yet |

One action is one critical section, or one stretch of code between two that
touches no shared state.  A worker asks for its preferred types in turn
(`TakePreferred`, `SkipPreferred`), then, unless it is strict, for anything
(`TakeAny`), or sleeps (`FindNothing`).  A context of a filtered type goes
through `CheckFilter` and `EraseFilter`, the two critical sections of
`RemoveFromFilter`.  `MakeTask` or `DropUnconstructible` is `GetTentTask`;
`StartTask`, `RunTask` and `FinishTask` are the passes of `PollTask`.  The
worker whose task is the service swaps the queue (`RetrieveContextQueue`) and
handles each context: `PassUnfiltered`, `DropDuplicate`, or `AdmitNew` then
`InsertFilter`, then `PushBack`.

`TakeAny` picks the smallest type with a context because
`RequestNextAvailableTaskContext` iterates a `std::map` in key order.

A context is its type and one key.  The code compares the "filepath" value for
PUSH and PULL; for the other types the key only tells requests apart.  What a
task does is one step (`RunTask`), assumed to end; the service task never ends.

### FolderSem

| Variable | Code |
|---|---|
| `instance`, `refCount` | `FolderMap::instance_`, `g_ref_count` |
| `live` | the maps that are allocated; `Maps` are their addresses |
| `readMap`, `writeMap`, `requested` | the three maps of each `FolderMap` |
| `at`, `on`, `fm` | the thread's place, its folder, and the map its `FolderSem` was handed (`fm_`) |
| `torn` | history: a thread was left with a map that is deleted, or handed none |

`FolderMap::instance` is `Start` (look whether there is a map), `CreateMap` if there was
none, `Join` (count oneself in, the one step under a mutex) and `TakeMap` (read the
pointer again, with the step that follows).  `CheckRequested`, `EnterRead`, `ReleaseRead` are a
download; `CountReaders`, `RequestWrite`, `ClaimWrite` or `FailWrite`, `ClearRequest`,
`ReleaseWrite` a rename.  `wm_mtx_` of a map is the one mutex held over another, from
`ClaimWrite` to `ClearRequest`.  `ThrowInWrite` is a file system call that throws while the
folder is held.  `Leave` counts out, and the last goes on with `Shutdown`: `FindMap`,
`DeleteMap`, `ClearPointer`, with others in between.  So two threads may hold two maps,
a map may be deleted under a thread, and the pointer to a new map be cleared.  What a thread does with
a map that is deleted is undefined: the model sets `torn` and lets nothing
but `Crash` follow, the end of the program and a new one.

### FileLock

`locked` is the set of paths mapped to true, `notice` the last FILE_LOCK or
FILE_UNLOCK event the application was sent, `place` and `path` the task of each
worker.  A task is started by `StartPull` (both kinds of path: API calls give
the canonical one, `FileSync` the aliased one), `StartDelete`, `StartUpload` or
`StartUnknownUpload`, tests (`FindLocked`, `FindFree`), locks, works, unlocks
and finishes.  Its specification is `LockSpec`, that of `FolderSem` is `SemSpec`, that of
`EventSystem` is `EventSpec`: one module proves theorems about the two and
`FolderCreation`, another about `EventSystem` and `Lifecycle`, and needs their names apart.

### FolderCreation

| Variable | Code |
|---|---|
| `slots` | `CreationQueue::folder_map_`: (name, parent id) of the folders being created |
| `posts` | the folder posts on the server, in the order they came; a post's id is its number |
| `rows` | the rows of `FolderTable` |
| `pc`, `slot`, `rest`, `id`, `target` | the locals of a thread in `FolderHandler` or `FolderSync` |

A creator is a task inside `ValidateFolderPath`: for each name of its path
`WaitSlot` and `LockSlot` (`fcl::TryLock`, two critical sections), `FindFolder`
or `MissFolder`, `PostFolder` with `PostFails` and `PostUnanswered` for requests
that fail, `InsertEntry`, `UnlockSlot`, `NextName`.  A walker is `FolderSync` or
a task inside `ValidateFolderTree`: from a post of the server up to a root
(`WalkUp`), getting the posts it has no row for (`RetrievePost`), and inserting
them under the same lock, with an alias if the name is taken (`LookUpName`,
`InsertPlain`, `InsertAliased`).  `PostElsewhere` is another client.

`own` marks the posts whose id this client was told.  `CreateFolderEntry` is one
step because it runs under `manifest_mtx_`.  Which row `GetFolderEntry` returns
of several with one name is open in SQL and a choice here.

### EventSystem

| Variable | Code |
|---|---|
| `queue` | `EventSystem::event_queue_`, under `queue_mtx_` |
| `listeners` | `listener_map_`: the application's `CallbackHandler` and the `TaskManager`, once per registration |
| `callbacks` | `CallbackHandler::callback_map_` |
| `holder` | who holds `listen_mtx_` |
| `pc`, `left`, `batch`, `index`, `told` | locals of `ProcessEvents` and of the two `Notify` |
| `half` | an application thread between the two appends of `RegisterCallback` |
| `service`, `manager` | the `ServiceTask` and the `TaskManager` |

A processor counts the queue once (`CountEvents`), moves strides to
`tempQueue` (`CopyStride`), and for each event locks the listeners, tells them one
after the other (`CallListener`), each callback of the application being a step
under `cbm_mtx_` (`CallBack`), and unlocks.  A callback may raise an event
(`Echo`).  The three steps of `Shutdown` are `ClearListeners`, `ClearQueue`,
`DeleteInstance`.  `StopEarly` is a stop before any worker took the service
context: no `ServiceTask` ends and the deleted `TaskManager` stays listed.

`cleared` and `early` are history.  A callback that registers another blocks on
`listen_mtx_`, which its own thread holds; it is left out (section 5).  Where
`MaxQueue` events wait, the event of a callback is left out.  The text of an event
is not looked at.

### Lifecycle

`mgr` is the state of each manager pointer of `AtticService` ("raw" is a manager
whose `Initialize` failed, "dangling" a pointer to a deleted one), `app` the call
the application's thread is in, `req` where the context of a request is,
`delegates` and `answers` the `delegate_map_` and the calls made through it,
`worker` the threads of the present pool and `ghost`, for each stop, those of that
pool that still run.  `failed` is history: a start has failed since the last stop.  `InitializeManager` and `ShutdownManager` go through
`StartOrder` and `StopOrder` a manager at a time; the workers run between.
`EndOfThread` is what an interrupted thread still does: the step it was in; a service
thread that was left may take from the queues once more beside the service of the next start.
Kinds of requests are told apart by what their task does with its delegate
(`Answers`).

### Account and ConfigTable

The server's posts are `creds`, `publics`, `privates`, `configs`, `folders`; of each
device `held` (master key), `pair`, `table` (configuration table), `rows`, `roots`,
`entered`, and `job`, the operation it is in.  An operation is a chain of
requests, each an action with an outcome: answered, refused, or done and the
answer lost.  `Begin` starts `RegisterPassphrase`, `EnterPassphrase`,
`ChangePassphrase` or `EnterRecoveryKey`; `Open` to `PushAtticCredentials` are
class `Passphrase`; `Enter` to `RetrievePublicPrivateKeyPair` are
`AtticService::EnterPassphrase` with `ConfigHandler`; the last four register the
key pair.  `ConfigTable` has `FileManager`'s operations on the configuration table
as operators on a set of rows.

Keys, aliases and ids, random in the code, are stamped with the device and its
operation, so that they are unique.  A phrase opens what was encrypted with it
and nothing else.  `PutRevives` says that the server takes a PUT to a post that
was deleted; the code deletes the credentials and puts their next version, and
could not work otherwise.

### Transfer

| Variable | Code |
|---|---|
| `disk` | the file on each device: the sequence of its chunks |
| `info` | its row in `FileTable`, with the chunk map of `FileInfo` |
| `want`, `job` | tasks asked for, and the one that holds the file's lock |
| `inbox`, `news` | the post in `FileSync`'s queue; whether the next poll finds it |
| `post`, `groups`, `stored` | the file post, the chunk posts, the attachments the server keeps |

`PushFile` is `PushTask`; an upload is `BeginTransit`, `RetrieveChunkPosts`,
`UploadGroup` for each group, `UpdateFileInfo`, `UpdateFilePost`, `EndTransit`,
where each change of the file post is a GET and a PUT of what was got.  The file
is read group by group as it is then.  The server keeps all chunks of a group, or a part of
them, and its answer lists what it kept, or another thing beside it, or it refuses the
group.  `VerifyChunks` asks whether what is listed was sent, and not whether what was
sent is listed: a part that is kept without another thing passes.  A download is `SyncFile`,
`ConstructFile`, `MoveFile`; `CreateNewFile` and `MoveFile` have the requests in them that may fail.  `Crash` is an exception out of a task, which nobody catches.

A chunk is a number and its name the MAC of its plaintext; where the rolling
checksum cuts is given by `Contents`.  An attachment's digest is that of the
encrypted chunk with a random iv: name and upload.  `read` and `lossy` in a row are
history: what the uploader read, and whether a group was refused ("refused") or kept in
part and not noticed ("short").

### FolderTree

`posts` with the server's `clock`, and of each device `rows` (`FolderTable`), `disk`
(directories as paths), `task` (its `FolderTask`), `since`, `phase`, `polled` and `trash`
(`Polling`, `CensusHandler`), `postMap` and `sync` (`FolderSync`).  The user makes,
moves and removes directories; a task goes through the names of the path
(`CreateEntry`, `FindEntry`, `MoveEntry`, ...), the rows below a removed folder
(`MarkDeleted`, `ReadForDelete`, `WriteDeleted`); each request answers or fails.
Polling asks for deleted and live posts in turn and moves `since` on at once;
`FolderSync` pops the post with the smallest id, climbs to the root, and renames
or makes the directory.  `RenamePath` and `WithDirs` are what rename(2) and
`create_directories` do.

Post ids run from 1, the root's, to `MaxId`; the folders of `Old` have some of
them at the start.  A walk up the rows goes as many steps as there are folders; the code's does not
return from a cycle, and an action that would run into one is not enabled.

### FileNames

`disk` maps a place (folder and name) to a file, `rows` is `FileTable` in the order
the rows went in, for queries keep the last row they read, `posts` and `order` are
the file posts, the rest the queues and locals of the tasks and of `FileSync`.
`RenameTask` is `BeginRename`, `LookUp` (by name and folder), `GetFilePost`,
`UpdateFileMetaPost`, and three statements on the manifest; `DeleteTask` marks the
row first; `PushFile` posts what it finds no row for.  A follower polls, renames
by `RenameFileLocalCache` and `UpdateFilepath`, and pulls: a `PullTask` looks the row up by path when it
begins (`BeginPull`) and puts the file where that row's folder and name say when it ends
(`EndPull`), which is another place once a rename has left the path column behind; or it fails.

`home`, `owner` and `missed` are history: where the user wants a file, who had a name
first, and the posts whose file a device failed to download or threw away.  `Patient` restricts the user, and both of its conditions are needed.  She
waits for the tasks of a place before she changes it again: two renames of a file may be run in
either order.  And she gives a file no name another had: after a rename
whose PUT failed, the row has the old name still; rename the file back while a new one
takes the name, and the look-up by name finds the wrong post.

`Followed` has three exceptions (`Good`).  A post must be the only one of its file (`Single`): after a
rename that failed, the place the file now has finds no row, the push that follows makes a
second post, and of two posts of one file a follower can have the file at one place only.
The device must not have failed to download it: nobody asks again.  And it must have
no second copy (`Once`): a download that ends after the post has moved on leaves one, and
then the file may end up elsewhere (section 5).

A query keeps the last row it reads (`LastOf`: the row at the greatest position that
fits), and what REPLACE leaves is the rows at the positions it keeps (`Kept`): both are
stated by positions, which the proofs reason about, and not as filters of a sequence.

### Wire

`pool` is `ConnectionPool::pool_`, `lock` who has `pool_mtx_`, `link` what each
connection is and what is under way on it in both directions, `con` the connection
a thread borrowed, `response` what its `PostHandler` was told.  A request borrows
(`TakePooled`, or `ExtendPool`, `Connect` a number of times, `TakeExtended`), writes, reads
(`InterpretResponse`) and gives back; `WriteThrows` loses the connection.
`ServerAnswers` and `ServerCloses` are the server.  A request in `Wire` is named
after its thread and becomes `Old` when the thread is through.  `fresh` and `mixed` are history.

The functions of `netlib` make a connection for each request, share nothing, and
are left out.

### Wrong variants

Next to some actions stands a "wrong variant", `Take_NoPop` beside `Take`, for
example.  No specification uses them.  Each is the action with a plausible
mistake in it; `PROJECT.json` pairs it with the property that TLC finds violated
when it takes the action's place.  They show that the properties depend on the
code and not on the shape of the model.

## 3. Runs

| Run | Instance | Distinct states | Shows |
|---|---|---|---|
| `dispatch` | 3 workers (service, upload, generic), 3 requests, 3 waiting | 118,906 | `NoStrandedFilter`; dispatch implements `Coalescer` (`Coalesces`), its liveness included (`BegunAtLast`) |
| `folder_sem` | 3 workers, of which 2 read and 2 write (one may throw), 2 folders, 2 addresses of maps | 117,620 | `ReadersCounted`, `SingleWriter`, in each map; a writer gets in although readers keep coming |
| `file_lock` | 3 workers, 2 files with 2 paths each | 134,464 | `LockBacked`; every lock is freed |
| `folder_creation` | 2 creators (of x/y and of x), 1 walker, another client, 2 posts | 409,929 | `OneRowPerPost`, `PostsRecorded`, `TreeValidated`; every creation lock is freed |
| `events` | service and application process, 1 registrar, a callback that raises, stride 1 | 164,990 | `RegisteredListens`; the queue implements `EventChannel`; a call of `ProcessEvents` ends; events flow |
| `account` | 2 devices, 2 phrases, 3 operations, 1 failure | 1,877,561 | `OneMasterKey`, `CredentialsKept`, `SharedDirectory`, `KeysPaired`, `RootsKept` |
| `lifecycle` | 2 workers, 1 request, 3 starts, 2 stops | 487,460 | `RunningReady`, `OneService`, `DelegatesHeld`; a request whose task answers is answered |
| `transfer` | 2 devices, contents of 1 and 2 groups, 1 edit, 2 uploads, 1 failure | 307,842 | `Fetchable`, `Reassembles`, `Converges`; a file post leaves transit |
| `folder_tree` | device 1 makes, moves, removes; device 2 starts empty, makes and follows; 3 changes, 1 failure | 1,940,255 | `RowsAgree`, `GivesUpEarly` |
| `file_names` | a mover and a follower, 2 files, 2 folders, 2 workers, 3 changes, 1 failure | 501,316 | `Sent`, `Followed` |
| `wire` | 2 threads, one of which reuses its handler, 2 faults | 774,583 | `OneHolder`, `OwnAnswer`, `PoolBound`; requests are answered again when faults stop |
| `round_trip` | a file of two groups, no edits, no failures | to the violation | the disagreement of section 5 |

Invariants that a proof covers (`TypeOK` of eight modules, `SingleService`, `NoDuplicateQueued`,
`RequestBacked`, `SlotBacked`, `OneNotifier`, `TasksListed`) are not repeated in the
runs; section 4 has them.

**Bounds.**

- `MaxWaiting` = 3 (`dispatch`) limits the contexts that wait, in `TaskManager`'s
  queue, in the service's batch and in the pool together: one queued, its twin in
  the service's hands and a third request arriving is what every race of the
  filter needs.  Three workers are the smallest pool with one worker of each kind
  `ExtendPool` makes; the generic one may take the service context too.
- Three workers are two readers of one folder and two writers of the other, of whom one may
  throw, and one of the writers renames the readers' folder too: two threads of every kind
  meet.  With two addresses two workers have a map each while the third waits for one, a map is
  made anew where one was deleted, and one is deleted under its user.
- `MaxPosts` = 2 (`folder_creation`) lets two creators post one folder, a creator post
  what another client posted too, and a walk pass a child and its parent.
- `MaxQueue` = 2 and `Stride` = 1 (`events`): a call of `ProcessEvents` takes two
  strides while events come, and two processors have strides of one queue.
  `MaxRegistrations` = 2, `MaxEarly` = 1: a listener that is listed twice.
- `MaxOps` = 3 (`account`): register, change or recover, and enter elsewhere.  Two
  phrases are needed to change one; two aliases for two roots; `MaxFailures` = 1 at
  any request.
- `MaxStarts` = 3, `MaxStops` = 2 (`lifecycle`): starts that fail and ones that
  find managers, before and after a stop, and threads of two pools that linger beside a
  third.  One request, which a lingering thread may hold while the next pool is made; the
  theorems have no such bound.
- `GroupSize` = 2, contents `<<2, 1>>`, `<<1, 3, 2>>` (`transfer`): the names of the chunks
  are not in the order of their positions; a file of one group and one of two (the
  theorems cover the empty one); an upload that overlaps a download of the last version, and one after an
  edit.
- `MaxDepth` = 2, `MaxChanges` = 3 (`folder_tree`): a folder made below one that
  was moved, and one removed that came back.  One device moves: two that do can
  make a cycle, from which the code does not return (section 5).
- `MaxPosts` = 2, `MaxChanges` = 3 (`file_names`): two renames of one file and one
  new file, two workers that take tasks side by side.
- `Stride` = 1 instead of 3, `MaxFaults` = 2 (`wire`): a pool that runs empty with
  connections out, as three and four threads do with a stride of three; a connection that fails twice, or
  one that fails and an answer without a length.  `Conns` are numbers, given again when free, and
  never run out (an assumption of the module).

Symmetry is declared where no liveness is checked and the elements are alike:
phrases and devices in `account`, the workers of `file_names`.

Deadlock is checked where every reachable state has a step by design (`dispatch`, `folder_sem`,
`file_lock`, `folder_creation`).  Elsewhere the system stops: operations, edits, starts and
changes are bounded, and in `wire` a mutex may stay locked for good.

**Fairness.**  A thread that was started is scheduled again and again, and no
critical section keeps its mutex: weak fairness of each worker or thread.
Callers are under no fairness, they need not call.

- `TaskArbiter`, `FolderSem`, `FileLock`, `FolderCreation`: weak fairness per
  worker or thread.  A META request, which only generic workers
  serve, is promised nothing, since a generic worker prefers the smallest type;
  `Coalescer` promises progress only for types with a worker of their own.
  `MutexClass::Lock` tries and sleeps, so it is not fair to its waiters:
  `WriterGetsIn` promises a rename its turn unless other renames keep getting in
  for ever, and nothing for a folder whose writer threw, nor after a map was deleted under its
  users.
- `EventSystem`: weak fairness of each processor, and strong fairness of
  `LockListeners`, for `listen_mtx_` is taken and given back by the other
  processor: a thread that sleeps and retries gets it at last.  `ClearQueue` weakly and
  `DeleteInstance` strongly (it needs the mutex) end a shutdown.  None on raising or
  registering.
- `Lifecycle`: a call of the application returns, and every thread is scheduled.
  Which context is taken next is not promised; there are finitely many.
- `Transfer`: a worker goes on with the task it has.
- `Wire`: each thread inside a request goes on, and the server answers what it was
  asked.  `Recovers` promises answers if somebody keeps asking.
- `Account`, `FolderTree`, `FileNames` state no fairness and check no liveness:
  their properties are about what holds when all is quiet.

## 4. Proofs

TLAPS checks these for all constants that satisfy the assumptions named in the
modules, and without bound on the number of workers, threads, devices, requests, failures
or files:

| Theorem | States |
|---|---|
| `TaskArbiterProofs!TypeCorrect`, `FilterNeverStranded`, `QueuedOnce`, `OneService` | types, `NoStrandedFilter`, `NoDuplicateQueued`, `SingleService` |
| `TaskArbiterProofs!DispatchCoalesces` | the refinement `Coalesces`: `TaskArbiter` implements `Coalescer` |
| `LockProofs!SemTypeCorrect`, `ReadCount`, `OneWriterPerMap`, `NoStaleRequest`, `HolderCount` | of `FolderSem`: types, `ReadersCounted`, `SingleWriter`, `RequestBacked`, `HoldersCounted` |
| `LockProofs!OneMapSuffices` | of `FolderSem`: `SingleWrites`, as long as all who use a folder hold one map |
| `LockProofs!LocksTyped`, `NoOrphanedLock` | of `FileLock`: types, `LockBacked` |
| `LockProofs!FolderTypeCorrect`, `NoOrphanedSlot`, `RowsUnique`, `NoPostForgotten`, `WalkLeavesNoGap` | of `FolderCreation`: types, `SlotBacked`, `OneRowPerPost`, `PostsRecorded`, `TreeValidated` |
| `ServiceProofs!TypeCorrect`, `RunsWhole`, `DelegatesKept`, `ServedAlone` | of `Lifecycle`: types, `RunningReady`, `DelegatesHeld`, `OneService` |
| `ServiceProofs!EventsTyped`, `NotifiesAlone`, `TasksListedOnce`, `ListensOnceRegistered`, `TellsInOrder` | of `EventSystem`: types, `OneNotifier`, `TasksListed`, `RegisteredListens`, and the refinement `KeepsOrder` |
| `WireProofs!TypeCorrect`, `HeldOnce`, `PoolBounded`, `AnswersOwn` | types, `OneHolder`, `PoolBound`, `OwnAnswer` |
| `AccountProofs!TypeCorrect`, `OneMasterKeyHolds`, `CredentialsKeptHolds`, `RootsKeptHolds`, `KeysPairedHolds`, `SharedDirectoryHolds` | types, `OneMasterKey`, `CredentialsKept`, `RootsKept`, `KeysPaired`, `SharedDirectory` |
| `TransferProofs!TypeCorrect`, `FetchableHolds`, `ReassemblesHolds`, `ConvergesHolds` | types, `Fetchable`, `Reassembles`, `Converges` |
| `FolderTreeProofs!TypeCorrect`, `RowsAgreeHolds`, `GivesUpEarlyHolds` | types, `RowsAgree`, `GivesUpEarly` |
| `FileNamesProofs!TypeCorrect`, `SentHolds`, `NamesKept` | types, `Sent`, `Owned` (a name has one file) |

The assumptions on the constants are those of the modules: which sets are finite or
disjoint, that a stride is not 0, that `Wire`'s connection numbers do not run out.  `CredentialsKeptHolds` and `KeysPairedHolds` have a hypothesis
more, `PutRevives`: that the server takes a PUT to a deleted post is a fact about the
server, and the run sets it too.

**Dispatch.**  No property of the filter is inductive alone.  `IInv` joins the
type invariant, `SingleService`, `NoStrandedFilter`, `NoDuplicateQueued` and an
auxiliary conjunct that ties a worker's place to what it holds (a worker inside
`RetrieveTasks` holds the service context; one that inserts or pushes has a
batch; the context it inserts is not in the filter).  The argument: the code
tests the filter and enters it in two critical sections, which is sound only
because a single thread does so; that thread is single because the service
context is one and never finishes; so between `AdmitNew` and `InsertFilter`
nobody enters the same context, and the filter can only shrink.  From that
`NoStrandedFilter` follows, and with it `NoDuplicateQueued`.  The proofs have a
step per action; lemmas say what `Head`, `Tail` and `Append` do to the pool.

`DispatchCoalesces` builds on the same `IInv`.  `ArbiterCoalesces` counts the copies of a
request no task was made for in four places: the manager's queue, the service's batch,
the pool, and workers that have popped one.  `CountAppend`, `CountTail` and `OneWorker` say
how a step changes each count, and since one worker at most has a batch (`BatchAlone`), the
batches are one sequence.  Most steps then move nothing (`QuietRefines`), or a copy from one place to the
next (`TakeRefines`, `RetrieveRefines`, `PushBackRefines`).  The one that could lose a
request is `DropDuplicate`: `NoStrandedFilter` gives a twin for its filter entry, in the
pool or popped and not yet cleared, never one on its way to the pool, for that would be
the service's own; so the count was more than 1, and the step is a `Merge`.  That the
number of workers is finite (`WorkersAssumption`) is needed for counting them.

**Folder semaphore.**  `ReadersCounted` needs cardinalities of a set that gains
or loses one thread (`FiniteSetTheorems`), `SingleWriter` the fact that
`wm_mtx_` is held over `ClaimWrite`, `RequestBacked` that a withdrawn request is
withdrawn by a writer of the folder and that another one still there is covered
by its own place.  All three speak of the entries of one map, and of the threads that were handed
it: a map that is made is empty and has no users yet, even at an address a lost map
had.  `OneMapSuffices` says what is missing for the comment "single writes": while nobody has
been torn from a map and all threads inside hold the same, `SingleWriter` is
`SingleWrites`.

**File locks.**  `LockBacked` is inductive with the type invariant: a lock is
set only by a worker that goes on to work, and an unlock empties the path for
everybody, so it cannot leave a lock behind.

**Folder creation.**  The creation lock excludes nobody, so no invariant may rest
on it; what carries the proof is that a row is made only for a post, with the
post's name and parent, and that `CreateFolderEntry` tests the post id under the
manifest's mutex.  `TypeOK` says the former for threads about to insert; for a
walker between its request and its insert `Walked` says it.  `TreeValidated` is a
property of a path of unknown length and is stated without recursion: there is
a set of post ids with rows that holds the target and, with each folder, its
parent.  Its strengthening `Covered` lets the walker's present place stand for
the part above it; rows are never taken away here, so a cover stays one when
others insert, and a step up adds one folder to it.

**Event system.**  `IInv` joins the type invariant, `OneNotifier`,
`RegisteredListens` and `TasksListed` with `Clearing`, which relates the steps of the
shutdown to what is cleared; the two counts need lemmas about how many places of a
sequence hold a value when one is appended.  The refinement goes by cases: a stride
that is copied moves events from the front of `queue` to the end of an empty batch, so their
concatenation, the channel's `pending`, stays; locking takes its head, unlocking forgets
it, and raising appends to it.  The stride is copied only into an empty batch
(`Emptied`), which is a second invariant.

**Life cycle.**  `IInv` adds to the type invariant what holds in the middle of a
start or stop: `Whole` says which managers a call has made or taken down so far and in what
state, and with it what `running_` promises; `Together` that the workers exist when the thread
manager does; `ServiceHeld` that a service context or task exists only with an arbiter,
that there is one of them at most in a pool, and that each stop takes at most that one into its
ghosts; `Delegation` that a request no task has answered keeps its delegate, for
threads of earlier pools too.  `ServedAlone` counts the ghosts: it does not say that the queues
have one consumer after a restart, for the code does not keep that (section 5).

**Network.**  `OneHolder` needs to know what the thread that extends the pool
has made so far (`Extending`: it alone adds connections while it holds the mutex,
and the pool then holds just what it made).  `Bound` counts the connections in use: outside an extension,
those pooled came from one stride with nothing in the pool, when at most the other
threads had one each.

`OwnAnswer` asks why what is left in a socket does not reach the next
request on it, though nothing empties the socket.  A connection that was never left
with a rest (it is not in `mixed`) is empty but for the one request, or its answer, of
the thread that reads from it (`Exchanged`).  So it comes back to the pool empty, whoever
borrows it has the only request there, and the answer it reads is its own
(`OwnResponse`).  A connection that is closed carries no request (`Unasked`).

**Account.**  `IInv` is the types and what an operation has by the request it is about to
make: the new credentials from its beginning, the master key once the newest
credentials were opened, the post it replaces once that was fetched.  Each
action has a lemma that says what it does and that it keeps `IInv`; the
properties are proved from those lemmas.  `OneKey` says that no key but the registered one
is in the credentials, in a device's memory or under way in a change or a
recovery: as long as the one registration lasts, what an operation takes from the
newest credentials is that key, however many others replace them meanwhile.
`KeysPaired` and `SharedDirectory` are about devices that operate one after another;
`Paired` and `OneRoot` say what the key posts, the newest configuration post and the
tables are at every request of the only operation there is, if nothing has disturbed it.

**Transfer.**  `Fetchable` is about rows none of whose groups was refused or kept in part
without notice (`lossy`): the second exception is what the code's `VerifyChunks` lets through.  `Fetchable` and `Reassembles` need to know of every row there is, in the
file post, the manifests, the polled posts and the jobs, that its chunks are stored and
that those of one group have the positions they were read at (`RowsSound`);
of an upload, what it has read and has still to read (`Ready`); and of a
download, that what it has put together is in order (`Ordered`).  Of a chunk map that is
exact, the list of chunks is the file (`ListIsRead`): no more chunks were read than
there are positions, so the map is one group's, and each chunk has its position in what was read.
`Converges` is a second invariant, `Agree`: there is a file post, or nothing is under way
yet (`Nothing`); an upload that has read the post puts a row that exists (`Gets`); and without
failures, of a device whose next query does not find the post, what was polled is the post,
and if nothing is polled the manifest has its row, unless an upload wrote that row and
has yet to update the post (`Follows`).

**Folder tree.**  `RowsAgree` speaks of states of rest, so the invariant follows each
post to each device: the newest version is still news to the device, or waits in `post_map_`,
or was popped and is being looked at, or is in the row, or was given up (`Inv`, of every
device `Steady` and of every post `Index`).  It holds although
polling moves `since` on before anything is done about the posts, because what is
polled goes to `post_map_` in the same step.  Paths, disks and the order of the posts play no part: no
step that reads them changes more than one row, but for `MarkDeleted`, which marks rows
only.  The theorems hold for any number of devices that move folders; the run has one.

**File names.**  `TypeOK` rests on what `Kept` does: the positions kept up to the `n`-th are
`n`, a fact about the least number of a set, so each is listed once and in order, and
REPLACE leaves one row for each key.  `NamesKept` is the fact the rest stands on: with a user
who takes fresh names, a name never has two files, on no disk, in no row, post, queue, job or
download of any device, whatever fails (`Owned`, one conjunct for each of these).  So no place a
post names is another file's, and a rename or download on one file disturbs no other.  Its
induction carries that devices on which nobody moves files have no tasks (`Quiet`).

`Sent` speaks of states of rest on the device where files are moved, so `SentInv` says of each
file what it is between them (`Told`).  A file has one task at most: the user waits before
the next change, a rename takes its request before it works, and only its last step asks for a
push.  A rename that waits, or has not put the post, finds row and post at
the old place; then the post is at the new one, and path, name and folder of the row
come after it one by one (`WorksOn`); a removal has nothing to move; with no task, row and
post are where the user has the file.  A push finds the row, or makes the first one of a new
file, which needs that each post has one row and each file one post (`Unique`), and a file lies on disk
where it should (`Filed`).  A task touches no other file, again because of `Owned`.  Each
action has a lemma (`BeginRenameNeat` to `RemoveNeat`).  The mover does not follow (`Deaf`), or FileSync would work
on the same rows; what a device does that is both is not known to be right, and `Sent` says
nothing of it.  Nor of the time after a failed request: the post may then be moved and the row not.

**Left to TLC**: `Followed`, whose invariant would have to tell the copies a late download
leaves on a follower from the file itself; all liveness (of the dispatch, `BegunAtLast`), which is beyond the
prover used, as are ENABLED, induction over data and RECURSIVE operators (the modules
declare none).  No other invariant, action property or safety refinement that a passing run checks is
without a theorem.

## 5. Where the code disagrees with its own words

One run ends in a violation on purpose; `PROJECT.json` quotes the lines.

- `round_trip`: `chunkinfo.h:49` and `docs/attic_posts.md:15` say that a chunk's
  position is its place in the file.  The upload counts positions anew in each group
  (`postfilestrategy.cpp:214`), so that of a file of two groups the second's
  chunks take the places of the first's, and a download is not the file.  This is why
  `Reassembles` is about rows whose positions differ.

The following was met while the models were written and has no run of its own.

*Dispatch and locks*

- `taskarbiter.h:43` says uploads and downloads need only one instance per file.
  The filter forgets a context when it is popped, so a second upload of the file
  runs beside the first.  What the filter does promise is `Coalescer`.
- `GetFileList` takes a callback; the factory has no case for its task type and
  the context is dropped.
- "Multiple reads, single writes" (`foldersem.h:44`).  `FolderMap::instance` tests `instance_`
  and makes a map without a mutex (`foldersem.cpp:15`): two threads that find none make one
  each, are handed different ones, and both rename one folder.  This is why `SingleWriter`
  is about the threads of one map, and why `SingleWrites` is a theorem for a single map only and an invariant
  of no run.  The map that is deleted after its last use may also be deleted under a thread
  that has just come (`torn`).
- `foldersem.h` promises that writers exclude readers.  `AquireRead` looks at write
  requests and not at writers, and a writer erases its request when it gets in.
- The tasks mean to give up when a file is in use, but test and lock in two steps and
  ignore the result of the second; a pull that `FileSync` asked for locks the aliased
  path, an upload of the same file the canonical one.

*Folders*

- The creation lock is tested and taken in two steps by callers that ignore
  its result: two creators post one folder twice.
- Of two folders with one name the later is to be renamed (`docs/overview.md:131`).  A walker
  does so when it looks first; a creator never looks again before it inserts.
- `ValidateFolderPath` returns true when a post of the path failed, and goes on below an
  empty parent id.
- Folder paths are "singly linked lists" (`docs/filetracking.md:9`).  Two devices that move two
  folders below each other make posts that form a cycle, and the walk of every
  follower (`foldersync.cpp:99`) does not return.
- A directory that was removed comes back when `FolderSync` still has a post of a folder below it.

*Files*

- "Verifiy chunks made it to the server" (`postfilestrategy.cpp:231`).  `VerifyChunks` looks at the
  attachments the answer lists (`postfilestrategy.cpp:253`): a group of which the server kept a
  part passes, and the post that leaves transit names a chunk that is nowhere.  A group
  that is refused does not stop the upload either (`postfilestrategy.cpp:241`).  This is why
  `Fetchable` excepts rows with such a group.
- If the parents of row and post differ, "update and move file to new path" (`filesync.cpp:130`).  A
  follower polls a move while it downloads the file for the old place; the download leaves a copy there
  and the row of it, beside those of the new place.  The renames that come next change
  name and folder of both rows, by the post's id, and leave the path columns.  A move back finds the
  new name taken by the copy and keeps the old one (`renamehandler.cpp:168`), and the pull
  that `FileSync` asks for by the post's path puts the file where the row's name and folder say
  (`getfilestrategy.cpp:445`).  The follower has caught up, no request failed, and
  the place the post names is empty.  This is why `Followed` excepts a file of which there
  are two copies.
- A follower renames the file and leaves the path column of its row as it was
  (`renamehandler.cpp:174`); a rename or push made there finds no row by path and makes a
  second post (`renametask.cpp:122`, `filehandler.cpp:149`).
- Two files that swap names are never followed: a file whose new name is taken is skipped
  (`renamehandler.cpp:168`).
- A finished download is moved over the file the user has edited since (`getfilestrategy.cpp:449`).

*Accounts*

- "There should only ever exist one" credentials post (`passphrase.cpp:445`).  Two devices that
  register at the same time both count none and make two.
- A recovery makes a new recovery key and tells it to nobody (`passphrase.cpp:216`).

*Events and life cycle*

- A callback that registers another waits for `listen_mtx_`, which its own thread holds
  (`event.cpp:64`), for ever.
- A service thread that `stop` interrupts is not waited for (`threading.cpp:21`): it can take
  from the queues beside the service of the next start, so that the check-then-insert of
  the filter has two threads.  `OneService` says there is at most one such thread for each stop.
- A start that fails leaves its manager uninitialised, and the next start takes it for
  ready; after a stop the pointer to the deleted `ConnectionManager` is kept, so that a start passes it
  over (`atticservice.cpp:452`).  `RunningReady` names the two cases.
- `stop` does not stop polling (`polling_` stays set).
- Requests to delete a post, to share it or to make a version the head never call
  their callback.

*Network*

- `ExtendPool` throws with `pool_mtx_` held (`connectionmanager.cpp:70`): every later request
  waits for ever.
- `TestConnection` finds every connection good, against the comment at
  `connectionmanager.cpp:91`; a dead one is found out by the request that fails on it, and its socket is lost.
- What an answer without Content-Length leaves in the socket is read as the next
  answer: the connection stays one answer behind.
- `MetaTask::MakePostNewHead` asks twice through one `PostHandler` and does not flush it
  (`metatask.cpp:86`), so that a PUT that failed would count as done.  It has no caller:
  `Wire` lets any thread ask so (`Reusers`), and `OwnAnswer` excepts it.
- An answer cut after its status counts as a success (`connectionhandler.cpp:243`).

## 6. Not modelled

- What a program does with a `FolderMap` that was deleted under it: `FolderSem` ends it.  A
  task deleted under its thread may answer or not in `Lifecycle`.
- Mutexes left locked by an interrupted thread.
- Pausing and resuming of polling, the start and end of the threads of
  `FileSync` and `FolderSync`, registering the application (`Client`, `TentApp`), linking and
  unlinking working directories: short sequences by one thread, or what the
  application is told.
- Scanning, sharing, public posts, history and metadata: requests in a row
  with no state that others read.  `Lifecycle` has whether they answer.
- Where the rolling checksum cuts: chunk boundaries depend on the bytes of a file, and
  TLC would compute checksums.  `Contents` gives the chunks.
- netlib's requests, which make their own connection each; headers, urls, certificates.
- The second post for one path that two devices can make of a new file
  (`Transfer` has one creator), and edits of a file while it is renamed on another device.
- `ChunkTable` and `SharedPostTable`, which no modelled task reads; SQL text, JSON,
  cryptography, compression, formatting and logging; the test program `main.cpp`.
- `SCANDIRECTORY`, `TaskQueue`, `UnregisterFromEvent`, which nothing uses.
- Composition in one state space: a rename under its `FolderSem` with the
  dispatch around it would multiply three instances; section 2 says
  what each module leaves open for the others instead.

## 7. Plan

1. *Done*: the modules of section 2, with their runs; the proofs of section 4, which
   state every invariant and every safety refinement of the passing runs but `Followed`.
2. `Dispatch`: `TaskArbiter` with `FileLock`, a task's lock protocol in place of
   `RunTask`; order across types.
