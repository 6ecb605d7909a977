------------------------------ MODULE FolderTree ------------------------------
(***************************************************************************)
(* How the folders of one account move between its devices.  On a device   *)
(* the user makes, renames and removes directories, and a FolderTask       *)
(* brings each change into the folder table of the manifest and the folder *)
(* posts of the server.  Polling asks the server for the posts that are    *)
(* new since the last time: deleted ones it removes itself, the others it  *)
(* hands to FolderSync, a thread that renames, moves and makes directories *)
(* after the posts.                                                        *)
(*                                                                         *)
(* One working directory, whose post is Root.  Files are left out: a       *)
(* directory is empty when it has no directory in it.  A device has one    *)
(* task at a time.  That a post and its row are made in one step is what   *)
(* the creation lock is for (FolderCreation).                              *)
(***************************************************************************)
EXTENDS Naturals, Sequences, FiniteSets

CONSTANTS
    Devices,
    MaxId,        \* the last post id the server can give
    Names,        \* what a user calls a folder
    Old,          \* the folders there are at the start: name and parent, by post id
    Fresh,        \* devices that know none of them yet
    Followers,    \* devices whose Polling is not paused
    Makers,       \* devices whose user makes directories, ...
    Movers,       \* ... renames them, ...
    Removers,     \* ... or removes them
    NoName,       \* the empty alias
    MaxDepth,     \* bound on the length of a path a user makes
    MaxChanges,   \* bound on what the users do
    MaxFailures   \* bound on the requests that fail

\* IsRootDirectory knows the root by the configuration table.  NoId is "".
NoId == 0
Root == 1
Folders == 2..MaxId

ASSUME FolderTreeAssumption ==
    /\ MaxId \in Nat
    /\ Old = [i \in DOMAIN Old |-> [name |-> Old[i].name, parent |-> Old[i].parent]]
    /\ DOMAIN Old \subseteq Folders
    /\ \A i \in DOMAIN Old : Old[i].parent \in DOMAIN Old \cup {Root}
    /\ Followers \cup Makers \cup Movers \cup Removers \subseteq Devices
    /\ {MaxDepth, MaxChanges, MaxFailures} \subseteq Nat

VARIABLES
    posts,        \* the folder posts: name, parent, the deleted fragment, and
                  \* when the server received the version
    clock,        \* the server's time
    rows,         \* FolderTable of each device, by post id
    disk,         \* the directories below the working directory: paths
    task,         \* the FolderTask of each device
    since,        \* CensusHandler::fragment_map_, for each fragment
    phase,        \* Polling: between two rounds, or removing folders in one
    polled,       \* when it last asked for the folders that are not deleted
    trash,        \* deleted posts Polling read and has still to remove
    postMap,      \* FolderSync::post_map_
    sync,         \* FolderSync: the post it popped and where it is
    lost,         \* history: posts a device gave up following
    changes, failures   \* counted against MaxChanges and MaxFailures

server == <<posts, clock>>
polling == <<since, phase, polled, trash>>
vars == <<posts, clock, rows, disk, task, since, phase, polled, trash, postMap, sync, lost,
          changes, failures>>

NoPost == [name |-> NoName, parent |-> NoId, deleted |-> FALSE, at |-> 0]
Place(r) == [NoPost EXCEPT !.name = r.name, !.parent = r.parent]
NoTask == [op |-> "none", pc |-> "idle", old |-> << >>, new |-> << >>, rest |-> << >>,
           parent |-> NoId, id |-> NoId, place |-> NoPost, todo |-> {}]
NoSync == [pc |-> "idle", id |-> NoId, post |-> NoPost, at |-> NoId]

\* A wrong variant: everything goes.
Without_All(f, i) == << >>

Without(f, i) == [j \in DOMAIN f \ {i} |-> f[j]]
Over(f, g) == [j \in DOMAIN f \cup DOMAIN g |-> IF j \in DOMAIN f THEN f[j] ELSE g[j]]
With(f, i, x) == [j \in DOMAIN f \cup {i} |-> IF j = i THEN x ELSE f[j]]
Largest(S) == CHOOSE n \in S : \A m \in S : m <= n

-----------------------------------------------------------------------------
\* The folder table

\* QueryForFolder and, if there is none, QueryForFolderWithAlias: the table is
\* read along its key, and the last row read stays: an aliased one before the
\* others, then the one with the greatest id.
Entry(r, name, parent) ==
    LET Named == { i \in DOMAIN r : r[i].parent = parent /\ r[i].name = name }
        Aliased == { i \in Named : r[i].alias # NoName }
        Alias == { i \in DOMAIN r : r[i].parent = parent /\ r[i].alias = name }
    IN  CASE Aliased # {} -> Largest(Aliased)
          [] Aliased = {} /\ Named # {} -> Largest(Named)
          [] Named = {} /\ Alias # {} -> Largest(Alias)
          [] OTHER -> NoId

\* GetFolderPostId: down from the root, name by name; NoId if a name has no row.
Leads(r, path, i) ==
    \E f \in [0..Len(path) -> DOMAIN r \cup {Root}] :
        /\ f[0] = Root
        /\ f[Len(path)] = i
        /\ \A n \in 1..Len(path) : f[n] = Entry(r, path[n], f[n - 1])
Find(r, path) ==
    IF \E i \in DOMAIN r : Leads(r, path, i) THEN CHOOSE i \in DOMAIN r : Leads(r, path, i) ELSE NoId

\* FolderHandler::InsertFolder: a row for a post that has none, under an alias
\* of this device if the name is taken.
WithRow(d, i, p) ==
    LET Taken == \E j \in DOMAIN rows[d] :
                    rows[d][j].name = p.name /\ rows[d][j].parent = p.parent
    IN  IF i \in DOMAIN rows[d] THEN rows[d]
        ELSE With(rows[d], i,
                  [name |-> p.name, alias |-> IF Taken THEN <<p.name, i, d>> ELSE NoName,
                   parent |-> p.parent, deleted |-> FALSE])

\* ConstructFolderpath climbs from a folder to the root.  It fails when a row is
\* missing, and does not return from a cycle.
Chain(r, i) ==
    LET f[n \in 0..Cardinality(Folders) + 1] ==
            IF n = 0 THEN i
            ELSE IF f[n - 1] \in DOMAIN r THEN r[f[n - 1]].parent ELSE f[n - 1]
    IN  f
Top(r, i) == Chain(r, i)[Cardinality(Folders) + 1]
Returns(r, i) == Top(r, i) \notin DOMAIN r
Placed(r, i) == Top(r, i) = Root

Path(r, i) ==
    LET shown(j) == IF r[j].alias # NoName THEN r[j].alias ELSE r[j].name
        up == Chain(r, i)
        depth == CHOOSE n \in DOMAIN up : up[n] = Root /\ \A m \in 0..n - 1 : up[m] # Root
    IN  [n \in 1..depth |-> shown(up[depth - n])]

Below(r, i) == { j \in DOMAIN r : \E n \in DOMAIN Chain(r, j) : Chain(r, j)[n] = i }

-----------------------------------------------------------------------------
\* The disk

Prefix(p, q) == Len(p) <= Len(q) /\ SubSeq(q, 1, Len(p)) = p
Parent(p) == SubSeq(p, 1, Len(p) - 1)
Exists(dirs, p) == p = << >> \/ p \in dirs
Tree(dirs, p) == { q \in dirs : Prefix(p, q) }

\* create_directories
WithDirs(dirs, p) == dirs \cup { SubSeq(p, 1, n) : n \in 1..Len(p) }

\* rename(2): the new place must have a parent, lie outside of the old one, and
\* be free or an empty directory.
MayRename(dirs, p, q) ==
    /\ p # q
    /\ p \in dirs
    /\ q # << >>
    /\ ~Prefix(p, q)
    /\ Exists(dirs, Parent(q))
    /\ Tree(dirs, q) \subseteq {q}
RenamePath(dirs, p, q) ==
    IF ~MayRename(dirs, p, q) THEN dirs
    ELSE (dirs \ Tree(dirs, p))
            \cup { q \o SubSeq(t, Len(p) + 1, Len(t)) : t \in Tree(dirs, p) }

\* The account has a history: the devices have followed it, or start with an
\* empty manifest and an empty working directory.
Init ==
    /\ posts = [i \in DOMAIN Old |-> [Place(Old[i]) EXCEPT !.at = 1]]
    /\ clock = 1
    /\ rows = [d \in Devices |-> IF d \in Fresh THEN << >> ELSE
                  [i \in DOMAIN Old |-> [name |-> Old[i].name, alias |-> NoName,
                                        parent |-> Old[i].parent, deleted |-> FALSE]]]
    /\ disk = [d \in Devices |-> { Path(rows[d], i) : i \in DOMAIN rows[d] }]
    /\ task = [d \in Devices |-> NoTask]
    /\ since = [d \in Devices |-> [live |-> IF d \in Fresh THEN 0 ELSE 1, deleted |-> 0]]
    /\ phase = [d \in Devices |-> "between"]
    /\ polled = [d \in Devices |-> 0]
    /\ trash = [d \in Devices |-> << >>]
    /\ postMap = [d \in Devices |-> << >>]
    /\ sync = [d \in Devices |-> NoSync]
    /\ lost = [d \in Devices |-> {}]
    /\ changes = 0
    /\ failures = 0

-----------------------------------------------------------------------------
\* The user

Begin(d, t) ==
    /\ task[d].pc = "idle"
    /\ changes < MaxChanges
    /\ changes' = changes + 1
    /\ task' = [task EXCEPT ![d] = t]
    /\ UNCHANGED <<posts, clock, rows, polling, postMap, sync, lost, failures>>

NewPaths(d) ==
    { Append(p, n) : p \in { q \in disk[d] \cup {<< >>} : Len(q) < MaxDepth }, n \in Names }
        \ disk[d]

CreateTask(p) == [NoTask EXCEPT !.op = "CREATE", !.pc = "name", !.new = p, !.rest = p,
                                !.parent = Root]

MakeDirectory(d) ==
    \E p \in NewPaths(d) :
        /\ d \in Makers
        /\ Begin(d, CreateTask(p))
        /\ disk' = [disk EXCEPT ![d] = @ \cup {p}]

RenameDirectory(d) ==
    \E p \in disk[d], q \in NewPaths(d) :
        /\ d \in Movers
        /\ ~Prefix(p, q)
        /\ Begin(d, [NoTask EXCEPT !.op = "RENAME", !.pc = "name", !.old = p, !.new = q,
                                   !.rest = q, !.parent = Root])
        /\ disk' = [disk EXCEPT ![d] = RenamePath(@, p, q)]

RemoveDirectory(d) ==
    \E p \in disk[d] :
        /\ d \in Removers
        /\ Begin(d, [NoTask EXCEPT !.op = "DELETE", !.pc = "mark", !.old = p])
        /\ disk' = [disk EXCEPT ![d] = @ \ Tree(@, p)]

-----------------------------------------------------------------------------
\* FolderTask

At(d, pc) == task[d].pc = pc
Then(d, pc) == task' = [task EXCEPT ![d].pc = pc]

\* A request answers or fails.
Request(ok) ==
    /\ ok \/ failures < MaxFailures
    /\ failures' = IF ok THEN failures ELSE failures + 1

\* A wrong variant: the version before is what the time counts from.
Receive_Early(i, name, parent, deleted) ==
    /\ posts' = With(posts, i, [name |-> name, parent |-> parent, deleted |-> deleted,
                                at |-> clock + 1])
    /\ clock' = clock

Receive(i, name, parent, deleted) ==
    /\ posts' = With(posts, i, [name |-> name, parent |-> parent, deleted |-> deleted,
                                at |-> clock + 1])
    /\ clock' = clock + 1

\* On to the next name of the path, below folder i.
Descend(d, i) ==
    task' = [task EXCEPT ![d] =
        IF Len(@.rest) = 1 THEN NoTask
        ELSE [@ EXCEPT !.pc = "name", !.rest = Tail(task[d].rest), !.parent = i, !.id = NoId,
                       !.place = NoPost]]

\* RenameFolder takes a name for the last one by its value.
Renames(d) == task[d].op = "RENAME" /\ Head(task[d].rest) = task[d].new[Len(task[d].new)]

Known(d) == Entry(rows[d], Head(task[d].rest), task[d].parent)

\* CreateFolder: the path must be a directory by now.
NoDirectory(d) ==
    /\ At(d, "name")
    /\ task[d].op = "CREATE"
    /\ task[d].rest = task[d].new
    /\ task[d].new \notin disk[d]
    /\ task' = [task EXCEPT ![d] = NoTask]
    /\ UNCHANGED <<server, rows, disk, polling, postMap, sync, lost, changes, failures>>

Creates(d) ==
    /\ At(d, "name")
    /\ ~Renames(d)
    /\ task[d].op = "CREATE" /\ task[d].rest = task[d].new => task[d].new \in disk[d]

\* AttemptCreateNewFolderEntry.  When the request fails, the next name is made
\* below the empty id.
CreateEntry(d) ==
    /\ Creates(d)
    /\ Known(d) = NoId
    /\ \/ \E i \in Folders \ DOMAIN posts :
            /\ Receive(i, Head(task[d].rest), task[d].parent, FALSE)
            /\ rows' = [rows EXCEPT ![d] =
                   With(@, i, [name |-> Head(task[d].rest), alias |-> NoName,
                               parent |-> task[d].parent, deleted |-> FALSE])]
            /\ Descend(d, i)
            /\ UNCHANGED failures
       \/ /\ Request(FALSE)
          /\ Descend(d, NoId)
          /\ UNCHANGED <<server, rows>>
    /\ UNCHANGED <<disk, polling, postMap, sync, lost, changes>>

\* The folder has a row; one that is marked deleted comes back.
FindEntry(d) ==
    /\ Creates(d)
    /\ Known(d) # NoId
    /\ IF rows[d][Known(d)].deleted
       THEN /\ rows' = [rows EXCEPT ![d][Known(d)].deleted = FALSE]
            /\ task' = [task EXCEPT ![d].pc = "get", ![d].id = Known(d),
                                    ![d].place = Place(rows[d][Known(d)])]
       ELSE Descend(d, Known(d)) /\ UNCHANGED rows
    /\ UNCHANGED <<server, disk, polling, postMap, sync, lost, changes, failures>>

\* RenameFolder at the last name: the row's parent, then its name, ...
MoveEntry(d) ==
    LET i == Find(rows[d], task[d].old)
    IN  /\ At(d, "name")
        /\ Renames(d)
        /\ i # NoId
        /\ rows' = [rows EXCEPT ![d][i].parent = task[d].parent]
        /\ task' = [task EXCEPT ![d].pc = "row", ![d].id = i]
        /\ UNCHANGED <<server, disk, polling, postMap, sync, lost, changes, failures>>

NameEntry(d) ==
    /\ At(d, "row")
    /\ rows' = [rows EXCEPT ![d][task[d].id].name = Head(task[d].rest)]
    /\ task' = [task EXCEPT ![d].pc = "get",
                    ![d].place = Place([name |-> Head(task[d].rest), parent |-> task[d].parent])]
    /\ UNCHANGED <<server, disk, polling, postMap, sync, lost, changes, failures>>

\* ... or, if the old path has no row, a folder of its own.
MissEntry(d) ==
    /\ At(d, "name")
    /\ Renames(d)
    /\ Find(rows[d], task[d].old) = NoId
    /\ task' = [task EXCEPT ![d] =
            IF @.new \in disk[d] THEN CreateTask(@.new) ELSE NoTask]
    /\ UNCHANGED <<server, rows, disk, polling, postMap, sync, lost, changes, failures>>

\* UpdateFolderPost and UnDeleteFolderPost read the post, whose fragment only
\* UnDeleteFolderPost clears, ...
GetFolderPost(d) ==
    /\ At(d, "get")
    /\ \E ok \in BOOLEAN :
        /\ Request(ok)
        /\ IF ok
           THEN /\ task' = [task EXCEPT ![d].pc = "put", ![d].place.deleted =
                               task[d].op = "RENAME" /\ posts[task[d].id].deleted]
                /\ UNCHANGED lost
           ELSE /\ lost' = [lost EXCEPT ![d] = @ \cup {task[d].id}]
                /\ Descend(d, task[d].id)
    /\ UNCHANGED <<server, rows, disk, polling, postMap, sync, changes>>

\* ... and write the folder over it.  A rename then clears the alias.
PutFolderPost(d) ==
    LET p == task[d].place
    IN  /\ At(d, "put")
        /\ \E ok \in BOOLEAN :
            /\ Request(ok)
            /\ IF ok
               THEN /\ Receive(task[d].id, p.name, p.parent, p.deleted)
                    /\ rows' = IF Renames(d)
                               THEN [rows EXCEPT ![d][task[d].id].alias = NoName] ELSE rows
                    /\ UNCHANGED lost
               ELSE /\ lost' = [lost EXCEPT ![d] = @ \cup {task[d].id}]
                    /\ UNCHANGED <<server, rows>>
        /\ Descend(d, task[d].id)
        /\ UNCHANGED <<disk, polling, postMap, sync, changes>>

\* DeleteFolder marks the row and all rows below it, ...
MarkDeleted(d) ==
    LET i == Find(rows[d], task[d].old)
        all == Below(rows[d], i)
    IN  /\ At(d, "mark")
        /\ IF i = NoId
           THEN task' = [task EXCEPT ![d] = NoTask] /\ UNCHANGED rows
           ELSE /\ Returns(rows[d], i)
                /\ rows' = [rows EXCEPT ![d] = [j \in DOMAIN @ |->
                               IF j \in all THEN [@[j] EXCEPT !.deleted = TRUE] ELSE @[j]]]
                /\ task' = [task EXCEPT ![d].pc = "next", ![d].todo = all]
        /\ UNCHANGED <<server, disk, polling, postMap, sync, lost, changes, failures>>

\* ... and then post by post, reading it and writing it back with the fragment.
\* Nobody looks at what the requests return.
Marked(d, i) ==
    LET left == task[d].todo \ {i}
    IN  task' = [task EXCEPT ![d] = IF left = {} THEN NoTask
                                    ELSE [@ EXCEPT !.pc = "next", !.todo = left]]

ReadForDelete(d) ==
    /\ At(d, "next")
    /\ \E i \in task[d].todo, ok \in BOOLEAN :
        /\ Request(ok)
        /\ IF ok
           THEN /\ task' = [task EXCEPT ![d].pc = "delete", ![d].id = i,
                                        ![d].place = Place(posts[i])]
                /\ UNCHANGED lost
           ELSE /\ lost' = [lost EXCEPT ![d] = @ \cup {i}]
                /\ Marked(d, i)
    /\ UNCHANGED <<server, rows, disk, polling, postMap, sync, changes>>

WriteDeleted(d) ==
    LET p == task[d].place
    IN  /\ At(d, "delete")
        /\ \E ok \in BOOLEAN :
            /\ Request(ok)
            /\ IF ok THEN Receive(task[d].id, p.name, p.parent, TRUE) /\ UNCHANGED lost
               ELSE /\ lost' = [lost EXCEPT ![d] = @ \cup {task[d].id}]
                    /\ UNCHANGED server
        /\ Marked(d, task[d].id)
        /\ UNCHANGED <<rows, disk, polling, postMap, sync, changes>>

FolderTask(d) ==
    \/ NoDirectory(d) \/ CreateEntry(d) \/ FindEntry(d) \/ MoveEntry(d) \/ NameEntry(d)
    \/ MissEntry(d) \/ GetFolderPost(d) \/ PutFolderPost(d) \/ MarkDeleted(d)
    \/ ReadForDelete(d) \/ WriteDeleted(d)

-----------------------------------------------------------------------------
\* Polling

\* CensusHandler::Inquiry: the posts with this fragment that the server received
\* since the last time, which moves on at once.  Queries that bring nothing and
\* queries that fail change nothing and are left out.
News(d, deleted) ==
    { i \in DOMAIN posts :
        posts[i].deleted = deleted
        /\ posts[i].at > IF deleted THEN since[d].deleted ELSE since[d].live }
Newest(S) == Largest({ posts[i].at : i \in S })

PollDeletedFolderPosts(d) ==
    LET new == News(d, TRUE)
    IN  /\ d \in Followers
        /\ phase[d] = "between"
        /\ new # {}
        /\ phase' = [phase EXCEPT ![d] = "remove"]
        /\ trash' = [trash EXCEPT ![d] = [i \in new |-> posts[i]]]
        /\ since' = [since EXCEPT ![d].deleted = Newest(new)]
        /\ UNCHANGED <<server, rows, disk, task, polled, postMap, sync, lost, changes, failures>>

\* The oldest first: the row is made if there is none, and marked; then the
\* directory goes to the trash.
DeleteLocalFolder(d) ==
    /\ phase[d] = "remove"
    /\ \E i \in DOMAIN trash[d] :
        LET r == [WithRow(d, i, trash[d][i]) EXCEPT ![i].deleted = TRUE]
        IN  /\ \A j \in DOMAIN trash[d] : trash[d][i].at <= trash[d][j].at
            /\ Returns(r, i)
            /\ rows' = [rows EXCEPT ![d] = r]
            /\ disk' = IF Placed(r, i) THEN [disk EXCEPT ![d] = @ \ Tree(@, Path(r, i))] ELSE disk
            /\ trash' = [trash EXCEPT ![d] = Without(@, i)]
    /\ UNCHANGED <<server, task, since, phase, polled, postMap, sync, lost, changes, failures>>

\* A wrong variant: the version that waits keeps its place.
PushBack_Older(map, new) == Over(map, new)

\* FolderSync::PushBack
PushBack(map, new) == Over(new, map)

\* Then the other posts, which go to FolderSync; a newer version takes an older
\* one's place.  When the deleted ones were asked for first and there was none,
\* those there are now came after that.
PollFolderPosts(d) ==
    LET new == News(d, FALSE)
    IN  /\ d \in Followers
        /\ trash[d] = << >>
        /\ \/ phase[d] = "remove"
           \/ new # {} /\ \A i \in News(d, TRUE) : posts[i].at > polled[d]
        /\ phase' = [phase EXCEPT ![d] = "between"]
        /\ polled' = [polled EXCEPT ![d] = clock]
        /\ postMap' = [postMap EXCEPT ![d] = PushBack(@, [i \in new |-> posts[i]])]
        /\ since' = IF new = {} THEN since ELSE [since EXCEPT ![d].live = Newest(new)]
        /\ UNCHANGED <<server, rows, disk, task, trash, sync, lost, changes, failures>>

Polling(d) == PollDeletedFolderPosts(d) \/ DeleteLocalFolder(d) \/ PollFolderPosts(d)

-----------------------------------------------------------------------------
\* FolderSync

\* PopFront: the post with the smallest id.
PopFront(d) ==
    /\ sync[d].pc = "idle"
    /\ \E i \in DOMAIN postMap[d] :
        /\ \A j \in DOMAIN postMap[d] : i <= j
        /\ sync' = [sync EXCEPT ![d] = [pc |-> "walk", id |-> i, post |-> postMap[d][i], at |-> i]]
        /\ postMap' = [postMap EXCEPT ![d] = Without(@, i)]
    /\ UNCHANGED <<server, rows, disk, task, polling, lost, changes, failures>>

\* ValidateFolderTree: up to the root by the rows, ...
Climb(d) ==
    /\ sync[d].pc = "walk"
    /\ sync[d].at \in DOMAIN rows[d]
    /\ sync' = [sync EXCEPT ![d].at = rows[d][@].parent]
    /\ UNCHANGED <<server, rows, disk, task, polling, postMap, lost, changes, failures>>

\* ... making those that are missing from the map or from the server.  The post
\* that was popped is not in the map any more.
InsertMissing(d) ==
    LET i == sync[d].at
        Insert(p) == rows' = [rows EXCEPT ![d] = WithRow(d, i, p)] /\ UNCHANGED <<sync, lost>>
    IN  /\ sync[d].pc = "walk"
        /\ i \notin DOMAIN rows[d] \cup {Root}
        /\ \/ i \in DOMAIN postMap[d] /\ Insert(postMap[d][i]) /\ UNCHANGED failures
           \/ i \in DOMAIN posts \ DOMAIN postMap[d] /\ Insert(posts[i]) /\ UNCHANGED failures
           \/ /\ i \notin DOMAIN postMap[d]
              /\ IF i = NoId THEN UNCHANGED failures ELSE Request(FALSE)
              /\ lost' = [lost EXCEPT ![d] = @ \cup {sync[d].id}]
              /\ sync' = [sync EXCEPT ![d] = NoSync]
              /\ UNCHANGED rows
    /\ UNCHANGED <<server, disk, task, polling, postMap, changes>>

\* The rows under the names of the posts that wait in the map.
View(d) ==
    Over([j \in DOMAIN postMap[d] |-> [name |-> postMap[d][j].name, alias |-> NoName,
                                       parent |-> postMap[d][j].parent]], rows[d])

\* ValidateFolder drops a post whose parent has no row, ...
DropPost(d) ==
    /\ sync[d].pc = "walk"
    /\ sync[d].at = Root
    /\ sync[d].post.parent \notin DOMAIN rows[d] \cup {Root}
    /\ lost' = [lost EXCEPT ![d] = @ \cup {sync[d].id}]
    /\ sync' = [sync EXCEPT ![d] = NoSync]
    /\ UNCHANGED <<server, rows, disk, task, polling, postMap, changes, failures>>

\* ... does what CheckForRename finds, the name and then the parent: the row
\* first, the directory after it, ...
CheckForRename(d) ==
    LET i == sync[d].id
        p == sync[d].post
        old == rows[d]
        named == IF old[i].name = p.name THEN old
                 ELSE [old EXCEPT ![i].name = p.name, ![i].alias = NoName]
        moved == [named EXCEPT ![i].parent = p.parent]
        renamed == IF old[i].name = p.name \/ ~Placed(old, i) THEN disk[d]
                   ELSE IF Path(old, i) \in disk[d]
                   THEN RenamePath(disk[d], Path(old, i), Path(named, i))
                   ELSE WithDirs(disk[d], Parent(Path(named, i)))
    IN  /\ sync[d].pc = "walk"
        /\ sync[d].at = Root
        /\ p.parent \in DOMAIN rows[d] \cup {Root}
        /\ old[i].name # p.name \/ old[i].parent # p.parent
        /\ Returns(old, i) /\ Returns(moved, i)
        /\ rows' = [rows EXCEPT ![d] = moved]
        /\ disk' = [disk EXCEPT ![d] =
               IF old[i].parent = p.parent \/ ~Placed(named, i) \/ ~Placed(moved, i) THEN renamed
               ELSE RenamePath(renamed, Path(named, i), Path(moved, i))]
        /\ sync' = [sync EXCEPT ![d] = NoSync]
        /\ lost' = [lost EXCEPT ![d] = @ \ {i}]
        /\ UNCHANGED <<server, task, polling, postMap, changes, failures>>

\* ... and otherwise un-deletes the row and makes the directory, at the path of
\* the posts that still wait.
MakeFolder(d) ==
    LET i == sync[d].id
        p == sync[d].post
    IN  /\ sync[d].pc = "walk"
        /\ sync[d].at = Root
        /\ rows[d][i].name = p.name
        /\ rows[d][i].parent = p.parent
        /\ Returns(View(d), i)
        /\ rows' = [rows EXCEPT ![d][i].deleted = FALSE]
        /\ disk' = IF Placed(View(d), i)
                   THEN [disk EXCEPT ![d] = WithDirs(@, Path(View(d), i))] ELSE disk
        /\ sync' = [sync EXCEPT ![d] = NoSync]
        /\ lost' = [lost EXCEPT ![d] = @ \ {i}]
        /\ UNCHANGED <<server, task, polling, postMap, changes, failures>>

FolderSync(d) ==
    PopFront(d) \/ Climb(d) \/ InsertMissing(d) \/ DropPost(d) \/ CheckForRename(d) \/ MakeFolder(d)

-----------------------------------------------------------------------------
User(d) == MakeDirectory(d) \/ RenameDirectory(d) \/ RemoveDirectory(d)

Next == \E d \in Devices : User(d) \/ FolderTask(d) \/ Polling(d) \/ FolderSync(d)

Spec == Init /\ [][Next]_vars

-----------------------------------------------------------------------------
Above == DOMAIN posts \cup {NoId, Root}
IsPost(p) ==
    /\ p = [name |-> p.name, parent |-> p.parent, deleted |-> p.deleted, at |-> p.at]
    /\ p.parent \in Above
    /\ p.deleted \in BOOLEAN
    /\ p.at \in 0..clock
IsRow(r) ==
    /\ r = [name |-> r.name, alias |-> r.alias, parent |-> r.parent, deleted |-> r.deleted]
    /\ r.parent \in Above
    /\ r.deleted \in BOOLEAN
Works(t) == t.pc \in {"row", "get", "put", "delete"}

TablesOK(d) ==
    /\ DOMAIN rows[d] \cup DOMAIN postMap[d] \cup DOMAIN trash[d] \cup lost[d] \subseteq DOMAIN posts
    /\ \A i \in DOMAIN rows[d] : IsRow(rows[d][i])
    /\ \A i \in DOMAIN postMap[d] : IsPost(postMap[d][i])
    /\ \A i \in DOMAIN trash[d] : IsPost(trash[d][i])
    /\ since[d] \in [live : 0..clock, deleted : 0..clock]
    /\ polled[d] \in 0..clock
TaskOK(d) ==
    /\ DOMAIN task[d] = DOMAIN NoTask
    /\ task[d].parent \in Above
    /\ task[d].todo \subseteq DOMAIN posts
    /\ IsPost(task[d].place)
    /\ Works(task[d]) => task[d].id \in DOMAIN posts
SyncOK(d) ==
    /\ DOMAIN sync[d] = DOMAIN NoSync
    /\ sync[d].pc \in {"idle", "walk"}
    /\ sync[d].pc = "walk" => sync[d].id \in DOMAIN posts
    /\ IsPost(sync[d].post)
    /\ sync[d].at \in Above

\* A row, a version under way and a post that is worked on are of posts the server
\* has, folders lie below such a post, and nobody has read what the server has not
\* received.
TypeOK ==
    /\ clock \in Nat \ {0}
    /\ failures \in Nat
    /\ DOMAIN posts \subseteq Folders
    /\ \A i \in DOMAIN posts : IsPost(posts[i]) /\ posts[i].at > 0
    /\ Devices = DOMAIN rows /\ Devices = DOMAIN task /\ Devices = DOMAIN since
    /\ Devices = DOMAIN trash /\ Devices = DOMAIN postMap /\ Devices = DOMAIN sync
    /\ Devices = DOMAIN lost /\ Devices = DOMAIN polled /\ Devices = DOMAIN phase
    /\ \A d \in Devices : TablesOK(d) /\ TaskOK(d) /\ SyncOK(d)

\* Nothing under way on any device, and nothing its Polling has still to read.
Settled ==
    \A d \in Devices :
        /\ task[d].pc = "idle"
        /\ sync[d].pc = "idle"
        /\ postMap[d] = << >>
        /\ trash[d] = << >>
        /\ d \in Followers => News(d, TRUE) = {} /\ News(d, FALSE) = {}

\* Once all is quiet, a device that polls has every folder of the server under
\* the name and the parent its post has, but for the posts it gave up: whatever
\* the order FolderSync takes them in, and whichever version it meets first on
\* the way up from another folder (FolderSync::Run, CheckForRename).
RowsAgree ==
    Settled => \A d \in Followers : \A i \in DOMAIN posts :
        ~posts[i].deleted /\ i \notin lost[d] =>
            /\ i \in DOMAIN rows[d]
            /\ rows[d][i].name = posts[i].name
            /\ rows[d][i].parent = posts[i].parent

\* FolderSync gives a post up, other than for a request that failed, only when
\* its parent is a folder still to come, one it gave up before, or none, or a
\* folder further up the rows has none (ValidateFolder, ValidateFolderTree).
GivesUp(d) ==
    /\ sync[d].pc = "walk"
    /\ sync'[d].pc = "idle"
    /\ sync[d].id \in lost'[d]
    /\ failures' = failures

GivesUpEarly ==
    [][\A d \in Devices : GivesUp(d) =>
          \/ sync[d].at = NoId
          \/ sync[d].post.parent \in DOMAIN postMap[d] \cup News(d, FALSE) \cup News(d, TRUE)
                                        \cup DOMAIN trash[d] \cup lost[d] \cup {NoId}]_vars

=============================================================================
