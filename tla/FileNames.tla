------------------------------ MODULE FileNames ------------------------------
(***************************************************************************)
(* Where the files of an account are, and under which name: the user moves *)
(* and removes files on one device, RenameTask and DeleteTask bring that   *)
(* to the file posts and the file table, and on every device Polling and   *)
(* FileSync follow the posts.                                              *)
(*                                                                         *)
(* The folders are there and stay (FolderTree).  A place is a folder and a *)
(* name; the path of a file, aliased or not, is its place.  A content is   *)
(* the number of the file the user made of it, and stands for the hash as  *)
(* well; how it is carried is Transfer's, so that a push that finds work   *)
(* posts the file in one step.  Locks on files are left out (FileLock).    *)
(***************************************************************************)
EXTENDS Naturals, Sequences, FiniteSets, SequencesExt

CONSTANTS Devices, Files,       \* files are numbered from 1
          Folders, Names,
          Known,                \* the files that are on every device, each at a place
          Movers,               \* the devices whose user moves files
          Followers,            \* the devices whose Polling is not paused
          Patient,              \* the user waits for the tasks and takes fresh names
          Workers,              \* threads of a device that take renames and deletes
          MaxPosts, MaxChanges, MaxFailures    \* bounds

ASSUME FileNamesAssumption ==
  /\ Files \subseteq Nat \ {0} /\ IsFiniteSet(Files) /\ Movers \cup Followers \subseteq Devices
  /\ DOMAIN Known = 1 .. Cardinality(DOMAIN Known) /\ DOMAIN Known \subseteq Files
  /\ Known \in [DOMAIN Known -> Folders \X Names] /\ Cardinality(DOMAIN Known) <= MaxPosts
  /\ \A j, k \in DOMAIN Known :
       Known[j] = Known[k] \/ (Patient /\ Known[j][2] = Known[k][2]) => j = k
  /\ Patient \in BOOLEAN
  /\ {MaxPosts, MaxChanges, MaxFailures} \subseteq Nat

VARIABLES disk,      \* place to file, on each device
          rows,      \* FileTable, in the order the rows went in
          posts,     \* the file posts, by number
          order,     \* the numbers of the posts, last changed last
          news,      \* posts a device has not polled since they changed
          renames, deletes, pushes, pulls,   \* tasks that wait, of each device
          job,       \* what the workers of a device do
          pull,      \* the row a PullTask works on
          queue,     \* FileSync::post_queue_
          sync,      \* the post FileSync works on
          home, owner,  \* history: where the user wants a file, the first of each name
          missed,    \* history: posts whose file a device did not get, or threw away
          changes, failures

asked == <<renames, deletes, pushes>>
server == <<posts, order>>
follow == <<queue, sync>>
user == <<home, owner, changes>>
faults == <<failures, missed>>
vars == <<disk, rows, server, news, asked, pulls, job, pull, follow, user, faults>>

-----------------------------------------------------------------------------
Places == Folders \X Names
None == 0
Nowhere == << >>

NoRow == [name |-> Nowhere, path |-> Nowhere, folder |-> Nowhere, id |-> 0,
          file |-> None, deleted |-> FALSE]
Row(p, id, k) == [name |-> p[2], path |-> p, folder |-> p[1], id |-> id, file |-> k,
                  deleted |-> FALSE]
Post(row, gone) == [name |-> row.name, path |-> row.path, folder |-> row.folder,
                    file |-> row.file, deleted |-> gone]
At(x) == <<x.folder, x.name>>
NoPost == Post(NoRow, FALSE)
NoJob == [step |-> "idle", op |-> "none", old |-> Nowhere, new |-> Nowhere,
          fi |-> NoRow, got |-> NoPost]
NoSync == [step |-> "idle", id |-> 0, post |-> NoPost, local |-> NoRow]

\* The elements of a sequence at the positions in keep, in their order.
Kept(s, keep) ==
  LET upto(i) == Cardinality({k \in keep : k <= i})
  IN [n \in 1 .. Cardinality(keep) |-> s[CHOOSE i \in keep : upto(i) = n]]

\* FileTable: the primary key is (filename, filepath, folder_post_id, metapostid).
Key(r) == <<r.name, r.path, r.folder, r.id>>

\* A wrong variant: nothing is replaced.
InsertFileInfo_Twice(table, r) == Append(table, r)

\* REPLACE: a row of the same key goes, and the new one comes last.  A row of the
\* same post under another key stays.
InsertFileInfo(table, r) ==
  Append(Kept(table, {i \in DOMAIN table : Key(table[i]) # Key(r)}), r)

\* A query copies each row it finds into the result: the last one stays.
LastOf(table, found) == IF found = {} THEN NoRow ELSE table[Max(found)]
QueryForFile(table, p) == LastOf(table, {i \in DOMAIN table : table[i].path = p})
QueryForFileByPostId(table, id) == LastOf(table, {i \in DOMAIN table : table[i].id = id})
IsFileInManifest(table, p) == QueryForFile(table, p) # NoRow

\* By name and folder, where the order is that of the key.
QueryByName(table, p) == {r \in Range(table) : r.name = p[2] /\ r.folder = p[1]}

\* UPDATE ... WHERE metapostid: two rows of one key refuse the whole statement.
Update(table, id, Set(_)) ==
  LET new == [i \in DOMAIN table |-> IF table[i].id = id THEN Set(table[i]) ELSE table[i]] IN
  IF \A i, j \in DOMAIN new : Key(new[i]) = Key(new[j]) => i = j THEN new ELSE table

set_filepath_for_id(table, id, p) == Update(table, id, LAMBDA r : [r EXCEPT !.path = p])
set_filename_for_id(table, id, n) == Update(table, id, LAMBDA r : [r EXCEPT !.name = n])
set_folder_post_id(table, id, f) == Update(table, id, LAMBDA r : [r EXCEPT !.folder = f])
set_file_deleted_for_id(table, id) == Update(table, id, LAMBDA r : [r EXCEPT !.deleted = TRUE])

Init ==
  /\ LET row(k) == Row(Known[k], k, k) IN
     /\ disk = [d \in Devices |-> [p \in Places |->
                  IF \E k \in DOMAIN Known : Known[k] = p
                  THEN CHOOSE k \in DOMAIN Known : Known[k] = p ELSE None]]
     /\ rows = [d \in Devices |-> [k \in DOMAIN Known |-> row(k)]]
     /\ posts = [k \in DOMAIN Known |-> Post(row(k), FALSE)]
  /\ order = [k \in DOMAIN Known |-> k]
  /\ news = [d \in Devices |-> {}] /\ queue = [d \in Devices |-> << >>]
  /\ renames = [d \in Devices |-> << >>] /\ deletes = renames
  /\ pushes = news /\ pulls = news
  /\ job = [d \in Devices |-> [w \in Workers |-> NoJob]]
  /\ pull = [d \in Devices |-> NoRow] /\ sync = [d \in Devices |-> NoSync]
  /\ home = [k \in Files |-> IF k \in DOMAIN Known THEN Known[k] ELSE Nowhere]
  /\ owner = [n \in Names |-> IF \E k \in DOMAIN Known : Known[k][2] = n
                             THEN CHOOSE k \in DOMAIN Known : Known[k][2] = n ELSE None]
  /\ missed = news /\ changes = 0 /\ failures = 0

-----------------------------------------------------------------------------
(* The user.  The application tells the library of each change.             *)

Change == changes < MaxChanges /\ changes' = changes + 1
Put(d, p, k) == [disk EXCEPT ![d][p] = k]

\* A task that waits or works for a place.
Busy(d, p) ==
  \/ \E i \in DOMAIN renames[d] : p \in {renames[d][i].old, renames[d][i].new}
  \/ \E i \in DOMAIN deletes[d] : deletes[d][i] = p
  \/ \E w \in Workers : p \in {job[d][w].old, job[d][w].new}
  \/ p \in pushes[d]

\* A name belongs to the file that had it first.  A patient user changes a file
\* when the tasks of its place are done, and gives it no name another one had.
Takes(k, p) ==
  /\ Patient => owner[p[2]] \in {None, k}
  /\ owner' = [owner EXCEPT ![p[2]] = IF @ = None THEN k ELSE @]
  /\ home' = [home EXCEPT ![k] = p]
Leaves(d, p) == Patient => ~Busy(d, p)

CreateFile(d, k, p) ==
  /\ d \in Movers /\ home[k] = Nowhere /\ k \notin {posts[i].file : i \in DOMAIN posts}
  /\ \A e \in Devices : k \notin Range(disk[e])
  /\ disk[d][p] = None /\ Change
  /\ disk' = Put(d, p, k) /\ Takes(k, p)
  /\ pushes' = [pushes EXCEPT ![d] = @ \cup {p}]
  /\ UNCHANGED <<rows, server, news, renames, deletes, pulls, job, pull, follow, faults>>

MoveFile(d, k, q) ==
  LET p == home[k] IN
  /\ d \in Movers /\ p # Nowhere /\ disk[d][p] = k /\ disk[d][q] = None /\ Leaves(d, p) /\ Change
  /\ disk' = [disk EXCEPT ![d][p] = None, ![d][q] = k] /\ Takes(k, q)
  /\ renames' = [renames EXCEPT ![d] = Append(@, [old |-> p, new |-> q])]
  /\ UNCHANGED <<rows, server, news, deletes, pushes, pulls, job, pull, follow, faults>>

RemoveFile(d, k) ==
  LET p == home[k] IN
  /\ d \in Movers /\ p # Nowhere /\ disk[d][p] = k /\ Leaves(d, p) /\ Change
  /\ disk' = Put(d, p, None) /\ home' = [home EXCEPT ![k] = Nowhere]
  /\ deletes' = [deletes EXCEPT ![d] = Append(@, p)]
  /\ UNCHANGED <<rows, server, news, renames, pushes, pulls, job, pull, follow, owner, faults>>

-----------------------------------------------------------------------------
(* Requests to the server.                                                  *)

Fails == failures < MaxFailures /\ failures' = failures + 1
Works == UNCHANGED failures
Goes(d, w, j) == job' = [job EXCEPT ![d][w] = j]
End(d, w) == Goes(d, w, NoJob)
Step(d, w, s) == Goes(d, w, [job[d][w] EXCEPT !.step = s])

Changed(id) ==
  /\ order' = Append(Kept(order, {n \in DOMAIN order : order[n] # id}), id)
  /\ news' = [d \in Devices |-> news[d] \cup {id}]

GetFilePost(d, w, op) ==
  /\ job[d][w].op = op /\ job[d][w].step = "get"
  /\ \/ Works /\ Goes(d, w, [job[d][w] EXCEPT !.step = "put", !.got = posts[job[d][w].fi.id]])
     \/ Fails /\ End(d, w)
  /\ UNCHANGED <<disk, rows, server, news, asked, pulls, pull, follow, user, missed>>

\* The request fails before or after the server did its part.
PutFilePost(d, w, op, value, next) ==
  LET id == job[d][w].fi.id IN
  /\ job[d][w].op = op /\ job[d][w].step = "put"
  /\ \/ /\ Works /\ posts' = [posts EXCEPT ![id] = value] /\ Changed(id)
        /\ IF next = "idle" THEN End(d, w) ELSE Step(d, w, next)
     \/ Fails /\ End(d, w) /\ posts' = [posts EXCEPT ![id] = value] /\ Changed(id)
     \/ Fails /\ End(d, w) /\ UNCHANGED <<server, news>>
  /\ UNCHANGED <<disk, rows, asked, pulls, pull, follow, user, missed>>

-----------------------------------------------------------------------------
(* RenameTask: RenameStrategy::RenameFile and UpdateFileMetaData.           *)

\* A file the manifest does not know is to be pushed.
BeginRename(d, w) ==
  LET ask == Head(renames[d]) IN
  /\ job[d][w] = NoJob /\ renames[d] # << >>
  /\ renames' = [renames EXCEPT ![d] = Tail(@)]
  /\ IF IsFileInManifest(rows[d], ask.old)
     THEN /\ Goes(d, w, [NoJob EXCEPT !.op = "rename", !.step = "look",
                                      !.old = ask.old, !.new = ask.new])
          /\ UNCHANGED pushes
     ELSE pushes' = [pushes EXCEPT ![d] = @ \cup {ask.new}] /\ UNCHANGED job
  /\ UNCHANGED <<disk, rows, server, news, deletes, pulls, pull, follow, user, faults>>

\* The query for a name and a folder succeeds also with no row; the post with the
\* empty id is then not found, and the task ends.
LookUp(d, w) ==
  LET found == QueryByName(rows[d], job[d][w].old) IN
  /\ job[d][w].step = "look"
  /\ \/ \E r \in found : Goes(d, w, [job[d][w] EXCEPT !.step = "get", !.fi = r])
     \/ found = {} /\ End(d, w)
  /\ UNCHANGED <<disk, rows, server, news, asked, pulls, pull, follow, user, faults>>

\* The cargo is made of the row that was read, with the new place; the fragment
\* stays that of the post.
Moved(j) ==
  Post([j.fi EXCEPT !.path = j.new, !.name = j.new[2], !.folder = j.new[1]], j.got.deleted)

UpdateFileMetaPost(d, w) == PutFilePost(d, w, "rename", Moved(job[d][w]), "path")

Manifest(d, w, at, table, next) ==
  /\ job[d][w].step = at /\ Step(d, w, next)
  /\ rows' = [rows EXCEPT ![d] = table]
  /\ UNCHANGED <<disk, server, news, asked, pulls, pull, follow, user, faults>>

\* A wrong variant: the path stays.
SetFilepath_Kept(d, w) == Manifest(d, w, "path", rows[d], "name")

SetFilepath(d, w) ==
  LET j == job[d][w] IN
  Manifest(d, w, "path", set_filepath_for_id(rows[d], j.fi.id, j.new), "name")

SetFilename(d, w) ==
  LET j == job[d][w] IN
  Manifest(d, w, "name", set_filename_for_id(rows[d], j.fi.id, j.new[2]), "folder")

\* The end of the task asks for a push of the file.
SetFileFolderPostId(d, w) ==
  LET j == job[d][w] IN
  /\ j.step = "folder" /\ End(d, w)
  /\ rows' = [rows EXCEPT ![d] = set_folder_post_id(@, j.fi.id, j.new[1])]
  /\ pushes' = [pushes EXCEPT ![d] = @ \cup {j.new}]
  /\ UNCHANGED <<disk, server, news, renames, deletes, pulls, pull, follow, user, faults>>

-----------------------------------------------------------------------------
(* DeleteTask: SoftDeleteStrategy.  The row is marked before the post.       *)

BeginDelete(d, w) ==
  LET p == Head(deletes[d])
      fi == QueryForFile(rows[d], p)
  IN
  /\ job[d][w] = NoJob /\ deletes[d] # << >>
  /\ deletes' = [deletes EXCEPT ![d] = Tail(@)]
  /\ IF fi = NoRow
     THEN UNCHANGED <<rows, job>>
     ELSE /\ rows' = [rows EXCEPT ![d] = set_file_deleted_for_id(@, fi.id)]
          /\ Goes(d, w, [NoJob EXCEPT !.op = "delete", !.step = "get", !.old = p, !.fi = fi])
  /\ UNCHANGED <<disk, server, news, renames, pushes, pulls, pull, follow, user, faults>>

UpdateFilePost(d, w) ==
  PutFilePost(d, w, "delete", [job[d][w].got EXCEPT !.deleted = TRUE], "idle")

-----------------------------------------------------------------------------
(* PushTask: a path without a row is a new file; a row whose hash differs is *)
(* the file before it was edited.  An upload clears the post's fragment.    *)

PushFile(d, p) ==
  LET k == disk[d][p]
      fi == QueryForFile(rows[d], p)
      new == IF fi = NoRow THEN Row(p, Len(posts) + 1, k) ELSE [fi EXCEPT !.file = k]
  IN
  /\ p \in pushes[d] /\ pushes' = [pushes EXCEPT ![d] = @ \ {p}]
  /\ \/ /\ k = None \/ fi.file = k
        /\ UNCHANGED <<rows, server, news>>
     \/ /\ k # None /\ fi.file # k /\ new.id <= MaxPosts
        /\ rows' = [rows EXCEPT ![d] = InsertFileInfo(@, new)]
        /\ posts' = [i \in DOMAIN posts \cup {new.id} |->
                       IF i = new.id THEN Post(new, FALSE) ELSE posts[i]]
        /\ Changed(new.id)
  /\ UNCHANGED <<disk, renames, deletes, pulls, job, pull, follow, user, faults>>

-----------------------------------------------------------------------------
(* Polling.  The deleted ones first, each by the path its post gives.        *)

Deleted(S) == {i \in S : posts[i].deleted}

\* Whatever is at the path goes to the trash.
PollDeletedFilePosts(d) ==
  LET gone == Deleted(news[d]) IN
  /\ d \in Followers /\ gone # {}
  /\ news' = [news EXCEPT ![d] = @ \ gone]
  /\ disk' = [disk EXCEPT ![d] = [p \in Places |->
                IF \E i \in gone : posts[i].path = p THEN None ELSE @[p]]]
  /\ missed' = [missed EXCEPT ![d] = @ \cup gone]
  /\ UNCHANGED <<rows, server, asked, pulls, job, pull, follow, user, failures>>

\* The queue gets the posts as they are, the one changed first in front.
PollFilePosts(d) ==
  LET live == news[d] \ Deleted(news[d])
      new == Kept(order, {n \in DOMAIN order : order[n] \in live})
  IN
  /\ d \in Followers /\ live # {}
  /\ news' = [news EXCEPT ![d] = Deleted(@)]
  /\ queue' = [queue EXCEPT ![d] = @ \o [i \in DOMAIN new |-> [id |-> new[i], post |-> posts[new[i]]]]]
  /\ UNCHANGED <<disk, rows, server, asked, pulls, job, pull, sync, user, faults>>

-----------------------------------------------------------------------------
(* FileSync::ProcessFilePost.                                               *)

RowOf(p, id) == [name |-> p.name, path |-> p.path, folder |-> p.folder, id |-> id,
                 file |-> p.file, deleted |-> FALSE]

\* A post without a row gets one and is downloaded.
ProcessFilePost(d) ==
  LET item == Head(queue[d])
      local == QueryForFileByPostId(rows[d], item.id)
  IN
  /\ sync[d] = NoSync /\ queue[d] # << >> /\ queue' = [queue EXCEPT ![d] = Tail(@)]
  /\ IF local = NoRow
     THEN /\ rows' = [rows EXCEPT ![d] = InsertFileInfo(@, RowOf(item.post, item.id))]
          /\ pulls' = [pulls EXCEPT ![d] = @ \cup {item.post.path}]
          /\ UNCHANGED sync
     ELSE /\ sync' = [sync EXCEPT ![d] = [step |-> "name", id |-> item.id, post |-> item.post,
                                          local |-> local]]
          /\ UNCHANGED <<rows, pulls>>
  /\ UNCHANGED <<disk, server, news, asked, job, pull, user, faults>>

\* RenamePath, if the file is where the row says and the place it goes to is free.
Renamed(d, p, q) == [disk[d] EXCEPT ![p] = None, ![q] = disk[d][p]]
Free(d, p, q) == disk[d][p] # None /\ disk[d][q] = None

\* The row is read again.  Its path stays what it was.
RenameFileLocalCache(d) ==
  LET s == sync[d]
      fi == QueryForFileByPostId(rows[d], s.id)
      q == <<fi.folder, s.post.name>>
  IN
  /\ s.step = "name" /\ sync' = [sync EXCEPT ![d].step = "folder"]
  /\ IF s.post.name # s.local.name /\ Free(d, At(fi), q)
     THEN /\ disk' = [disk EXCEPT ![d] = Renamed(d, At(fi), q)]
          /\ rows' = [rows EXCEPT ![d] = set_filename_for_id(@, s.id, s.post.name)]
     ELSE UNCHANGED <<disk, rows>>
  /\ UNCHANGED <<server, news, asked, pulls, job, pull, queue, user, faults>>

UpdateFilepath(d) ==
  LET s == sync[d]
      fi == QueryForFileByPostId(rows[d], s.id)
      q == <<s.post.folder, fi.name>>
  IN
  /\ s.step = "folder" /\ sync' = [sync EXCEPT ![d].step = "check"]
  /\ IF s.post.folder # s.local.folder /\ Free(d, At(fi), q)
     THEN /\ disk' = [disk EXCEPT ![d] = Renamed(d, At(fi), q)]
          /\ rows' = [rows EXCEPT ![d] = set_folder_post_id(@, s.id, s.post.folder)]
     ELSE UNCHANGED <<disk, rows>>
  /\ UNCHANGED <<server, news, asked, pulls, job, pull, queue, user, faults>>

\* A wrong variant: the file is asked for, its row keeps its path.
CheckFile_PathKept(d) ==
  LET s == sync[d] IN
  /\ s.step = "check" /\ sync' = [sync EXCEPT ![d] = NoSync]
  /\ pulls' = IF s.post.file # s.local.file \/ disk[d][At(s.post)] = None
              THEN [pulls EXCEPT ![d] = @ \cup {s.post.path}] ELSE pulls
  /\ UNCHANGED <<disk, rows, server, news, asked, job, pull, queue, user, faults>>

\* What was read of the row at the start decides.
CheckFile(d) ==
  LET s == sync[d]
      differs == s.post.file # s.local.file
      missing == disk[d][At(s.post)] = None
  IN
  /\ s.step = "check" /\ sync' = [sync EXCEPT ![d] = NoSync]
  /\ rows' = IF differs \/ (missing /\ s.post.path # s.local.path)
             THEN [rows EXCEPT ![d] = InsertFileInfo(@, RowOf(s.post, s.id))] ELSE rows
  /\ pulls' = IF differs \/ missing THEN [pulls EXCEPT ![d] = @ \cup {s.post.path}] ELSE pulls
  /\ UNCHANGED <<disk, server, news, asked, job, pull, queue, user, faults>>

-----------------------------------------------------------------------------
(* PullTask: the row of the path says what is put where.                    *)

BeginPull(d, p) ==
  LET fi == QueryForFile(rows[d], p) IN
  /\ p \in pulls[d] /\ pull[d] = NoRow
  /\ pulls' = [pulls EXCEPT ![d] = @ \ {p}]
  /\ pull' = IF fi.deleted THEN pull ELSE [pull EXCEPT ![d] = fi]
  /\ UNCHANGED <<disk, rows, server, news, asked, job, follow, user, faults>>

\* The file goes to the folder and name of the row as it was read, which need not
\* be its path.  A request, or the move, that fails ends the task without the file.
EndPull(d) ==
  /\ pull[d] # NoRow /\ pull' = [pull EXCEPT ![d] = NoRow]
  /\ \/ Works /\ disk' = Put(d, At(pull[d]), pull[d].file) /\ UNCHANGED missed
     \/ Fails /\ missed' = [missed EXCEPT ![d] = @ \cup {pull[d].id}] /\ UNCHANGED disk
  /\ UNCHANGED <<rows, server, news, asked, pulls, job, follow, user>>

-----------------------------------------------------------------------------
User(d) ==
  \E k \in Files : \/ RemoveFile(d, k)
                   \/ \E p \in Places : CreateFile(d, k, p) \/ MoveFile(d, k, p)
Rename(d, w) ==
  \/ BeginRename(d, w) \/ LookUp(d, w) \/ GetFilePost(d, w, "rename") \/ UpdateFileMetaPost(d, w)
  \/ SetFilepath(d, w) \/ SetFilename(d, w) \/ SetFileFolderPostId(d, w)
Delete(d, w) == BeginDelete(d, w) \/ GetFilePost(d, w, "delete") \/ UpdateFilePost(d, w)
Poll(d) == PollDeletedFilePosts(d) \/ PollFilePosts(d)
Sync(d) == ProcessFilePost(d) \/ RenameFileLocalCache(d) \/ UpdateFilepath(d) \/ CheckFile(d)
Transfers(d) == EndPull(d) \/ \E p \in Places : PushFile(d, p) \/ BeginPull(d, p)

Next == \E d \in Devices :
  \/ User(d) \/ Poll(d) \/ Sync(d) \/ Transfers(d)
  \/ \E w \in Workers : Rename(d, w) \/ Delete(d, w)

Spec == Init /\ [][Next]_vars

-----------------------------------------------------------------------------
(* Properties.                                                              *)

Ids == 1 .. MaxPosts
Rows == [name : Names, path : Places, folder : Folders, id : Ids, file : Files, deleted : BOOLEAN]
PostType == [name : Names, path : Places, folder : Folders, file : Files, deleted : BOOLEAN]
Moves == [old : Places, new : Places]
Waits == [step : {"name", "folder", "check"}, id : Ids, post : PostType, local : Rows]

\* A rename has read its row when it gets the post, and the post when it puts it.
Renaming(j) ==
  /\ j \in [step : {"look", "get", "put", "path", "name", "folder"}, op : {"rename"},
            old : Places, new : Places, fi : Rows \cup {NoRow}, got : PostType \cup {NoPost}]
  /\ j.step # "look" => j.fi # NoRow
  /\ j.step \notin {"look", "get"} => j.got # NoPost
Removing(j) ==
  /\ j \in [step : {"get", "put"}, op : {"delete"}, old : Places, new : {Nowhere},
            fi : Rows, got : PostType \cup {NoPost}]
  /\ j.step = "put" => j.got # NoPost

Typed ==
  /\ disk \in [Devices -> [Places -> Files \cup {None}]]
  /\ posts \in Seq(PostType) /\ Len(posts) <= MaxPosts
  /\ order \in Seq(DOMAIN posts) /\ Range(order) = DOMAIN posts
  /\ \A m, n \in DOMAIN order : order[m] = order[n] => m = n
  /\ rows \in [Devices -> Seq(Rows)] /\ news \in [Devices -> SUBSET DOMAIN posts]
  /\ renames \in [Devices -> Seq(Moves)] /\ deletes \in [Devices -> Seq(Places)]
  /\ pushes \in [Devices -> SUBSET Places] /\ pulls \in [Devices -> SUBSET Places]
  /\ DOMAIN job = Devices /\ pull \in [Devices -> Rows \cup {NoRow}]
  /\ queue \in [Devices -> Seq([id : Ids, post : PostType])]
  /\ sync \in [Devices -> Waits \cup {NoSync}]
  /\ home \in [Files -> Places \cup {Nowhere}] /\ owner \in [Names -> Files \cup {None}]
  /\ missed \in [Devices -> SUBSET Nat]
  /\ changes \in Nat /\ failures \in Nat

\* What a device knows of a post it knows of one there is, its file table has no two
\* rows of one key, and a row that FileSync works on is not lost.
Linked(d) ==
  /\ \A i \in DOMAIN rows[d] : rows[d][i].id \in DOMAIN posts
  /\ \A i, j \in DOMAIN rows[d] : Key(rows[d][i]) = Key(rows[d][j]) => i = j
  /\ job[d] = [w \in Workers |-> job[d][w]]
  /\ \A w \in Workers :
       /\ job[d][w] = NoJob \/ Renaming(job[d][w]) \/ Removing(job[d][w])
       /\ job[d][w].fi # NoRow => job[d][w].fi.id \in DOMAIN posts
  /\ \A i \in DOMAIN queue[d] : queue[d][i].id \in DOMAIN posts
  /\ sync[d] # NoSync => \E i \in DOMAIN rows[d] : rows[d][i].id = sync[d].id

\* Every variable keeps its kind of value, and a device what it must have.
TypeOK == Typed /\ \A d \in Devices : Linked(d)

Quiet(d) ==
  /\ renames[d] = << >> /\ deletes[d] = << >> /\ pushes[d] = {}
  /\ \A w \in Workers : job[d][w] = NoJob
Caught(d) == news[d] = {} /\ queue[d] = << >> /\ sync[d] = NoSync /\ pulls[d] = {} /\ pull[d] = NoRow

\* When the tasks of the one device on which files are moved are done and no
\* request failed, every file has one post, alive at the place the user gave it,
\* and deleted if she removed it; and a rename finds the row by path and by name.
\* The user waits for a task before the next change to the same file, and takes no
\* name another file has or had.  (Both are needed: see the README.)
Sent ==
  \A d \in Movers :
    Patient /\ failures = 0 /\ Movers = {d} /\ d \notin Followers /\ Quiet(d) =>
      /\ \A k \in Files : Cardinality({i \in DOMAIN posts : posts[i].file = k}) <= 1
      /\ \A i \in DOMAIN posts :
           LET k == posts[i].file IN
           IF home[k] = Nowhere THEN posts[i].deleted
           ELSE /\ ~posts[i].deleted /\ At(posts[i]) = home[k] /\ posts[i].path = home[k]
                /\ QueryForFile(rows[d], home[k]).id = i
                /\ {r.id : r \in QueryByName(rows[d], home[k])} = {i}

\* A post that is the only one of its file, which the device never failed to
\* download nor threw away; and a file of which the device has no two copies.
Single(i) == \A j \in DOMAIN posts : posts[j].file = posts[i].file => j = i
Once(d, k) == \A p, q \in Places : disk[d][p] = k /\ disk[d][q] = k => p = q
Good(d, i) == Single(i) /\ i \notin missed[d] /\ Once(d, posts[i].file)

\* A device on which nobody moves files, once it has caught up, has every file at
\* the place its post names: renames, moves, both in one, and downloads that run
\* while the post moves on.  The same two conditions on the user; requests of the
\* mover may fail.  Excepted are a file pushed again as a new post after a failed
\* rename, of whose two posts one may take the other's place; a file whose download
\* failed; and one that a late download left a second copy of, which may then be
\* the one that a move takes along (see the README).
Followed ==
  \A d \in Followers \ Movers :
    Patient /\ Caught(d) =>
      \A i \in DOMAIN posts :
        ~posts[i].deleted /\ Good(d, i) => disk[d][At(posts[i])] = posts[i].file
=============================================================================
