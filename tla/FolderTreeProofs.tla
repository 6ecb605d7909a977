--------------------------- MODULE FolderTreeProofs ---------------------------
(***************************************************************************)
(* Theorems about FolderTree, for any devices, any history of the account, *)
(* any number of users that make, move and remove folders, and any number  *)
(* of changes and of requests that fail.                                   *)
(*                                                                         *)
(* Types: all but a few steps are of one device and leave the server       *)
(* alone, or have it receive one post (OnlyAt, Grows, ServerOK).           *)
(*                                                                         *)
(* RowsAgree and GivesUpEarly rest on what a device that follows knows of  *)
(* each post (Index): the newest version is still news to it, or waits in  *)
(* post_map_, or was popped, or is in the row, or was given up.  Paths,    *)
(* disks and the order of the posts play no part: no step that reads them  *)
(* changes more than one row, but for MarkDeleted, which marks rows only.  *)
(***************************************************************************)
EXTENDS FolderTree, WellFoundedInduction, NaturalsInduction, TLAPS

-----------------------------------------------------------------------------
\* What the operators return.

LEMMA LeastIs ==
    ASSUME NEW T, T \subseteq Nat, T # {}
    PROVE  \E x \in T : \A y \in T : x <= y
  <1>1. IsWellFoundedOn(OpToRel(<, Nat), Nat)
    BY NatLessThanWellFounded
  <1>2. PICK x \in T : \A y \in T : <<y, x>> \notin OpToRel(<, Nat)
    BY <1>1, WFMin
  <1>3. \A y \in T : ~(y < x)
    BY <1>2 DEF OpToRel
  <1>4. \A y \in T : y \in Nat /\ x \in Nat /\ ~(y < x)
    BY <1>3
  <1> QED BY <1>4

LEMMA LargestIs ==
    ASSUME NEW n \in Nat, NEW S, S \subseteq 0..n, S # {}
    PROVE  Largest(S) \in S /\ \A m \in S : m <= Largest(S)
  <1> DEFINE T == {k \in 0..n : \A m \in S : m <= k}
  <1>1. n \in T /\ T \subseteq Nat
    OBVIOUS
  <1>2. PICK k \in T : \A y \in T : k <= y
    BY <1>1, LeastIs
  <1>3. k \in S
    <2> SUFFICES ASSUME k \notin S PROVE FALSE
      OBVIOUS
    <2>1. \A m \in S : m \in 0..n /\ m <= k /\ m # k
      BY <1>2
    <2>2. PICK m \in S : TRUE
      OBVIOUS
    <2>3. k - 1 \in 0..n /\ \A x \in S : x <= k - 1
      BY <2>1, <2>2, <1>2
    <2>4. k - 1 \in T
      BY <2>3
    <2> QED BY <2>4, <1>2
  <1>4. \E x \in S : \A m \in S : m <= x
    BY <1>2, <1>3
  <1> QED BY <1>4 DEF Largest

LEMMA EntryIs ==
    ASSUME NEW r, DOMAIN r \subseteq Folders, NEW name, NEW parent
    PROVE  Entry(r, name, parent) \in DOMAIN r \cup {NoId}
  <1> DEFINE Named == { i \in DOMAIN r : r[i].parent = parent /\ r[i].name = name }
             Aliased == { i \in Named : r[i].alias # NoName }
             Alias == { i \in DOMAIN r : r[i].parent = parent /\ r[i].alias = name }
  <1>1. ASSUME NEW S, S \subseteq DOMAIN r, S # {} PROVE Largest(S) \in DOMAIN r
    <2>1. S \subseteq 0..MaxId /\ MaxId \in Nat
      BY <1>1, FolderTreeAssumption DEF Folders
    <2> QED BY <1>1, <2>1, LargestIs
  <1>2. Named \subseteq DOMAIN r /\ Aliased \subseteq DOMAIN r /\ Alias \subseteq DOMAIN r
    OBVIOUS
  <1>3. Entry(r, name, parent) =
            CASE Aliased # {} -> Largest(Aliased)
              [] Aliased = {} /\ Named # {} -> Largest(Named)
              [] Named = {} /\ Alias # {} -> Largest(Alias)
              [] OTHER -> NoId
    BY DEF Entry
  <1> HIDE DEF Named, Aliased, Alias
  <1>4. CASE Aliased # {}
    <2>1. Entry(r, name, parent) = Largest(Aliased)
      <3>1. Named # {}
        BY <1>4 DEF Aliased
      <3> QED BY <1>3, <1>4, <3>1
    <2> QED BY <2>1, <1>1, <1>2, <1>4
  <1>5. CASE Aliased = {} /\ Named # {}
    <2>1. Entry(r, name, parent) = Largest(Named)
      BY <1>3, <1>5
    <2> QED BY <2>1, <1>1, <1>2, <1>5
  <1>6. CASE Aliased = {} /\ Named = {} /\ Alias # {}
    <2>1. Entry(r, name, parent) = Largest(Alias)
      BY <1>3, <1>6
    <2> QED BY <2>1, <1>1, <1>2, <1>6
  <1>7. CASE Aliased = {} /\ Named = {} /\ Alias = {}
    BY <1>3, <1>7
  <1> QED BY <1>4, <1>5, <1>6, <1>7

LEMMA FindIs ==
    ASSUME NEW r, NEW path
    PROVE  Find(r, path) \in DOMAIN r \cup {NoId}
  BY DEF Find

RowAdded(r, d, i, p) ==
    /\ DOMAIN r = DOMAIN rows[d] \cup {i}
    /\ \A j \in DOMAIN rows[d] : r[j] = rows[d][j]
    /\ i \notin DOMAIN rows[d] =>
          \E alias : r[i] = [name |-> p.name, alias |-> alias,
                             parent |-> p.parent, deleted |-> FALSE]

LEMMA WithRowIs ==
    ASSUME NEW d, NEW i, NEW p
    PROVE  RowAdded(WithRow(d, i, p), d, i, p)
  <1>0. PICK r : r = WithRow(d, i, p)
    OBVIOUS
  <1>1. CASE i \in DOMAIN rows[d]
    BY <1>0, <1>1 DEF WithRow, RowAdded
  <1>2. CASE i \notin DOMAIN rows[d]
    <2>1. PICK alias, row :
             /\ row = [name |-> p.name, alias |-> alias, parent |-> p.parent, deleted |-> FALSE]
             /\ r = With(rows[d], i, row)
      BY <1>0, <1>2 DEF WithRow
    <2>2. /\ DOMAIN r = DOMAIN rows[d] \cup {i}
          /\ r[i] = row
          /\ \A j \in DOMAIN rows[d] : r[j] = rows[d][j]
      BY <1>2, <2>1 DEF With
    <2> QED BY <1>0, <2>1, <2>2 DEF RowAdded
  <1> QED BY <1>1, <1>2

-----------------------------------------------------------------------------
\* What stays of the types when the server receives a post.

Grows == clock' \in Nat /\ clock <= clock' /\ DOMAIN posts \subseteq DOMAIN posts'

LEMMA PostKept ==
    ASSUME clock \in Nat, Grows, NEW p, IsPost(p)
    PROVE  IsPost(p)'
  BY DEF Grows, IsPost, Above

LEMMA TablesChange ==
    ASSUME clock \in Nat, Grows, NEW d, TablesOK(d),
           DOMAIN rows'[d] \subseteq DOMAIN posts',
           \A i \in DOMAIN rows'[d] : IsRow(rows[d][i])',
           lost'[d] \subseteq DOMAIN posts',
           <<postMap'[d], trash'[d], since'[d], polled'[d]>> = <<postMap[d], trash[d], since[d], polled[d]>>
    PROVE  TablesOK(d)'
  <1>1. \A i \in DOMAIN postMap'[d] : IsPost(postMap[d][i])'
    BY PostKept DEF TablesOK, IsPost, Above, Grows
  <1>2. \A i \in DOMAIN trash'[d] : IsPost(trash[d][i])'
    BY PostKept DEF TablesOK, IsPost, Above, Grows
  <1>3. since'[d] \in [live : 0..clock', deleted : 0..clock'] /\ polled'[d] \in 0..clock'
    BY DEF TablesOK, Grows
  <1>4. DOMAIN rows'[d] \cup DOMAIN postMap'[d] \cup DOMAIN trash'[d] \cup lost'[d] \subseteq DOMAIN posts'
    BY DEF TablesOK, Grows
  <1> QED BY <1>1, <1>2, <1>3, <1>4 DEF TablesOK

LEMMA TablesKept ==
    ASSUME clock \in Nat, Grows, NEW d, TablesOK(d),
           <<rows'[d], lost'[d]>> = <<rows[d], lost[d]>>,
           <<postMap'[d], trash'[d], since'[d], polled'[d]>> = <<postMap[d], trash[d], since[d], polled[d]>>
    PROVE  TablesOK(d)'
  <1>1. \A i \in DOMAIN rows'[d] : IsRow(rows[d][i])'
    BY DEF TablesOK, IsRow, Above, Grows
  <1>2. DOMAIN rows'[d] \subseteq DOMAIN posts' /\ lost'[d] \subseteq DOMAIN posts'
    BY DEF TablesOK, Grows
  <1> QED BY <1>1, <1>2, TablesChange

LEMMA TaskKept ==
    ASSUME clock \in Nat, Grows, NEW d, TaskOK(d), task'[d] = task[d]
    PROVE  TaskOK(d)'
  BY DEF TaskOK, Grows, IsPost, Above, Works

LEMMA NoPostOK ==
    ASSUME clock' \in Nat
    PROVE  IsPost(NoPost)'
  BY DEF IsPost, NoPost, Above

LEMMA PlaceOK ==
    ASSUME clock' \in Nat, NEW r, r.parent \in Above', NEW p, p = Place(r)
    PROVE  IsPost(p)' /\ p.deleted = FALSE
  <1>1. p = [name |-> r.name, parent |-> r.parent, deleted |-> FALSE, at |-> 0]
    BY DEF Place, NoPost
  <1> QED BY <1>1 DEF IsPost, Above

LEMMA NoTaskOK ==
    ASSUME clock' \in Nat, NEW d, task'[d] = NoTask
    PROVE  TaskOK(d)'
  <1>1. DOMAIN task'[d] = DOMAIN NoTask
    BY DEF NoTask
  <1>2. task'[d].parent = NoId /\ task'[d].todo = {} /\ task'[d].place = NoPost /\ ~Works(task[d])'
    BY DEF NoTask, Works
  <1>3. IsPost(NoPost)'
    BY NoPostOK
  <1> QED BY <1>1, <1>2, <1>3 DEF TaskOK, Above, IsPost

LEMMA SyncKept ==
    ASSUME clock \in Nat, Grows, NEW d, SyncOK(d), sync'[d] = sync[d]
    PROVE  SyncOK(d)'
  BY DEF SyncOK, Grows, IsPost, Above

LEMMA NoSyncOK ==
    ASSUME clock' \in Nat, NEW d, sync'[d] = NoSync
    PROVE  SyncOK(d)'
  <1>1. DOMAIN sync'[d] = DOMAIN NoSync
    BY DEF NoSync
  <1>2. sync'[d].at = NoId /\ sync'[d].post = NoPost /\ sync'[d].pc = "idle"
    BY DEF NoSync
  <1>3. IsPost(NoPost)'
    BY NoPostOK
  <1> QED BY <1>1, <1>2, <1>3 DEF SyncOK, Above, IsPost

LEMMA DescendOK ==
    ASSUME clock \in Nat, Grows, NEW d \in Devices, d \in DOMAIN task, TaskOK(d),
           NEW i, i \in Above', Descend(d, i)
    PROVE  TaskOK(d)'
  <1> DEFINE next == [task[d] EXCEPT !.pc = "name", !.rest = Tail(task[d].rest), !.parent = i,
                                     !.id = NoId, !.place = NoPost]
  <1>1. task'[d] = IF Len(task[d].rest) = 1 THEN NoTask ELSE next
    BY DEF Descend
  <1>2. CASE task'[d] = NoTask
    BY <1>2, NoTaskOK DEF Grows
  <1>3. CASE task'[d] = next
    <2>1. DOMAIN task'[d] = DOMAIN NoTask
      BY <1>3 DEF TaskOK
    <2>2. task'[d].parent = i /\ task'[d].todo = task[d].todo /\ task'[d].place = NoPost
      BY <1>3 DEF TaskOK, NoTask
    <2>3. ~Works(task[d])'
      BY <1>3 DEF TaskOK, NoTask, Works
    <2>4. IsPost(NoPost)'
      BY NoPostOK DEF Grows
    <2> QED BY <2>1, <2>2, <2>3, <2>4 DEF TaskOK, Grows, Above, IsPost
  <1> QED BY <1>1, <1>2, <1>3

LEMMA MarkedOK ==
    ASSUME clock \in Nat, Grows, NEW d \in Devices, d \in DOMAIN task, TaskOK(d),
           NEW i, Marked(d, i)
    PROVE  TaskOK(d)'
  <1> DEFINE next == [task[d] EXCEPT !.pc = "next", !.todo = task[d].todo \ {i}]
  <1>1. task'[d] = IF task[d].todo \ {i} = {} THEN NoTask ELSE next
    BY DEF Marked
  <1>2. CASE task'[d] = NoTask
    BY <1>2, NoTaskOK DEF Grows
  <1>3. CASE task'[d] = next
    <2>1. DOMAIN task'[d] = DOMAIN NoTask
      BY <1>3 DEF TaskOK
    <2>2. /\ task'[d].parent = task[d].parent /\ task'[d].todo \subseteq task[d].todo
          /\ task'[d].place = task[d].place
      BY <1>3 DEF TaskOK, NoTask
    <2>3. ~Works(task[d])'
      BY <1>3 DEF TaskOK, NoTask, Works
    <2> QED BY <2>1, <2>2, <2>3 DEF TaskOK, Grows, Above, IsPost
  <1> QED BY <1>1, <1>2, <1>3

-----------------------------------------------------------------------------
\* A step changes what one device has and what the server has.

Same(e) ==
    /\ <<rows'[e], lost'[e]>> = <<rows[e], lost[e]>>
    /\ <<postMap'[e], trash'[e], since'[e], polled'[e]>> = <<postMap[e], trash[e], since[e], polled[e]>>
    /\ phase'[e] = phase[e]
    /\ task'[e] = task[e]
    /\ sync'[e] = sync[e]

OnlyAt(d) ==
    /\ Devices = DOMAIN rows' /\ Devices = DOMAIN task' /\ Devices = DOMAIN since'
    /\ Devices = DOMAIN trash' /\ Devices = DOMAIN postMap' /\ Devices = DOMAIN sync'
    /\ Devices = DOMAIN lost' /\ Devices = DOMAIN polled' /\ Devices = DOMAIN phase'
    /\ \A e \in Devices \ {d} : Same(e)

LEMMA UserOnly ==
    ASSUME TypeOK, NEW d \in Devices, User(d)
    PROVE  OnlyAt(d)
  <1>1. PICK t : Begin(d, t)
    BY DEF User, MakeDirectory, RenameDirectory, RemoveDirectory
  <1> QED BY <1>1 DEF Begin, OnlyAt, Same, TypeOK, polling

LEMMA TaskOnly ==
    ASSUME TypeOK, NEW d \in Devices, FolderTask(d)
    PROVE  OnlyAt(d)
  <1>1. CASE NoDirectory(d)
    BY <1>1 DEF NoDirectory, OnlyAt, Same, TypeOK, polling
  <1>2. CASE CreateEntry(d)
    BY <1>2 DEF CreateEntry, Descend, OnlyAt, Same, TypeOK, polling
  <1>3. CASE FindEntry(d)
    BY <1>3 DEF FindEntry, Descend, OnlyAt, Same, TypeOK, polling
  <1>4. CASE MoveEntry(d)
    BY <1>4 DEF MoveEntry, OnlyAt, Same, TypeOK, polling
  <1>5. CASE NameEntry(d)
    BY <1>5 DEF NameEntry, OnlyAt, Same, TypeOK, polling
  <1>6. CASE MissEntry(d)
    BY <1>6 DEF MissEntry, OnlyAt, Same, TypeOK, polling
  <1>7. CASE GetFolderPost(d)
    BY <1>7 DEF GetFolderPost, Descend, OnlyAt, Same, TypeOK, polling
  <1>8. CASE PutFolderPost(d)
    BY <1>8 DEF PutFolderPost, Descend, OnlyAt, Same, TypeOK, polling
  <1>9. CASE MarkDeleted(d)
    BY <1>9 DEF MarkDeleted, OnlyAt, Same, TypeOK, polling
  <1>10. CASE ReadForDelete(d)
    BY <1>10 DEF ReadForDelete, Marked, OnlyAt, Same, TypeOK, polling
  <1>11. CASE WriteDeleted(d)
    BY <1>11 DEF WriteDeleted, Marked, OnlyAt, Same, TypeOK, polling
  <1> QED BY <1>1, <1>2, <1>3, <1>4, <1>5, <1>6, <1>7, <1>8, <1>9, <1>10, <1>11 DEF FolderTask

LEMMA PollingOnly ==
    ASSUME TypeOK, NEW d \in Devices, Polling(d)
    PROVE  OnlyAt(d)
  <1>1. CASE PollDeletedFolderPosts(d)
    BY <1>1 DEF PollDeletedFolderPosts, OnlyAt, Same, TypeOK
  <1>2. CASE DeleteLocalFolder(d)
    BY <1>2 DEF DeleteLocalFolder, OnlyAt, Same, TypeOK
  <1>3. CASE PollFolderPosts(d)
    BY <1>3 DEF PollFolderPosts, OnlyAt, Same, TypeOK
  <1> QED BY <1>1, <1>2, <1>3 DEF Polling

LEMMA SyncOnly ==
    ASSUME TypeOK, NEW d \in Devices, FolderSync(d)
    PROVE  OnlyAt(d)
  <1>1. CASE PopFront(d)
    BY <1>1 DEF PopFront, OnlyAt, Same, TypeOK, polling
  <1>2. CASE Climb(d)
    BY <1>2 DEF Climb, OnlyAt, Same, TypeOK, polling
  <1>3. CASE InsertMissing(d)
    BY <1>3 DEF InsertMissing, OnlyAt, Same, TypeOK, polling
  <1>4. CASE DropPost(d)
    BY <1>4 DEF DropPost, OnlyAt, Same, TypeOK, polling
  <1>5. CASE CheckForRename(d)
    BY <1>5 DEF CheckForRename, OnlyAt, Same, TypeOK, polling
  <1>6. CASE MakeFolder(d)
    BY <1>6 DEF MakeFolder, OnlyAt, Same, TypeOK, polling
  <1> QED BY <1>1, <1>2, <1>3, <1>4, <1>5, <1>6 DEF FolderSync

-----------------------------------------------------------------------------
\* The actions keep the types.

ServerOK ==
    /\ clock \in Nat \ {0}
    /\ DOMAIN posts \subseteq Folders
    /\ \A i \in DOMAIN posts : IsPost(posts[i]) /\ posts[i].at > 0

LEMMA ServerKept ==
    ASSUME TypeOK, UNCHANGED server
    PROVE  Grows /\ ServerOK'
  BY DEF TypeOK, server, Grows, ServerOK, IsPost, Above

LEMMA ReceiveOK ==
    ASSUME TypeOK, NEW i \in Folders, NEW name, NEW parent \in Above, NEW deleted \in BOOLEAN,
           Receive(i, name, parent, deleted)
    PROVE  Grows /\ ServerOK' /\ DOMAIN posts' = DOMAIN posts \cup {i}
  <1> DEFINE p == [name |-> name, parent |-> parent, deleted |-> deleted, at |-> clock + 1]
  <1>1. clock' = clock + 1 /\ clock' \in Nat \ {0} /\ clock \in Nat
    BY DEF Receive, TypeOK
  <1>2. /\ DOMAIN posts' = DOMAIN posts \cup {i}
        /\ posts'[i] = p
        /\ \A j \in DOMAIN posts : j # i => posts'[j] = posts[j]
    BY DEF Receive, With
  <1>3. Grows
    BY <1>1, <1>2 DEF Grows
  <1>4. IsPost(posts[i])' /\ posts'[i].at > 0
    BY <1>1, <1>2 DEF IsPost, Above
  <1> HIDE DEF p
  <1>5. ASSUME NEW j \in DOMAIN posts, j # i PROVE IsPost(posts[j])' /\ posts'[j].at > 0
    BY <1>1, <1>2, <1>5 DEF TypeOK, IsPost, Above
  <1>6. DOMAIN posts' \subseteq Folders
    BY <1>2 DEF TypeOK
  <1> QED BY <1>1, <1>2, <1>3, <1>4, <1>5, <1>6 DEF ServerOK

LEMMA TypeStep ==
    ASSUME TypeOK, NEW d \in Devices, OnlyAt(d), Grows, ServerOK', failures' \in Nat,
           TablesOK(d)', TaskOK(d)', SyncOK(d)'
    PROVE  TypeOK'
  <1>1. ASSUME NEW e \in Devices PROVE TablesOK(e)' /\ TaskOK(e)' /\ SyncOK(e)'
    <2>1. CASE e = d
      BY <2>1
    <2>2. CASE e # d
      <3>1. Same(e) /\ clock \in Nat /\ TablesOK(e) /\ TaskOK(e) /\ SyncOK(e)
        BY <2>2 DEF OnlyAt, TypeOK
      <3> QED BY <3>1, TablesKept, TaskKept, SyncKept DEF Same
    <2> QED BY <2>1, <2>2
  <1> QED BY <1>1 DEF OnlyAt, ServerOK, TypeOK

\* A request that answers or fails.
LEMMA RequestTyped ==
    ASSUME TypeOK, NEW ok \in BOOLEAN, Request(ok)
    PROVE  failures' \in Nat
  BY DEF TypeOK, Request

LEMMA UserTyped ==
    ASSUME TypeOK, NEW d \in Devices, User(d)
    PROVE  TypeOK'
  <1>1. PICK t : Begin(d, t) /\ DOMAIN t = DOMAIN NoTask /\ t.parent \in {NoId, Root} /\ t.todo = {}
                 /\ t.place = NoPost /\ ~Works(t)
    <2>1. CASE MakeDirectory(d)
      <3>1. PICK p : Begin(d, CreateTask(p))
        BY <2>1 DEF MakeDirectory
      <3> DEFINE t == CreateTask(p)
      <3>2. /\ DOMAIN t = DOMAIN NoTask /\ t.parent \in {NoId, Root} /\ t.todo = {}
            /\ t.place = NoPost /\ ~Works(t)
        BY DEF CreateTask, NoTask, Works
      <3>3. Begin(d, t)
        BY <3>1
      <3> HIDE DEF t
      <3> QED BY <3>2, <3>3
    <2>2. CASE RenameDirectory(d)
      <3>1. PICK p, q : Begin(d, [NoTask EXCEPT !.op = "RENAME", !.pc = "name", !.old = p, !.new = q,
                                          !.rest = q, !.parent = Root])
        BY <2>2 DEF RenameDirectory
      <3> DEFINE t == [NoTask EXCEPT !.op = "RENAME", !.pc = "name", !.old = p, !.new = q,
                                          !.rest = q, !.parent = Root]
      <3>2. /\ DOMAIN t = DOMAIN NoTask /\ t.parent \in {NoId, Root} /\ t.todo = {}
            /\ t.place = NoPost /\ ~Works(t)
        BY DEF NoTask, Works
      <3>3. Begin(d, t)
        BY <3>1
      <3> HIDE DEF t
      <3> QED BY <3>2, <3>3
    <2>3. CASE RemoveDirectory(d)
      <3>1. PICK p : Begin(d, [NoTask EXCEPT !.op = "DELETE", !.pc = "mark", !.old = p])
        BY <2>3 DEF RemoveDirectory
      <3> DEFINE t == [NoTask EXCEPT !.op = "DELETE", !.pc = "mark", !.old = p]
      <3>2. /\ DOMAIN t = DOMAIN NoTask /\ t.parent \in {NoId, Root} /\ t.todo = {}
            /\ t.place = NoPost /\ ~Works(t)
        BY DEF NoTask, Works
      <3>3. Begin(d, t)
        BY <3>1
      <3> HIDE DEF t
      <3> QED BY <3>2, <3>3
    <2> QED BY <2>1, <2>2, <2>3 DEF User
  <1>2. UNCHANGED <<server, rows, polling, postMap, sync, lost, failures>> /\ task'[d] = t
    BY <1>1 DEF Begin, TypeOK, server
  <1>3. OnlyAt(d) /\ Grows /\ ServerOK'
    BY <1>2, UserOnly, ServerKept
  <1>4. TablesOK(d)' /\ SyncOK(d)'
    BY <1>2, <1>3, TablesKept, SyncKept DEF TypeOK, polling
  <1>5. TaskOK(d)'
    <2>1. IsPost(NoPost)'
      BY <1>3, NoPostOK DEF Grows
    <2> QED BY <1>1, <1>2, <2>1 DEF TaskOK, Above, IsPost, Works
  <1> QED BY <1>2, <1>3, <1>4, <1>5, TypeStep DEF TypeOK

\* What an action of FolderTask may do to the row of one post: Known and Find
\* give a post that has one.
LEMMA KnownIs ==
    ASSUME TypeOK, NEW d \in Devices
    PROVE  /\ Known(d) \in DOMAIN rows[d] \cup {NoId}
           /\ \A path : Find(rows[d], path) \in DOMAIN rows[d] \cup {NoId}
           /\ DOMAIN rows[d] \subseteq DOMAIN posts /\ NoId \notin Folders
           /\ clock \in Nat /\ failures \in Nat
           /\ TablesOK(d) /\ TaskOK(d) /\ SyncOK(d)
           /\ d \in DOMAIN rows /\ d \in DOMAIN task /\ d \in DOMAIN lost /\ d \in DOMAIN sync
  <1>1. DOMAIN rows[d] \subseteq DOMAIN posts /\ DOMAIN posts \subseteq Folders
    BY DEF TypeOK, TablesOK
  <1>2. Known(d) \in DOMAIN rows[d] \cup {NoId}
    BY <1>1, EntryIs DEF Known
  <1>3. NoId \notin Folders
    BY DEF NoId, Folders
  <1> QED BY <1>1, <1>2, <1>3, FindIs DEF TypeOK

\* One row takes new fields.
LEMMA OneRowChanges ==
    ASSUME TypeOK, NEW d \in Devices, Grows, NEW i \in DOMAIN posts', NEW r, IsRow(r)',
           DOMAIN rows'[d] \subseteq DOMAIN rows[d] \cup {i},
           \A j \in DOMAIN rows'[d] : rows'[d][j] = IF j = i THEN r ELSE rows[d][j],
           UNCHANGED <<polling, postMap>>, lost'[d] \subseteq DOMAIN posts'
    PROVE  TablesOK(d)'
  <1>1. TablesOK(d) /\ clock \in Nat /\ \A j \in DOMAIN rows[d] : IsRow(rows[d][j])
    BY DEF TypeOK, TablesOK
  <1>2. DOMAIN rows'[d] \subseteq DOMAIN posts'
    BY <1>1 DEF TablesOK, Grows
  <1>3. ASSUME NEW j \in DOMAIN rows'[d] PROVE IsRow(rows[d][j])'
    <2>1. CASE j = i
      BY <2>1 DEF IsRow, Above
    <2>2. CASE j # i
      <3>1. rows'[d][j] = rows[d][j] /\ IsRow(rows[d][j])
        BY <2>2, <1>1, <1>3
      <3> QED BY <3>1 DEF IsRow, Above, Grows
    <2> QED BY <2>1, <2>2
  <1> QED BY <1>1, <1>2, <1>3, TablesChange DEF polling

LEMMA NoDirectoryTyped ==
    ASSUME TypeOK, NEW d \in Devices, NoDirectory(d)
    PROVE  TypeOK'
  <1>1. UNCHANGED <<server, rows, polling, postMap, sync, lost, failures>> /\ task'[d] = NoTask
    BY DEF NoDirectory, TypeOK
  <1>2. OnlyAt(d) /\ Grows /\ ServerOK'
    BY <1>1, TaskOnly, ServerKept DEF FolderTask
  <1>3. TablesOK(d)' /\ SyncOK(d)' /\ TaskOK(d)'
    BY <1>1, <1>2, TablesKept, SyncKept, NoTaskOK, KnownIs DEF polling, Grows
  <1> QED BY <1>1, <1>2, <1>3, TypeStep, KnownIs

LEMMA CreateEntryTyped ==
    ASSUME TypeOK, NEW d \in Devices, CreateEntry(d)
    PROVE  TypeOK'
  <1> USE KnownIs
  <1>1. OnlyAt(d)
    BY TaskOnly DEF FolderTask
  <1>2. UNCHANGED <<polling, postMap, sync, lost>>
    BY DEF CreateEntry
  <1>3. CASE \E i \in Folders \ DOMAIN posts :
            /\ Receive(i, Head(task[d].rest), task[d].parent, FALSE)
            /\ rows' = [rows EXCEPT ![d] =
                   With(@, i, [name |-> Head(task[d].rest), alias |-> NoName,
                               parent |-> task[d].parent, deleted |-> FALSE])]
            /\ Descend(d, i)
            /\ UNCHANGED failures
    <2>0. PICK r : r = [name |-> Head(task[d].rest), alias |-> NoName,
                        parent |-> task[d].parent, deleted |-> FALSE]
      OBVIOUS
    <2>1. PICK i \in Folders \ DOMAIN posts :
            /\ Receive(i, Head(task[d].rest), task[d].parent, FALSE)
            /\ rows' = [rows EXCEPT ![d] = With(@, i, r)]
            /\ Descend(d, i)
            /\ UNCHANGED failures
      BY <1>3, <2>0
    <2>2. task[d].parent \in Above
      BY DEF TaskOK
    <2>3. Grows /\ ServerOK' /\ DOMAIN posts' = DOMAIN posts \cup {i}
      BY <2>1, <2>2, ReceiveOK
    <2>4. i \in DOMAIN posts' /\ i \in Above'
      BY <2>3 DEF Above
    <2>5. IsRow(r)'
      BY <2>0, <2>2, <2>3 DEF IsRow, Above
    <2>6. rows'[d] = With(rows[d], i, r)
      BY <2>1
    <2>7. /\ DOMAIN rows'[d] \subseteq DOMAIN rows[d] \cup {i}
          /\ \A j \in DOMAIN rows'[d] : rows'[d][j] = IF j = i THEN r ELSE rows[d][j]
      BY <2>6 DEF With
    <2>8. lost'[d] \subseteq DOMAIN posts'
      BY <1>2, <2>3 DEF TablesOK
    <2>9. TablesOK(d)'
      BY <1>2, <2>3, <2>4, <2>5, <2>7, <2>8, OneRowChanges
    <2>10. TaskOK(d)' /\ SyncOK(d)'
      BY <1>2, <2>1, <2>3, <2>4, DescendOK, SyncKept
    <2> QED BY <1>1, <2>1, <2>3, <2>9, <2>10, TypeStep
  <1>4. CASE Request(FALSE) /\ Descend(d, NoId) /\ UNCHANGED <<server, rows>>
    <2>1. Grows /\ ServerOK' /\ failures' \in Nat /\ NoId \in Above'
      BY <1>4, ServerKept, RequestTyped DEF Above
    <2>2. TablesOK(d)' /\ TaskOK(d)' /\ SyncOK(d)'
      BY <1>2, <1>4, <2>1, TablesKept, DescendOK, SyncKept DEF polling
    <2> QED BY <1>1, <2>1, <2>2, TypeStep
  <1> QED BY <1>3, <1>4 DEF CreateEntry

LEMMA FindEntryTyped ==
    ASSUME TypeOK, NEW d \in Devices, FindEntry(d)
    PROVE  TypeOK'
  <1> USE KnownIs
  <1>1. OnlyAt(d)
    BY TaskOnly DEF FolderTask
  <1>2. UNCHANGED <<server, polling, postMap, sync, lost, failures>> /\ Known(d) \in DOMAIN rows[d]
    BY DEF FindEntry
  <1>3. Grows /\ ServerOK' /\ Known(d) \in DOMAIN posts' /\ Known(d) \in Above'
    BY <1>2, ServerKept DEF server, Above
  <1>4. SyncOK(d)' /\ lost'[d] \subseteq DOMAIN posts'
    BY <1>2, <1>3, SyncKept DEF TablesOK, server
  <1>5. IsRow(rows[d][Known(d)]) /\ rows[d][Known(d)].parent \in Above
    BY <1>2 DEF TablesOK, IsRow
  <1>6. CASE /\ rows' = [rows EXCEPT ![d][Known(d)].deleted = FALSE]
             /\ task' = [task EXCEPT ![d].pc = "get", ![d].id = Known(d),
                                    ![d].place = Place(rows[d][Known(d)])]
    <2>0. PICK i, r, p : /\ i = Known(d)
                         /\ r = [rows[d][i] EXCEPT !.deleted = FALSE]
                         /\ p = Place(rows[d][i])
      OBVIOUS
    <2>1. IsRow(r)'
      BY <2>0, <1>5, <1>2 DEF IsRow, Above, server
    <2>2. /\ DOMAIN rows'[d] \subseteq DOMAIN rows[d] \cup {i}
          /\ \A j \in DOMAIN rows'[d] : rows'[d][j] = IF j = i THEN r ELSE rows[d][j]
      BY <1>6, <2>0
    <2>3. TablesOK(d)'
      BY <1>2, <1>3, <1>4, <2>0, <2>1, <2>2, OneRowChanges
    <2>4. IsPost(p)'
      <3>1. PICK x : x = rows[d][i]
        OBVIOUS
      <3>2. x.parent \in Above' /\ clock' \in Nat
        BY <3>1, <2>0, <1>2, <1>5 DEF Above, server
      <3> QED BY <3>1, <3>2, <2>0, PlaceOK
    <2>5. /\ DOMAIN task'[d] = DOMAIN NoTask /\ task'[d].parent = task[d].parent
          /\ task'[d].todo = task[d].todo /\ task'[d].id = i /\ task'[d].place = p
      BY <1>6, <2>0 DEF TaskOK, NoTask
    <2>6. TaskOK(d)'
      BY <1>2, <1>3, <2>0, <2>4, <2>5 DEF TaskOK, server, Above, IsPost
    <2> QED BY <1>1, <1>2, <1>3, <1>4, <2>3, <2>6, TypeStep
  <1>7. CASE Descend(d, Known(d)) /\ UNCHANGED rows
    <2>1. TablesOK(d)' /\ TaskOK(d)'
      BY <1>2, <1>3, <1>7, TablesKept, DescendOK DEF polling
    <2> QED BY <1>1, <1>2, <1>3, <1>4, <2>1, TypeStep
  <1> QED BY <1>6, <1>7 DEF FindEntry

LEMMA MoveEntryTyped ==
    ASSUME TypeOK, NEW d \in Devices, MoveEntry(d)
    PROVE  TypeOK'
  <1> USE KnownIs
  <1>1. OnlyAt(d)
    BY TaskOnly DEF FolderTask
  <1>2. PICK i : /\ i = Find(rows[d], task[d].old) /\ i # NoId
                 /\ rows' = [rows EXCEPT ![d][i].parent = task[d].parent]
                 /\ task' = [task EXCEPT ![d].pc = "row", ![d].id = i]
    BY DEF MoveEntry
  <1>3. UNCHANGED <<server, polling, postMap, sync, lost, failures>> /\ i \in DOMAIN rows[d]
    BY <1>2 DEF MoveEntry
  <1>4. Grows /\ ServerOK' /\ i \in DOMAIN posts'
    BY <1>3, ServerKept DEF server
  <1>5. SyncOK(d)' /\ lost'[d] \subseteq DOMAIN posts'
    BY <1>3, <1>4, SyncKept DEF TablesOK, server
  <1>6. PICK r : r = [rows[d][i] EXCEPT !.parent = task[d].parent]
    OBVIOUS
  <1>7. IsRow(r)'
    <2>1. IsRow(rows[d][i]) /\ task[d].parent \in Above'
      BY <1>3 DEF TablesOK, TaskOK, Above, server
    <2> QED BY <2>1, <1>3, <1>6 DEF IsRow, Above, server
  <1>8. /\ DOMAIN rows'[d] \subseteq DOMAIN rows[d] \cup {i}
        /\ \A j \in DOMAIN rows'[d] : rows'[d][j] = IF j = i THEN r ELSE rows[d][j]
    BY <1>2, <1>6
  <1>9. TablesOK(d)'
    BY <1>3, <1>4, <1>5, <1>7, <1>8, OneRowChanges
  <1>10. /\ DOMAIN task'[d] = DOMAIN NoTask /\ task'[d].parent = task[d].parent
         /\ task'[d].todo = task[d].todo /\ task'[d].id = i /\ task'[d].place = task[d].place
    BY <1>2 DEF TaskOK, NoTask
  <1>11. TaskOK(d)'
    BY <1>3, <1>4, <1>10 DEF TaskOK, server, Above, IsPost
  <1> QED BY <1>1, <1>3, <1>4, <1>5, <1>9, <1>11, TypeStep

LEMMA NameEntryTyped ==
    ASSUME TypeOK, NEW d \in Devices, NameEntry(d)
    PROVE  TypeOK'
  <1> USE KnownIs
  <1>1. OnlyAt(d)
    BY TaskOnly DEF FolderTask
  <1>2. PICK i, p : /\ i = task[d].id
                    /\ p = Place([name |-> Head(task[d].rest), parent |-> task[d].parent])
                    /\ rows' = [rows EXCEPT ![d][i].name = Head(task[d].rest)]
                    /\ task' = [task EXCEPT ![d].pc = "get", ![d].place = p]
    BY DEF NameEntry
  <1>3. UNCHANGED <<server, polling, postMap, sync, lost, failures>> /\ i \in DOMAIN posts
    BY <1>2 DEF NameEntry, At, TaskOK, Works
  <1>4. Grows /\ ServerOK' /\ i \in DOMAIN posts'
    BY <1>3, ServerKept DEF server
  <1>5. SyncOK(d)' /\ lost'[d] \subseteq DOMAIN posts'
    BY <1>3, <1>4, SyncKept DEF TablesOK, server
  <1>6. PICK r : r = [rows[d][i] EXCEPT !.name = Head(task[d].rest)]
    OBVIOUS
  <1>8. /\ DOMAIN rows'[d] \subseteq DOMAIN rows[d]
        /\ \A j \in DOMAIN rows'[d] : rows'[d][j] = IF j = i THEN r ELSE rows[d][j]
    BY <1>2, <1>6
  <1>9. TablesOK(d)'
    <2>1. CASE i \in DOMAIN rows[d]
      <3>1. IsRow(r)'
        <4>1. IsRow(rows[d][i])
          BY <2>1 DEF TablesOK
        <4> QED BY <4>1, <1>3, <1>6 DEF IsRow, Above, server
      <3> QED BY <1>3, <1>4, <1>5, <3>1, <1>8, OneRowChanges
    <2>2. CASE i \notin DOMAIN rows[d]
      <3>1. \A j \in DOMAIN rows'[d] : rows'[d][j] = rows[d][j] /\ j \in DOMAIN rows[d]
        BY <2>2, <1>8
      <3>2. \A j \in DOMAIN rows'[d] : IsRow(rows[d][j])'
        BY <1>3, <3>1 DEF TablesOK, IsRow, Above, server
      <3>3. DOMAIN rows'[d] \subseteq DOMAIN posts'
        BY <1>3, <1>8 DEF server
      <3> QED BY <1>3, <1>4, <1>5, <3>2, <3>3, TablesChange DEF polling
    <2> QED BY <2>1, <2>2
  <1>10. /\ DOMAIN task'[d] = DOMAIN NoTask /\ task'[d].parent = task[d].parent
         /\ task'[d].todo = task[d].todo /\ task'[d].id = i /\ task'[d].place = p
    BY <1>2 DEF TaskOK, NoTask
  <1>11. IsPost(p)'
    <2>1. PICK x : x = [name |-> Head(task[d].rest), parent |-> task[d].parent]
      OBVIOUS
    <2>2. x.parent \in Above' /\ clock' \in Nat
      BY <2>1, <1>3 DEF TaskOK, Above, server
    <2> QED BY <1>2, <2>1, <2>2, PlaceOK
  <1>12. TaskOK(d)'
    BY <1>3, <1>4, <1>10, <1>11 DEF TaskOK, server, Above, IsPost
  <1> QED BY <1>1, <1>3, <1>4, <1>5, <1>9, <1>12, TypeStep

LEMMA MissEntryTyped ==
    ASSUME TypeOK, NEW d \in Devices, MissEntry(d)
    PROVE  TypeOK'
  <1> USE KnownIs
  <1>1. UNCHANGED <<server, rows, polling, postMap, sync, lost, failures>>
    BY DEF MissEntry
  <1>2. OnlyAt(d) /\ Grows /\ ServerOK'
    BY <1>1, TaskOnly, ServerKept DEF FolderTask
  <1>3. TablesOK(d)' /\ SyncOK(d)'
    BY <1>1, <1>2, TablesKept, SyncKept DEF polling
  <1>4. task'[d] = CreateTask(task[d].new) \/ task'[d] = NoTask
    BY DEF MissEntry
  <1>5. CASE task'[d] = CreateTask(task[d].new)
    <2>1. DOMAIN task'[d] = DOMAIN NoTask
      BY <1>5 DEF CreateTask, NoTask
    <2>2. task'[d].parent = Root /\ task'[d].todo = {} /\ task'[d].place = NoPost /\ ~Works(task[d])'
      BY <1>5 DEF CreateTask, NoTask, Works
    <2>3. IsPost(NoPost)'
      BY <1>2, NoPostOK DEF Grows
    <2>4. TaskOK(d)'
      BY <2>1, <2>2, <2>3 DEF TaskOK, Above, IsPost
    <2> QED BY <1>1, <1>2, <1>3, <2>4, TypeStep
  <1>6. CASE task'[d] = NoTask
    BY <1>1, <1>2, <1>3, <1>6, NoTaskOK, TypeStep DEF Grows
  <1> QED BY <1>4, <1>5, <1>6

LEMMA MarkDeletedTyped ==
    ASSUME TypeOK, NEW d \in Devices, MarkDeleted(d)
    PROVE  TypeOK'
  <1> USE KnownIs
  <1>1. OnlyAt(d)
    BY TaskOnly DEF FolderTask
  <1>2. UNCHANGED <<server, polling, postMap, sync, lost, failures>>
    BY DEF MarkDeleted
  <1>3. Grows /\ ServerOK' /\ DOMAIN posts' = DOMAIN posts
    BY <1>2, ServerKept DEF server
  <1>4. SyncOK(d)' /\ lost'[d] \subseteq DOMAIN posts'
    BY <1>2, <1>3, SyncKept DEF TablesOK
  <1>5. CASE task' = [task EXCEPT ![d] = NoTask] /\ UNCHANGED rows
    <2>1. TablesOK(d)' /\ TaskOK(d)'
      BY <1>2, <1>3, <1>5, TablesKept, NoTaskOK DEF polling, Grows
    <2> QED BY <1>1, <1>2, <1>3, <1>4, <2>1, TypeStep
  <1>6. CASE \E all \in SUBSET DOMAIN rows[d] :
                /\ rows' = [rows EXCEPT ![d] = [j \in DOMAIN @ |->
                               IF j \in all THEN [@[j] EXCEPT !.deleted = TRUE] ELSE @[j]]]
                /\ task' = [task EXCEPT ![d].pc = "next", ![d].todo = all]
    <2>1. PICK all \in SUBSET DOMAIN rows[d] :
                /\ rows' = [rows EXCEPT ![d] = [j \in DOMAIN @ |->
                               IF j \in all THEN [@[j] EXCEPT !.deleted = TRUE] ELSE @[j]]]
                /\ task' = [task EXCEPT ![d].pc = "next", ![d].todo = all]
      BY <1>6
    <2>2. /\ DOMAIN rows'[d] = DOMAIN rows[d]
          /\ \A j \in DOMAIN rows[d] :
                rows'[d][j] = IF j \in all THEN [rows[d][j] EXCEPT !.deleted = TRUE] ELSE rows[d][j]
      BY <2>1
    <2>3. ASSUME NEW j \in DOMAIN rows'[d] PROVE IsRow(rows[d][j])'
      <3>1. IsRow(rows[d][j])
        BY <2>2, <2>3 DEF TablesOK
      <3> QED BY <2>2, <2>3, <3>1, <1>3 DEF IsRow, Above
    <2>4. TablesOK(d)'
      BY <1>2, <1>3, <1>4, <2>2, <2>3, TablesChange DEF polling
    <2>5. /\ DOMAIN task'[d] = DOMAIN NoTask /\ task'[d].parent = task[d].parent
          /\ task'[d].todo = all /\ task'[d].place = task[d].place /\ ~Works(task[d])'
      BY <2>1 DEF TaskOK, NoTask, Works
    <2>6. TaskOK(d)'
      BY <1>2, <1>3, <2>1, <2>5 DEF TaskOK, Above, IsPost, server
    <2> QED BY <1>1, <1>2, <1>3, <1>4, <2>4, <2>6, TypeStep
  <1> QED BY <1>5, <1>6 DEF MarkDeleted, Below

LEMMA GetFolderPostTyped ==
    ASSUME TypeOK, NEW d \in Devices, GetFolderPost(d)
    PROVE  TypeOK'
  <1> USE KnownIs
  <1>1. UNCHANGED <<server, rows, polling, postMap, sync>>
    BY DEF GetFolderPost
  <1>2. OnlyAt(d) /\ Grows /\ ServerOK'
    BY <1>1, TaskOnly, ServerKept DEF FolderTask
  <1>3. task[d].id \in DOMAIN posts /\ task[d].id \in DOMAIN posts' /\ task[d].id \in Above'
    BY <1>1 DEF GetFolderPost, At, TaskOK, Works, server, Above
  <1>4. PICK ok \in BOOLEAN :
        /\ Request(ok)
        /\ IF ok
           THEN /\ task' = [task EXCEPT ![d].pc = "put", ![d].place.deleted =
                               task[d].op = "RENAME" /\ posts[task[d].id].deleted]
                /\ UNCHANGED lost
           ELSE /\ lost' = [lost EXCEPT ![d] = @ \cup {task[d].id}]
                /\ Descend(d, task[d].id)
    BY DEF GetFolderPost
  <1>5. failures' \in Nat /\ lost'[d] \subseteq DOMAIN posts'
    BY <1>1, <1>3, <1>4, RequestTyped DEF TablesOK, server
  <1>6. TablesOK(d)' /\ SyncOK(d)'
    <2>1. \A j \in DOMAIN rows'[d] : IsRow(rows[d][j])'
      BY <1>1 DEF TablesOK, IsRow, Above, server
    <2>2. DOMAIN rows'[d] \subseteq DOMAIN posts'
      BY <1>1 DEF server
    <2> QED BY <1>1, <1>2, <1>5, <2>1, <2>2, TablesChange, SyncKept DEF polling
  <1>7. TaskOK(d)'
    <2>1. CASE ok
      <3>1. PICK b \in BOOLEAN : task' = [task EXCEPT ![d].pc = "put", ![d].place.deleted = b]
        BY <1>4, <2>1
      <3>2. PICK p : p = [task[d].place EXCEPT !.deleted = b]
        OBVIOUS
      <3>3. IsPost(task[d].place)
        BY DEF TaskOK
      <3>4. IsPost(p)'
        BY <3>2, <3>3, <1>1 DEF IsPost, Above, server
      <3>5. /\ DOMAIN task'[d] = DOMAIN NoTask /\ task'[d].parent = task[d].parent
            /\ task'[d].todo = task[d].todo /\ task'[d].id = task[d].id /\ task'[d].place = p
        BY <3>1, <3>2 DEF TaskOK, NoTask
      <3> QED BY <1>1, <1>3, <3>4, <3>5 DEF TaskOK, server, Above, IsPost
    <2>2. CASE ~ok
      BY <1>2, <1>3, <1>4, <2>2, DescendOK
    <2> QED BY <2>1, <2>2
  <1> QED BY <1>2, <1>5, <1>6, <1>7, TypeStep

LEMMA PutFolderPostTyped ==
    ASSUME TypeOK, NEW d \in Devices, PutFolderPost(d)
    PROVE  TypeOK'
  <1> USE KnownIs
  <1>1. OnlyAt(d)
    BY TaskOnly DEF FolderTask
  <1>2. PICK i, p : i = task[d].id /\ p = task[d].place
    OBVIOUS
  <1>3. UNCHANGED <<polling, postMap, sync>> /\ Descend(d, i)
    BY <1>2 DEF PutFolderPost
  <1>4. i \in DOMAIN posts /\ i \in Folders /\ p.parent \in Above /\ p.deleted \in BOOLEAN
    BY <1>2 DEF PutFolderPost, At, TaskOK, Works, TypeOK, IsPost
  <1>5. PICK ok \in BOOLEAN :
            /\ Request(ok)
            /\ IF ok
               THEN /\ Receive(i, p.name, p.parent, p.deleted)
                    /\ rows' = IF Renames(d) THEN [rows EXCEPT ![d][i].alias = NoName] ELSE rows
                    /\ UNCHANGED lost
               ELSE /\ lost' = [lost EXCEPT ![d] = @ \cup {i}]
                    /\ UNCHANGED <<server, rows>>
    BY <1>2 DEF PutFolderPost
  <1>6. Grows /\ ServerOK' /\ failures' \in Nat
    BY <1>4, <1>5, ReceiveOK, ServerKept, RequestTyped
  <1>7. i \in DOMAIN posts' /\ i \in Above'
    BY <1>4, <1>6 DEF Grows, Above
  <1>8. TaskOK(d)' /\ SyncOK(d)'
    BY <1>3, <1>6, <1>7, DescendOK, SyncKept
  <1>9. lost'[d] \subseteq DOMAIN posts'
    BY <1>5, <1>6, <1>7 DEF TablesOK, Grows
  <1>10. PICK r : r = [rows[d][i] EXCEPT !.alias = NoName]
    OBVIOUS
  <1>11. \/ rows'[d] = rows[d]
         \/ /\ DOMAIN rows'[d] = DOMAIN rows[d]
            /\ \A j \in DOMAIN rows'[d] : rows'[d][j] = IF j = i THEN r ELSE rows[d][j]
    BY <1>5, <1>10
  <1>12. TablesOK(d)'
    <2>1. ASSUME NEW j \in DOMAIN rows'[d] PROVE IsRow(rows[d][j])'
      <3>1. j \in DOMAIN rows[d] /\ (rows'[d][j] = rows[d][j] \/ (j = i /\ rows'[d][j] = r))
        BY <1>11, <2>1
      <3>2. IsRow(rows[d][j])
        BY <3>1 DEF TablesOK
      <3>3. CASE rows'[d][j] = rows[d][j]
        BY <3>2, <3>3, <1>6 DEF IsRow, Above, Grows
      <3>4. CASE j = i /\ rows'[d][j] = r
        BY <3>2, <3>4, <1>10, <1>6 DEF IsRow, Above, Grows
      <3> QED BY <3>1, <3>3, <3>4
    <2>2. DOMAIN rows'[d] \subseteq DOMAIN posts'
      BY <1>6, <1>11 DEF Grows
    <2> QED BY <1>3, <1>6, <1>9, <2>1, <2>2, TablesChange DEF polling
  <1> QED BY <1>1, <1>6, <1>8, <1>12, TypeStep

LEMMA ReadForDeleteTyped ==
    ASSUME TypeOK, NEW d \in Devices, ReadForDelete(d)
    PROVE  TypeOK'
  <1> USE KnownIs
  <1>1. UNCHANGED <<server, rows, polling, postMap, sync>>
    BY DEF ReadForDelete
  <1>2. OnlyAt(d) /\ Grows /\ ServerOK'
    BY <1>1, TaskOnly, ServerKept DEF FolderTask
  <1>3. PICK i \in task[d].todo, ok \in BOOLEAN :
        /\ Request(ok)
        /\ IF ok
           THEN /\ task' = [task EXCEPT ![d].pc = "delete", ![d].id = i,
                                        ![d].place = Place(posts[i])]
                /\ UNCHANGED lost
           ELSE /\ lost' = [lost EXCEPT ![d] = @ \cup {i}]
                /\ Marked(d, i)
    BY DEF ReadForDelete
  <1>4. i \in DOMAIN posts /\ i \in DOMAIN posts'
    BY <1>1 DEF TaskOK, server
  <1>5. failures' \in Nat /\ lost'[d] \subseteq DOMAIN posts'
    BY <1>1, <1>3, <1>4, RequestTyped DEF TablesOK, server
  <1>6. TablesOK(d)' /\ SyncOK(d)'
    <2>1. \A j \in DOMAIN rows'[d] : IsRow(rows[d][j])'
      BY <1>1 DEF TablesOK, IsRow, Above, server
    <2>2. DOMAIN rows'[d] \subseteq DOMAIN posts'
      BY <1>1 DEF server
    <2> QED BY <1>1, <1>2, <1>5, <2>1, <2>2, TablesChange, SyncKept DEF polling
  <1>7. TaskOK(d)'
    <2>1. CASE ok
      <3>1. PICK x, p : x = posts[i] /\ p = Place(x)
        OBVIOUS
      <3>2. x.parent \in Above' /\ clock' \in Nat
        BY <3>1, <1>1, <1>4 DEF TypeOK, IsPost, Above, server
      <3>3. IsPost(p)'
        BY <3>1, <3>2, PlaceOK
      <3>4. task' = [task EXCEPT ![d].pc = "delete", ![d].id = i, ![d].place = p]
        BY <1>3, <2>1, <3>1
      <3>5. /\ DOMAIN task'[d] = DOMAIN NoTask /\ task'[d].parent = task[d].parent
            /\ task'[d].todo = task[d].todo /\ task'[d].id = i /\ task'[d].place = p
        BY <3>4 DEF TaskOK, NoTask
      <3> QED BY <1>1, <1>4, <3>3, <3>5 DEF TaskOK, server, Above, IsPost
    <2>2. CASE ~ok
      BY <1>2, <1>3, <2>2, MarkedOK
    <2> QED BY <2>1, <2>2
  <1> QED BY <1>2, <1>5, <1>6, <1>7, TypeStep

LEMMA WriteDeletedTyped ==
    ASSUME TypeOK, NEW d \in Devices, WriteDeleted(d)
    PROVE  TypeOK'
  <1> USE KnownIs
  <1>1. OnlyAt(d)
    BY TaskOnly DEF FolderTask
  <1>2. PICK i, p : i = task[d].id /\ p = task[d].place
    OBVIOUS
  <1>3. UNCHANGED <<rows, polling, postMap, sync>> /\ Marked(d, i)
    BY <1>2 DEF WriteDeleted
  <1>4. i \in DOMAIN posts /\ i \in Folders /\ p.parent \in Above
    BY <1>2 DEF WriteDeleted, At, TaskOK, Works, TypeOK, IsPost
  <1>5. PICK ok \in BOOLEAN :
            /\ Request(ok)
            /\ IF ok THEN Receive(i, p.name, p.parent, TRUE) /\ UNCHANGED lost
               ELSE /\ lost' = [lost EXCEPT ![d] = @ \cup {i}]
                    /\ UNCHANGED server
    BY <1>2 DEF WriteDeleted
  <1>6. Grows /\ ServerOK' /\ failures' \in Nat
    BY <1>4, <1>5, ReceiveOK, ServerKept, RequestTyped
  <1>7. TaskOK(d)' /\ SyncOK(d)'
    BY <1>3, <1>6, MarkedOK, SyncKept
  <1>8. lost'[d] \subseteq DOMAIN posts'
    <2>1. lost'[d] \subseteq lost[d] \cup {i}
      BY <1>5
    <2> QED BY <1>4, <1>6, <2>1 DEF TablesOK, Grows
  <1>9. TablesOK(d)'
    <2>1. \A j \in DOMAIN rows'[d] : IsRow(rows[d][j])'
      BY <1>3, <1>6 DEF TablesOK, IsRow, Above, Grows
    <2>2. DOMAIN rows'[d] \subseteq DOMAIN posts'
      BY <1>3, <1>6 DEF Grows
    <2> QED BY <1>3, <1>6, <1>8, <2>1, <2>2, TablesChange DEF polling
  <1> QED BY <1>1, <1>6, <1>7, <1>9, TypeStep

LEMMA TaskTyped ==
    ASSUME TypeOK, NEW d \in Devices, FolderTask(d)
    PROVE  TypeOK'
  BY NoDirectoryTyped, CreateEntryTyped, FindEntryTyped, MoveEntryTyped, NameEntryTyped,
     MissEntryTyped, GetFolderPostTyped, PutFolderPostTyped, MarkDeletedTyped,
     ReadForDeleteTyped, WriteDeletedTyped DEF FolderTask

\* The newest of the posts that are read is no newer than the server's time.
LEMMA NewestIs ==
    ASSUME TypeOK, NEW S \in SUBSET DOMAIN posts, S # {}
    PROVE  /\ Newest(S) \in 0..clock
           /\ \A i \in S : posts[i].at <= Newest(S)
  <1> DEFINE T == {posts[i].at : i \in S}
  <1>1. clock \in Nat /\ T \subseteq 0..clock /\ T # {}
    BY DEF TypeOK, IsPost
  <1>2. Largest(T) \in T /\ \A m \in T : m <= Largest(T)
    BY <1>1, LargestIs
  <1> QED BY <1>1, <1>2 DEF Newest

LEMMA PollDeletedTyped ==
    ASSUME TypeOK, NEW d \in Devices, PollDeletedFolderPosts(d)
    PROVE  TypeOK'
  <1> USE KnownIs
  <1>1. UNCHANGED <<server, rows, task, polled, postMap, sync, lost, failures>>
    BY DEF PollDeletedFolderPosts
  <1>2. OnlyAt(d) /\ Grows /\ ServerOK'
    BY <1>1, PollingOnly, ServerKept DEF Polling
  <1>3. PICK new : new = News(d, TRUE)
    OBVIOUS
  <1>4. new # {} /\ new \in SUBSET DOMAIN posts
    BY <1>3 DEF PollDeletedFolderPosts, News
  <1>5. trash'[d] = [i \in new |-> posts[i]]
    BY <1>3 DEF PollDeletedFolderPosts, TypeOK
  <1>6. since'[d] = [since[d] EXCEPT !.deleted = Newest(new)]
    BY <1>3 DEF PollDeletedFolderPosts, TypeOK
  <1>7. since'[d] \in [live : 0..clock, deleted : 0..clock]
    BY <1>4, <1>6, NewestIs DEF TablesOK
  <1>8. \A i \in DOMAIN trash'[d] : IsPost(trash[d][i])'
    <2> SUFFICES ASSUME NEW i \in DOMAIN trash'[d] PROVE IsPost(trash[d][i])'
      OBVIOUS
    <2>1. i \in DOMAIN posts /\ trash'[d][i] = posts[i] /\ IsPost(posts[i])
      BY <1>4, <1>5 DEF TypeOK
    <2> QED BY <2>1, <1>1 DEF IsPost, Above, server
  <1>9. \A i \in DOMAIN rows'[d] : IsRow(rows[d][i])'
    BY <1>1 DEF TablesOK, IsRow, Above, server
  <1>10. \A i \in DOMAIN postMap'[d] : IsPost(postMap[d][i])'
    BY <1>1 DEF TablesOK, IsPost, Above, server
  <1>11. TablesOK(d)'
    BY <1>1, <1>4, <1>5, <1>7, <1>8, <1>9, <1>10 DEF TablesOK, server
  <1>12. TaskOK(d)' /\ SyncOK(d)'
    BY <1>1, <1>2, TaskKept, SyncKept
  <1> QED BY <1>1, <1>2, <1>11, <1>12, TypeStep

LEMMA DeleteLocalTyped ==
    ASSUME TypeOK, NEW d \in Devices, DeleteLocalFolder(d)
    PROVE  TypeOK'
  <1> USE KnownIs
  <1>1. UNCHANGED <<server, task, since, polled, postMap, sync, lost, failures>>
    BY DEF DeleteLocalFolder
  <1>2. OnlyAt(d) /\ Grows /\ ServerOK'
    BY <1>1, PollingOnly, ServerKept DEF Polling
  <1>3. PICK i \in DOMAIN trash[d] :
            /\ rows' = [rows EXCEPT ![d] = [WithRow(d, i, trash[d][i]) EXCEPT ![i].deleted = TRUE]]
            /\ trash' = [trash EXCEPT ![d] = Without(@, i)]
    BY DEF DeleteLocalFolder
  <1>4. PICK p : p = trash[d][i]
    OBVIOUS
  <1>5. IsPost(p) /\ i \in DOMAIN posts
    BY <1>4 DEF TablesOK
  <1>6. PICK r : r = WithRow(d, i, p) /\ RowAdded(r, d, i, p)
    BY WithRowIs
  <1>7. /\ DOMAIN r = DOMAIN rows[d] \cup {i}
        /\ \A j \in DOMAIN rows[d] : r[j] = rows[d][j]
    BY <1>6 DEF RowAdded
  <1>8. IsRow(r[i])
    <2>1. CASE i \in DOMAIN rows[d]
      BY <2>1, <1>7 DEF TablesOK
    <2>2. CASE i \notin DOMAIN rows[d]
      <3>1. PICK alias : r[i] = [name |-> p.name, alias |-> alias, parent |-> p.parent, deleted |-> FALSE]
        BY <2>2, <1>6 DEF RowAdded
      <3> QED BY <3>1, <1>5 DEF IsRow, IsPost
    <2> QED BY <2>1, <2>2
  <1>9. rows'[d] = [r EXCEPT ![i].deleted = TRUE]
    BY <1>3, <1>4, <1>6
  <1>10. \A j \in DOMAIN rows'[d] : IsRow(rows[d][j])'
    <2> SUFFICES ASSUME NEW j \in DOMAIN rows'[d] PROVE IsRow(rows[d][j])'
      OBVIOUS
    <2>1. CASE j = i
      <3>1. PICK x : x = r[i]
        OBVIOUS
      <3>2. rows'[d][j] = [x EXCEPT !.deleted = TRUE]
        BY <2>1, <3>1, <1>7, <1>9
      <3> QED BY <3>1, <3>2, <1>8, <1>1 DEF IsRow, Above, server
    <2>2. CASE j # i
      <3>1. rows'[d][j] = rows[d][j] /\ IsRow(rows[d][j])
        BY <2>2, <1>7, <1>9 DEF TablesOK
      <3> QED BY <3>1, <1>1 DEF IsRow, Above, server
    <2> QED BY <2>1, <2>2
  <1>11. /\ DOMAIN trash'[d] \subseteq DOMAIN trash[d]
         /\ \A j \in DOMAIN trash'[d] : trash'[d][j] = trash[d][j]
    BY <1>3 DEF Without, TypeOK
  <1>12. \A j \in DOMAIN trash'[d] : IsPost(trash[d][j])'
    BY <1>1, <1>11 DEF TablesOK, IsPost, Above, server
  <1>13. \A j \in DOMAIN postMap'[d] : IsPost(postMap[d][j])'
    BY <1>1 DEF TablesOK, IsPost, Above, server
  <1>14. DOMAIN rows'[d] \subseteq DOMAIN posts'
    BY <1>1, <1>5, <1>7, <1>9 DEF server
  <1>15. TablesOK(d)'
    BY <1>1, <1>10, <1>11, <1>12, <1>13, <1>14 DEF TablesOK, server
  <1>16. TaskOK(d)' /\ SyncOK(d)'
    BY <1>1, <1>2, TaskKept, SyncKept
  <1> QED BY <1>1, <1>2, <1>15, <1>16, TypeStep

LEMMA PollFolderTyped ==
    ASSUME TypeOK, NEW d \in Devices, PollFolderPosts(d)
    PROVE  TypeOK'
  <1> USE KnownIs
  <1>1. UNCHANGED <<server, rows, task, trash, sync, lost, failures>>
    BY DEF PollFolderPosts
  <1>2. OnlyAt(d) /\ Grows /\ ServerOK'
    BY <1>1, PollingOnly, ServerKept DEF Polling
  <1>3. PICK new : new = News(d, FALSE)
    OBVIOUS
  <1>4. new \in SUBSET DOMAIN posts
    BY <1>3 DEF News
  <1>5. postMap'[d] = Over([i \in new |-> posts[i]], postMap[d])
    BY <1>3 DEF PollFolderPosts, PushBack, TypeOK
  <1>6. since'[d] = IF new = {} THEN since[d] ELSE [since[d] EXCEPT !.live = Newest(new)]
    BY <1>3 DEF PollFolderPosts, TypeOK
  <1>7. since'[d] \in [live : 0..clock, deleted : 0..clock]
    BY <1>4, <1>6, NewestIs DEF TablesOK
  <1>8. /\ DOMAIN postMap'[d] = new \cup DOMAIN postMap[d]
        /\ \A i \in DOMAIN postMap'[d] :
              postMap'[d][i] = IF i \in new THEN posts[i] ELSE postMap[d][i]
    BY <1>5 DEF Over
  <1>9. \A i \in DOMAIN postMap'[d] : IsPost(postMap[d][i])'
    <2> SUFFICES ASSUME NEW i \in DOMAIN postMap'[d] PROVE IsPost(postMap[d][i])'
      OBVIOUS
    <2>1. CASE i \in new
      <3>1. postMap'[d][i] = posts[i] /\ IsPost(posts[i])
        BY <2>1, <1>4, <1>8 DEF TypeOK
      <3> QED BY <3>1, <1>1 DEF IsPost, Above, server
    <2>2. CASE i \notin new
      <3>1. postMap'[d][i] = postMap[d][i] /\ IsPost(postMap[d][i])
        BY <2>2, <1>8 DEF TablesOK
      <3> QED BY <3>1, <1>1 DEF IsPost, Above, server
    <2> QED BY <2>1, <2>2
  <1>10. \A i \in DOMAIN rows'[d] : IsRow(rows[d][i])'
    BY <1>1 DEF TablesOK, IsRow, Above, server
  <1>11. \A i \in DOMAIN trash'[d] : IsPost(trash[d][i])'
    BY <1>1 DEF TablesOK, IsPost, Above, server
  <1>12. polled'[d] \in 0..clock
    <2>1. polled' = [polled EXCEPT ![d] = clock] /\ d \in DOMAIN polled
      BY DEF PollFolderPosts, TypeOK
    <2> QED BY <2>1
  <1>13. DOMAIN postMap'[d] \subseteq DOMAIN posts'
    BY <1>1, <1>4, <1>8 DEF TablesOK, server
  <1>14. TablesOK(d)'
    BY <1>1, <1>7, <1>9, <1>10, <1>11, <1>12, <1>13 DEF TablesOK, server
  <1>15. TaskOK(d)' /\ SyncOK(d)'
    BY <1>1, <1>2, TaskKept, SyncKept
  <1> QED BY <1>1, <1>2, <1>14, <1>15, TypeStep

LEMMA PollingTyped ==
    ASSUME TypeOK, NEW d \in Devices, Polling(d)
    PROVE  TypeOK'
  BY PollDeletedTyped, DeleteLocalTyped, PollFolderTyped DEF Polling

LEMMA PopFrontTyped ==
    ASSUME TypeOK, NEW d \in Devices, PopFront(d)
    PROVE  TypeOK'
  <1> USE KnownIs
  <1>1. UNCHANGED <<server, rows, task, polling, lost, failures>>
    BY DEF PopFront
  <1>2. OnlyAt(d) /\ Grows /\ ServerOK'
    BY <1>1, SyncOnly, ServerKept DEF FolderSync
  <1>3. PICK i \in DOMAIN postMap[d] :
            /\ sync' = [sync EXCEPT ![d] = [pc |-> "walk", id |-> i, post |-> postMap[d][i], at |-> i]]
            /\ postMap' = [postMap EXCEPT ![d] = Without(@, i)]
    BY DEF PopFront
  <1>4. /\ DOMAIN postMap'[d] \subseteq DOMAIN postMap[d]
        /\ \A j \in DOMAIN postMap'[d] : postMap'[d][j] = postMap[d][j]
    BY <1>3 DEF Without, TypeOK
  <1>5. \A j \in DOMAIN postMap'[d] : IsPost(postMap[d][j])'
    BY <1>1, <1>4 DEF TablesOK, IsPost, Above, server
  <1>6. \A j \in DOMAIN rows'[d] : IsRow(rows[d][j])'
    BY <1>1 DEF TablesOK, IsRow, Above, server
  <1>7. \A j \in DOMAIN trash'[d] : IsPost(trash[d][j])'
    BY <1>1 DEF TablesOK, IsPost, Above, server, polling
  <1>8. TablesOK(d)'
    BY <1>1, <1>4, <1>5, <1>6, <1>7 DEF TablesOK, server, polling
  <1>9. PICK p : p = postMap[d][i] /\ IsPost(p)
    BY DEF TablesOK
  <1>10. IsPost(p)' /\ i \in DOMAIN posts' /\ i \in Above'
    BY <1>1, <1>9 DEF TablesOK, IsPost, Above, server
  <1>11. sync'[d] = [pc |-> "walk", id |-> i, post |-> p, at |-> i]
    BY <1>3, <1>9
  <1>12. DOMAIN sync'[d] = DOMAIN NoSync
    BY <1>11 DEF NoSync
  <1>13. SyncOK(d)'
    BY <1>10, <1>11, <1>12 DEF SyncOK, IsPost, Above
  <1>14. TaskOK(d)'
    BY <1>1, <1>2, TaskKept
  <1> QED BY <1>1, <1>2, <1>8, <1>13, <1>14, TypeStep

LEMMA ClimbTyped ==
    ASSUME TypeOK, NEW d \in Devices, Climb(d)
    PROVE  TypeOK'
  <1> USE KnownIs
  <1>1. UNCHANGED <<server, rows, task, polling, postMap, lost, failures>>
    BY DEF Climb
  <1>2. OnlyAt(d) /\ Grows /\ ServerOK'
    BY <1>1, SyncOnly, ServerKept DEF FolderSync
  <1>3. /\ DOMAIN sync'[d] = DOMAIN NoSync
        /\ sync'[d].pc = sync[d].pc /\ sync'[d].id = sync[d].id /\ sync'[d].post = sync[d].post
        /\ sync'[d].at = rows[d][sync[d].at].parent
    BY DEF Climb, SyncOK, NoSync, TypeOK
  <1>4. rows[d][sync[d].at].parent \in Above
    BY DEF Climb, TablesOK, IsRow
  <1>5. SyncOK(d)'
    BY <1>1, <1>3, <1>4 DEF SyncOK, server, IsPost, Above
  <1>6. TablesOK(d)' /\ TaskOK(d)'
    BY <1>1, <1>2, TablesKept, TaskKept DEF polling
  <1> QED BY <1>1, <1>2, <1>5, <1>6, TypeStep

\* FolderSync makes a row of a post it has or finds on the server.
LEMMA InsertTyped ==
    ASSUME TypeOK, NEW d \in Devices, NEW i \in DOMAIN posts, NEW p, IsPost(p),
           rows' = [rows EXCEPT ![d] = WithRow(d, i, p)],
           UNCHANGED <<server, polling, postMap, lost>>
    PROVE  TablesOK(d)'
  <1> USE KnownIs
  <1>1. PICK r : r = WithRow(d, i, p) /\ RowAdded(r, d, i, p)
    BY WithRowIs
  <1>2. /\ DOMAIN r = DOMAIN rows[d] \cup {i}
        /\ \A j \in DOMAIN rows[d] : r[j] = rows[d][j]
    BY <1>1 DEF RowAdded
  <1>3. IsRow(r[i])
    <2>1. CASE i \in DOMAIN rows[d]
      BY <2>1, <1>2 DEF TablesOK
    <2>2. CASE i \notin DOMAIN rows[d]
      <3>1. PICK alias : r[i] = [name |-> p.name, alias |-> alias, parent |-> p.parent, deleted |-> FALSE]
        BY <2>2, <1>1 DEF RowAdded
      <3> QED BY <3>1 DEF IsRow, IsPost
    <2> QED BY <2>1, <2>2
  <1>4. rows'[d] = r
    BY <1>1
  <1>5. \A j \in DOMAIN rows'[d] : IsRow(rows[d][j])'
    BY <1>2, <1>3, <1>4 DEF TablesOK, IsRow, Above, server
  <1>6. DOMAIN rows'[d] \subseteq DOMAIN posts' /\ lost'[d] \subseteq DOMAIN posts' /\ Grows
    BY <1>2, <1>4, ServerKept DEF server, TablesOK
  <1> QED BY <1>5, <1>6, TablesChange DEF polling

LEMMA InsertMissingTyped ==
    ASSUME TypeOK, NEW d \in Devices, InsertMissing(d)
    PROVE  TypeOK'
  <1> USE KnownIs
  <1>1. UNCHANGED <<server, task, polling, postMap>>
    BY DEF InsertMissing
  <1>2. OnlyAt(d) /\ Grows /\ ServerOK' /\ TaskOK(d)'
    BY <1>1, SyncOnly, ServerKept, TaskKept DEF FolderSync
  <1>3. CASE \E i \in DOMAIN posts : \E p :
                /\ IsPost(p)
                /\ rows' = [rows EXCEPT ![d] = WithRow(d, i, p)]
                /\ UNCHANGED <<sync, lost, failures>>
    <2>1. TablesOK(d)'
      BY <1>1, <1>3, InsertTyped
    <2>2. SyncOK(d)'
      BY <1>2, <1>3, SyncKept
    <2> QED BY <1>2, <1>3, <2>1, <2>2, TypeStep
  <1>4. CASE /\ failures' \in Nat
             /\ lost' = [lost EXCEPT ![d] = @ \cup {sync[d].id}]
             /\ sync' = [sync EXCEPT ![d] = NoSync]
             /\ UNCHANGED rows
    <2>1. sync[d].id \in DOMAIN posts
      BY DEF InsertMissing, SyncOK
    <2>2. \A j \in DOMAIN rows'[d] : IsRow(rows[d][j])'
      BY <1>1, <1>4 DEF TablesOK, IsRow, Above, server
    <2>3. DOMAIN rows'[d] \subseteq DOMAIN posts' /\ lost'[d] \subseteq DOMAIN posts'
      BY <1>1, <1>4, <2>1 DEF TablesOK, server
    <2>4. TablesOK(d)'
      BY <1>1, <1>2, <2>2, <2>3, TablesChange DEF polling
    <2>5. SyncOK(d)'
      BY <1>2, <1>4, NoSyncOK DEF Grows
    <2> QED BY <1>2, <1>4, <2>4, <2>5, TypeStep
  <1>5. \/ \E i \in DOMAIN posts : \E p :
                /\ IsPost(p)
                /\ rows' = [rows EXCEPT ![d] = WithRow(d, i, p)]
                /\ UNCHANGED <<sync, lost, failures>>
        \/ /\ failures' \in Nat
           /\ lost' = [lost EXCEPT ![d] = @ \cup {sync[d].id}]
           /\ sync' = [sync EXCEPT ![d] = NoSync]
           /\ UNCHANGED rows
    <2> DEFINE i == sync[d].at
               Insert(p) == rows' = [rows EXCEPT ![d] = WithRow(d, i, p)] /\ UNCHANGED <<sync, lost>>
    <2>1. \/ i \in DOMAIN postMap[d] /\ Insert(postMap[d][i]) /\ UNCHANGED failures
          \/ i \in DOMAIN posts \ DOMAIN postMap[d] /\ Insert(posts[i]) /\ UNCHANGED failures
          \/ /\ i \notin DOMAIN postMap[d]
             /\ IF i = NoId THEN UNCHANGED failures ELSE Request(FALSE)
             /\ lost' = [lost EXCEPT ![d] = @ \cup {sync[d].id}]
             /\ sync' = [sync EXCEPT ![d] = NoSync]
             /\ UNCHANGED rows
      BY DEF InsertMissing
    <2>2. CASE i \in DOMAIN postMap[d] /\ Insert(postMap[d][i]) /\ UNCHANGED failures
      <3>1. IsPost(postMap[d][i]) /\ i \in DOMAIN posts
        BY <2>2 DEF TablesOK
      <3> QED BY <2>2, <3>1
    <2>3. CASE i \in DOMAIN posts \ DOMAIN postMap[d] /\ Insert(posts[i]) /\ UNCHANGED failures
      <3>1. IsPost(posts[i]) /\ i \in DOMAIN posts
        BY <2>3 DEF TypeOK
      <3> QED BY <2>3, <3>1
    <2>4. CASE /\ IF i = NoId THEN UNCHANGED failures ELSE Request(FALSE)
               /\ lost' = [lost EXCEPT ![d] = @ \cup {sync[d].id}]
               /\ sync' = [sync EXCEPT ![d] = NoSync]
               /\ UNCHANGED rows
      BY <2>4, RequestTyped
    <2> QED BY <2>1, <2>2, <2>3, <2>4
  <1> QED BY <1>3, <1>4, <1>5

LEMMA DropPostTyped ==
    ASSUME TypeOK, NEW d \in Devices, DropPost(d)
    PROVE  TypeOK'
  <1> USE KnownIs
  <1>1. UNCHANGED <<server, rows, task, polling, postMap, failures>>
    BY DEF DropPost
  <1>2. OnlyAt(d) /\ Grows /\ ServerOK' /\ TaskOK(d)'
    BY <1>1, SyncOnly, ServerKept, TaskKept DEF FolderSync
  <1>3. /\ lost' = [lost EXCEPT ![d] = @ \cup {sync[d].id}]
        /\ sync' = [sync EXCEPT ![d] = NoSync]
        /\ sync[d].id \in DOMAIN posts
    BY DEF DropPost, SyncOK
  <1>4. \A j \in DOMAIN rows'[d] : IsRow(rows[d][j])'
    BY <1>1 DEF TablesOK, IsRow, Above, server
  <1>5. DOMAIN rows'[d] \subseteq DOMAIN posts' /\ lost'[d] \subseteq DOMAIN posts'
    BY <1>1, <1>3 DEF TablesOK, server
  <1>6. TablesOK(d)'
    BY <1>1, <1>2, <1>4, <1>5, TablesChange DEF polling
  <1>7. SyncOK(d)'
    BY <1>2, <1>3, NoSyncOK DEF Grows
  <1> QED BY <1>1, <1>2, <1>6, <1>7, TypeStep

\* The name, and then the parent.
Renaming(d, i, p, named) ==
    /\ i = sync[d].id /\ p = sync[d].post
    /\ named = IF rows[d][i].name = p.name THEN rows[d]
               ELSE [rows[d] EXCEPT ![i].name = p.name, ![i].alias = NoName]
    /\ rows'[d] = [named EXCEPT ![i].parent = p.parent]

LEMMA RenameIs ==
    ASSUME TypeOK, NEW d \in Devices, CheckForRename(d)
    PROVE  \E i, p, named : Renaming(d, i, p, named)
  <1>1. PICK i, p : i = sync[d].id /\ p = sync[d].post
    OBVIOUS
  <1>2. PICK named : named = IF rows[d][i].name = p.name THEN rows[d]
                             ELSE [rows[d] EXCEPT ![i].name = p.name, ![i].alias = NoName]
    OBVIOUS
  <1>3. rows'[d] = [named EXCEPT ![i].parent = p.parent]
    BY <1>1, <1>2 DEF CheckForRename, TypeOK
  <1>4. Renaming(d, i, p, named)
    BY <1>1, <1>2, <1>3 DEF Renaming
  <1> QED BY <1>4

LEMMA CheckForRenameTyped ==
    ASSUME TypeOK, NEW d \in Devices, CheckForRename(d)
    PROVE  TypeOK'
  <1> USE KnownIs
  <1>1. UNCHANGED <<server, task, polling, postMap, failures>>
    BY DEF CheckForRename
  <1>2. OnlyAt(d) /\ Grows /\ ServerOK' /\ TaskOK(d)'
    BY <1>1, SyncOnly, ServerKept, TaskKept DEF FolderSync
  <1>3. lost'[d] \subseteq lost[d] /\ sync'[d] = NoSync
    BY DEF CheckForRename
  <1>4. PICK i, p, named : Renaming(d, i, p, named)
    BY RenameIs
  <1>5. /\ i = sync[d].id /\ p = sync[d].post
        /\ named = IF rows[d][i].name = p.name THEN rows[d]
                   ELSE [rows[d] EXCEPT ![i].name = p.name, ![i].alias = NoName]
        /\ rows'[d] = [named EXCEPT ![i].parent = p.parent]
    BY <1>4 DEF Renaming
  <1>6. IsPost(p)
    BY <1>5 DEF SyncOK
  <1>7. DOMAIN named = DOMAIN rows[d] /\ \A j \in DOMAIN rows[d] : IsRow(named[j])
    <2> SUFFICES ASSUME NEW j \in DOMAIN rows[d] PROVE DOMAIN named = DOMAIN rows[d] /\ IsRow(named[j])
      BY <1>5
    <2>1. PICK x : x = rows[d][j] /\ IsRow(x)
      BY DEF TablesOK
    <2>2. \/ named[j] = x
          \/ named[j] = [x EXCEPT !.name = p.name, !.alias = NoName]
      BY <1>5, <2>1
    <2>3. DOMAIN named = DOMAIN rows[d]
      BY <1>5
    <2>4. CASE named[j] = x
      BY <2>1, <2>3, <2>4
    <2>5. CASE named[j] = [x EXCEPT !.name = p.name, !.alias = NoName]
      BY <2>1, <2>3, <2>5 DEF IsRow
    <2> QED BY <2>2, <2>4, <2>5
  <1>8. DOMAIN rows'[d] = DOMAIN rows[d]
    BY <1>5, <1>7
  <1>9. ASSUME NEW j \in DOMAIN rows'[d] PROVE IsRow(rows[d][j])'
    <2>1. PICK x : x = named[j] /\ IsRow(x)
      BY <1>7, <1>8
    <2>2. rows'[d][j] = x \/ rows'[d][j] = [x EXCEPT !.parent = p.parent]
      BY <1>5, <1>7, <1>8, <2>1
    <2> QED BY <1>1, <1>6, <2>1, <2>2 DEF IsRow, IsPost, Above, server
  <1>10. DOMAIN rows'[d] \subseteq DOMAIN posts' /\ lost'[d] \subseteq DOMAIN posts'
    BY <1>1, <1>3, <1>8 DEF TablesOK, server
  <1>11. TablesOK(d)'
    BY <1>1, <1>2, <1>9, <1>10, TablesChange DEF polling
  <1>12. SyncOK(d)'
    BY <1>2, <1>3, NoSyncOK DEF Grows
  <1> QED BY <1>1, <1>2, <1>11, <1>12, TypeStep

LEMMA MakeFolderTyped ==
    ASSUME TypeOK, NEW d \in Devices, MakeFolder(d)
    PROVE  TypeOK'
  <1> USE KnownIs
  <1>1. UNCHANGED <<server, task, polling, postMap, failures>>
    BY DEF MakeFolder
  <1>2. OnlyAt(d) /\ Grows /\ ServerOK' /\ TaskOK(d)'
    BY <1>1, SyncOnly, ServerKept, TaskKept DEF FolderSync
  <1>3. /\ lost'[d] \subseteq lost[d] /\ sync'[d] = NoSync
        /\ rows'[d] = [rows[d] EXCEPT ![sync[d].id].deleted = FALSE]
    BY DEF MakeFolder
  <1>4. ASSUME NEW j \in DOMAIN rows'[d] PROVE IsRow(rows[d][j])'
    <2>1. PICK x : x = rows[d][j] /\ IsRow(x)
      BY <1>3 DEF TablesOK
    <2>2. rows'[d][j] = x \/ rows'[d][j] = [x EXCEPT !.deleted = FALSE]
      BY <1>3, <2>1
    <2> QED BY <1>1, <2>1, <2>2 DEF IsRow, Above, server
  <1>5. DOMAIN rows'[d] \subseteq DOMAIN posts' /\ lost'[d] \subseteq DOMAIN posts'
    BY <1>1, <1>3 DEF TablesOK, server
  <1>6. TablesOK(d)'
    BY <1>1, <1>2, <1>4, <1>5, TablesChange DEF polling
  <1>7. SyncOK(d)'
    BY <1>2, <1>3, NoSyncOK DEF Grows
  <1> QED BY <1>1, <1>2, <1>6, <1>7, TypeStep

LEMMA SyncTyped ==
    ASSUME TypeOK, NEW d \in Devices, FolderSync(d)
    PROVE  TypeOK'
  BY PopFrontTyped, ClimbTyped, InsertMissingTyped, DropPostTyped, CheckForRenameTyped,
     MakeFolderTyped DEF FolderSync

LEMMA InitTyped == Init => TypeOK
  <1> SUFFICES ASSUME Init PROVE TypeOK
    OBVIOUS
  <1>1. /\ DOMAIN posts = DOMAIN Old /\ DOMAIN Old \subseteq Folders
        /\ clock = 1 /\ failures = 0
    BY FolderTreeAssumption DEF Init
  <1>2. ASSUME NEW i \in DOMAIN posts PROVE IsPost(posts[i]) /\ posts[i].at > 0
    <2>1. Old[i].parent \in Above
      BY <1>1, FolderTreeAssumption DEF Above
    <2>2. posts[i] = [name |-> Old[i].name, parent |-> Old[i].parent, deleted |-> FALSE, at |-> 1]
      BY <1>1 DEF Init, Place, NoPost
    <2> QED BY <1>1, <2>1, <2>2 DEF IsPost
  <1>3. ASSUME NEW d \in Devices PROVE TablesOK(d)
    <2>1. DOMAIN rows[d] \subseteq DOMAIN posts
      BY <1>1 DEF Init
    <2>2. ASSUME NEW i \in DOMAIN rows[d] PROVE IsRow(rows[d][i])
      <3>1. i \in DOMAIN Old /\ Old[i].parent \in Above
        BY <1>1, <2>1, FolderTreeAssumption DEF Above
      <3>2. rows[d][i] = [name |-> Old[i].name, alias |-> NoName, parent |-> Old[i].parent,
                          deleted |-> FALSE]
        <4> DEFINE R == [j \in DOMAIN Old |-> [name |-> Old[j].name, alias |-> NoName,
                                              parent |-> Old[j].parent, deleted |-> FALSE]]
        <4>1. rows[d] = IF d \in Fresh THEN << >> ELSE R
          BY DEF Init
        <4>2. rows[d] = R
          <5>1. CASE d \in Fresh
            <6>1. rows[d] = << >>
              BY <4>1, <5>1
            <6> QED BY <6>1
          <5>2. CASE d \notin Fresh
            BY <4>1, <5>2
          <5> QED BY <5>1, <5>2
        <4> QED BY <3>1, <4>2
      <3> QED BY <3>1, <3>2 DEF IsRow
    <2>3. DOMAIN postMap[d] = {} /\ DOMAIN trash[d] = {} /\ lost[d] = {} /\ polled[d] = 0
      <3>1. postMap[d] = << >>
        BY DEF Init
      <3>2. trash[d] = << >>
        BY DEF Init
      <3>3. lost[d] = {} /\ polled[d] = 0
        BY DEF Init
      <3> QED BY <3>1, <3>2, <3>3
    <2>4. since[d] \in [live : 0..clock, deleted : 0..clock]
      BY <1>1 DEF Init
    <2> QED BY <1>1, <2>1, <2>2, <2>3, <2>4 DEF TablesOK
  <1>4. IsPost(NoPost)
    BY <1>1 DEF IsPost, NoPost, Above
  <1>5. ASSUME NEW d \in Devices PROVE TaskOK(d) /\ SyncOK(d)
    <2>1. task[d] = NoTask /\ sync[d] = NoSync
      BY DEF Init
    <2>2. /\ DOMAIN task[d] = DOMAIN NoTask /\ DOMAIN sync[d] = DOMAIN NoSync
          /\ task[d].parent = NoId /\ task[d].todo = {} /\ task[d].place = NoPost /\ ~Works(task[d])
          /\ sync[d].at = NoId /\ sync[d].post = NoPost /\ sync[d].pc = "idle"
      BY <2>1 DEF NoTask, NoSync, Works
    <2> QED BY <1>4, <2>2 DEF TaskOK, SyncOK, Above
  <1> QED BY <1>1, <1>2, <1>3, <1>5 DEF TypeOK, Init

LEMMA StutterTyped ==
    ASSUME TypeOK, UNCHANGED vars
    PROVE  TypeOK'
  <1>1. UNCHANGED <<server, rows, task, polling, postMap, sync, lost, failures>>
    BY DEF vars, server, polling
  <1>2. Grows /\ ServerOK'
    BY <1>1, ServerKept
  <1>3. ASSUME NEW d \in Devices PROVE TablesOK(d)' /\ TaskOK(d)' /\ SyncOK(d)'
    BY <1>1, <1>2, TablesKept, TaskKept, SyncKept DEF TypeOK, polling
  <1> QED BY <1>1, <1>2, <1>3 DEF TypeOK, ServerOK, polling

\* Rows, waiting versions, tasks and FolderSync are of posts the server has, whatever
\* requests fail and whichever posts arrive meanwhile (FolderTask, Polling, FolderSync).
THEOREM TypeCorrect == Spec => []TypeOK
  <1>1. TypeOK /\ [Next]_vars => TypeOK'
    BY UserTyped, TaskTyped, PollingTyped, SyncTyped, StutterTyped DEF Next
  <1> QED BY <1>1, InitTyped, PTL DEF Spec

-----------------------------------------------------------------------------
\* What a device knows of a post.

\* What RenameHandler compares: the name and the parent.
Agrees(p, q) == p.name = q.name /\ p.parent = q.parent

\* The newest version of a post is not deleted and no news to a device; FolderSync has
\* popped the post; a task of the device works on it.
Read(d, i) == ~posts[i].deleted /\ posts[i].at <= since[d].live
Walks(d, i) == sync[d].pc = "walk" /\ sync[d].id = i
Writes(d, i) == task[d].pc \in {"row", "get", "put"} /\ task[d].id = i

\* The version that waits in the map is the newest the device read, and without one
\* there the version FolderSync has popped, ...
MapCurrent(d, i) ==
    Read(d, i) /\ i \in DOMAIN postMap[d] => Agrees(postMap[d][i], posts[i])
SyncCurrent(d, i) ==
    Read(d, i) /\ i \notin DOMAIN postMap[d] /\ Walks(d, i) => Agrees(sync[d].post, posts[i])
\* ... and without either the row, but for posts given up and those a task has changed
\* in the row and has yet to write.
RowCurrent(d, i) ==
    (/\ Read(d, i)
     /\ i \notin DOMAIN postMap[d] \cup lost[d]
     /\ ~Walks(d, i)
     /\ ~Writes(d, i))
    => i \in DOMAIN rows[d] /\ Agrees(rows[d][i], posts[i])
\* No post is lost from sight: it has a row, waits somewhere or is news.
Heard(d, i) ==
    \/ i \in DOMAIN rows[d] \cup DOMAIN postMap[d] \cup DOMAIN trash[d] \cup lost[d]
    \/ Walks(d, i)
    \/ i \in News(d, TRUE) \cup News(d, FALSE)
Index(d, i) == MapCurrent(d, i) /\ SyncCurrent(d, i) /\ RowCurrent(d, i) /\ Heard(d, i)

\* FolderSync has a row for a post it climbs up from, works only where Polling
\* does, and between two rounds nothing is left to remove.
Steady(d) ==
    /\ sync[d].pc = "walk" /\ sync[d].at # sync[d].id => sync[d].id \in DOMAIN rows[d]
    /\ d \notin Followers => sync[d].pc = "idle" /\ DOMAIN postMap[d] = {}
    /\ phase[d] = "between" => DOMAIN trash[d] = {}

Knows(d) == Steady(d) /\ (d \in Followers => \A i \in DOMAIN posts : Index(d, i))
Inv == \A d \in Devices : Knows(d)

-----------------------------------------------------------------------------
\* The steps of a task, and of the user.

LEMMA FreshIndex ==
    ASSUME TypeOK, NEW d \in Devices, NEW i \in DOMAIN posts', clock' = clock + 1,
           posts'[i].at = clock', posts'[i].deleted \in BOOLEAN, since'[d] = since[d]
    PROVE  Index(d, i)'
  <1>1. /\ clock \in Nat /\ since[d].live \in 0..clock /\ since[d].deleted \in 0..clock
    BY DEF TypeOK, TablesOK
  <1>2. ~Read(d, i)'
    BY <1>1 DEF Read
  <1>3. i \in News(d, TRUE)' \cup News(d, FALSE)'
    BY <1>1 DEF News
  <1> QED BY <1>2, <1>3 DEF Index, MapCurrent, SyncCurrent, RowCurrent, Heard

LEMMA KeptIndex ==
    ASSUME NEW d, NEW i \in DOMAIN posts, Index(d, i), i \in DOMAIN posts',
           posts'[i] = posts[i], since'[d].live = since[d].live, postMap'[d] = postMap[d],
           i \in DOMAIN trash[d] \cup News(d, TRUE)
              => i \in DOMAIN rows'[d] \cup DOMAIN trash'[d] \cup News(d, TRUE)',
           Walks(d, i)' => Walks(d, i) /\ sync'[d].post = sync[d].post,
           Walks(d, i) => Walks(d, i)' \/ i \in lost'[d],
           i \in lost[d] => i \in lost'[d],
           i \in DOMAIN rows[d] =>
              i \in DOMAIN rows'[d] /\ (Agrees(rows'[d][i], rows[d][i]) \/ Writes(d, i)'),
           Writes(d, i) => Writes(d, i)' \/ i \in lost'[d]
    PROVE  Index(d, i)'
  <1>1. Read(d, i)' = Read(d, i)
    BY DEF Read
  <1>2. MapCurrent(d, i)'
    BY <1>1 DEF Index, MapCurrent, Agrees
  <1>3. SyncCurrent(d, i)'
    BY <1>1 DEF Index, SyncCurrent, Agrees
  <1>4. RowCurrent(d, i)'
    BY <1>1 DEF Index, RowCurrent, Agrees
  <1>5. i \in News(d, FALSE) => i \in News(d, FALSE)'
    BY DEF News
  <1>6. Heard(d, i)'
    BY <1>5 DEF Index, Heard
  <1> QED BY <1>2, <1>3, <1>4, <1>6 DEF Index

\* What a step of a task of d does: the server receives posts now or keeps them; a row
\* of a post it keeps agrees with what it was, or is of the post the task works on,
\* which is then written or given up.
Keeps(d, i) ==
    /\ i \in DOMAIN rows[d] => Agrees(rows'[d][i], rows[d][i]) \/ Writes(d, i)'
    /\ Writes(d, i) => Writes(d, i)' \/ i \in lost'[d]
TaskDoes(d) ==
    /\ UNCHANGED <<polling, postMap, sync>>
    /\ \A i \in DOMAIN posts' :
          \/ i \in DOMAIN posts /\ posts'[i] = posts[i]
          \/ clock' = clock + 1 /\ posts'[i].at = clock' /\ posts'[i].deleted \in BOOLEAN
    /\ DOMAIN rows[d] \subseteq DOMAIN rows'[d]
    /\ lost[d] \subseteq lost'[d]
    /\ \A i \in DOMAIN posts : posts'[i] = posts[i] => Keeps(d, i)

LEMMA TaskKnows ==
    ASSUME TypeOK, Inv, NEW d \in Devices, OnlyAt(d), TaskDoes(d)
    PROVE  Inv'
  <1> SUFFICES ASSUME NEW e \in Devices PROVE Knows(e)'
    BY DEF Inv
  <1>1. Knows(e)
    BY DEF Inv
  <1>2. /\ <<since'[e], phase'[e], trash'[e], postMap'[e], sync'[e]>>
            = <<since[e], phase[e], trash[e], postMap[e], sync[e]>>
        /\ DOMAIN rows[e] \subseteq DOMAIN rows'[e] /\ lost[e] \subseteq lost'[e]
    <2>1. CASE e = d
      BY <2>1 DEF TaskDoes, polling
    <2>2. CASE e # d
      <3>1. Same(e)
        BY <2>2 DEF OnlyAt
      <3> QED BY <3>1 DEF Same
    <2> QED BY <2>1, <2>2
  <1>3. Steady(e)'
    BY <1>1, <1>2 DEF Knows, Steady
  <1>4. ASSUME e \in Followers, NEW i \in DOMAIN posts' PROVE Index(e, i)'
    <2>1. CASE clock' = clock + 1 /\ posts'[i].at = clock' /\ posts'[i].deleted \in BOOLEAN
      BY <2>1, <1>2, FreshIndex
    <2>2. CASE i \in DOMAIN posts /\ posts'[i] = posts[i]
      <3>1. Index(e, i)
        BY <2>2, <1>1, <1>4 DEF Knows
      <3>2. Keeps(e, i)
        <4>1. CASE e = d
          BY <4>1, <2>2 DEF TaskDoes
        <4>2. CASE e # d
          <5>1. rows'[e] = rows[e] /\ task'[e] = task[e]
            BY <4>2 DEF OnlyAt, Same
          <5> QED BY <5>1 DEF Keeps, Agrees, Writes
        <4> QED BY <4>1, <4>2
      <3>3. i \in News(e, TRUE) => i \in News(e, TRUE)'
        BY <2>2, <1>2, <1>4 DEF News
      <3>4. Walks(e, i)' = Walks(e, i)
        BY <1>2 DEF Walks
      <3> QED BY <2>2, <3>1, <3>2, <3>3, <3>4, <1>2, KeptIndex DEF Keeps
    <2> QED BY <2>1, <2>2 DEF TaskDoes
  <1> QED BY <1>3, <1>4 DEF Knows

LEMMA QuietTask ==
    ASSUME NEW d, UNCHANGED <<server, polling, postMap, sync>>,
           DOMAIN rows[d] \subseteq DOMAIN rows'[d], lost[d] \subseteq lost'[d],
           \A i \in DOMAIN posts : Keeps(d, i)
    PROVE  TaskDoes(d)
  BY DEF TaskDoes, server

LEMMA UserDoes ==
    ASSUME TypeOK, NEW d \in Devices, User(d)
    PROVE  TaskDoes(d)
  <1>1. PICK t : Begin(d, t)
    BY DEF User, MakeDirectory, RenameDirectory, RemoveDirectory
  <1>2. /\ UNCHANGED <<server, polling, postMap, sync, rows, lost>>
        /\ task[d].pc = "idle"
    BY <1>1 DEF Begin, server
  <1>3. \A i \in DOMAIN posts : Keeps(d, i)
    BY <1>2 DEF Keeps, Agrees, Writes
  <1> QED BY <1>2, <1>3, QuietTask

LEMMA NoDirectoryDoes ==
    ASSUME TypeOK, NEW d \in Devices, NoDirectory(d)
    PROVE  TaskDoes(d)
  <1>1. /\ UNCHANGED <<server, polling, postMap, sync, rows, lost>>
        /\ task[d].pc = "name"
    BY DEF NoDirectory, At, server
  <1>2. \A i \in DOMAIN posts : Keeps(d, i)
    BY <1>1 DEF Keeps, Agrees, Writes
  <1> QED BY <1>1, <1>2, QuietTask

\* What the server receives is new, and the rest stays.
LEMMA ReceiveDoes ==
    ASSUME TypeOK, NEW d, NEW i \in Folders, NEW name, NEW parent, NEW deleted \in BOOLEAN,
           Receive(i, name, parent, deleted), UNCHANGED <<polling, postMap, sync>>,
           DOMAIN rows[d] \subseteq DOMAIN rows'[d], lost[d] \subseteq lost'[d],
           \A j \in DOMAIN posts \ {i} : Keeps(d, j)
    PROVE  TaskDoes(d)
  <1>1. /\ DOMAIN posts' = DOMAIN posts \cup {i}
        /\ posts'[i].at = clock + 1 /\ posts'[i].deleted = deleted
        /\ \A j \in DOMAIN posts : j # i => posts'[j] = posts[j]
        /\ clock' = clock + 1
    BY DEF Receive, With
  <1>2. i \in DOMAIN posts => posts'[i] # posts[i]
    <2>1. i \in DOMAIN posts => posts[i].at \in 0..clock /\ clock \in Nat
      BY DEF TypeOK, IsPost
    <2> QED BY <1>1, <2>1
  <1>3. \A j \in DOMAIN posts : posts'[j] = posts[j] => Keeps(d, j)
    BY <1>2
  <1>4. \A j \in DOMAIN posts' :
          \/ j \in DOMAIN posts /\ posts'[j] = posts[j]
          \/ clock' = clock + 1 /\ posts'[j].at = clock' /\ posts'[j].deleted \in BOOLEAN
    BY <1>1
  <1> QED BY <1>3, <1>4 DEF TaskDoes

LEMMA CreateEntryDoes ==
    ASSUME TypeOK, NEW d \in Devices, CreateEntry(d)
    PROVE  TaskDoes(d)
  <1> USE KnownIs
  <1>1. UNCHANGED <<polling, postMap, sync, lost>> /\ task[d].pc = "name"
    BY DEF CreateEntry, Creates, At
  <1>2. CASE \E i \in Folders \ DOMAIN posts :
            /\ Receive(i, Head(task[d].rest), task[d].parent, FALSE)
            /\ rows' = [rows EXCEPT ![d] =
                   With(@, i, [name |-> Head(task[d].rest), alias |-> NoName,
                               parent |-> task[d].parent, deleted |-> FALSE])]
    <2>1. PICK i, r :
            /\ i \in Folders \ DOMAIN posts
            /\ Receive(i, Head(task[d].rest), task[d].parent, FALSE)
            /\ rows' = [rows EXCEPT ![d] = With(@, i, r)]
      BY <1>2
    <2>2. /\ DOMAIN rows[d] \subseteq DOMAIN rows'[d]
          /\ \A j \in DOMAIN rows[d] : rows'[d][j] = rows[d][j]
      BY <2>1 DEF With
    <2>3. \A j \in DOMAIN posts \ {i} : Keeps(d, j)
      BY <1>1, <2>2 DEF Keeps, Agrees, Writes
    <2> QED BY <1>1, <2>1, <2>2, <2>3, ReceiveDoes
  <1>3. CASE UNCHANGED <<server, rows>>
    <2>1. \A j \in DOMAIN posts : Keeps(d, j)
      BY <1>1, <1>3 DEF Keeps, Agrees, Writes
    <2> QED BY <1>1, <1>3, <2>1, QuietTask
  <1> QED BY <1>2, <1>3 DEF CreateEntry

LEMMA FindEntryDoes ==
    ASSUME TypeOK, NEW d \in Devices, FindEntry(d)
    PROVE  TaskDoes(d)
  <1> USE KnownIs
  <1>1. UNCHANGED <<server, polling, postMap, sync, lost>> /\ task[d].pc = "name"
    BY DEF FindEntry, Creates, At
  <1>2. PICK i : \/ rows'[d] = rows[d]
                 \/ rows'[d] = [rows[d] EXCEPT ![i].deleted = FALSE]
    BY DEF FindEntry
  <1>3. DOMAIN rows'[d] = DOMAIN rows[d]
    BY <1>2
  <1>4. ASSUME NEW j \in DOMAIN rows[d] PROVE Agrees(rows'[d][j], rows[d][j])
    <2>1. PICK x : x = rows[d][j] /\ IsRow(x)
      BY DEF TablesOK
    <2>2. rows'[d][j] = x \/ rows'[d][j] = [x EXCEPT !.deleted = FALSE]
      BY <1>2, <2>1
    <2> QED BY <2>1, <2>2 DEF IsRow, Agrees
  <1>5. \A j \in DOMAIN posts : Keeps(d, j)
    BY <1>1, <1>4 DEF Keeps, Writes
  <1> QED BY <1>1, <1>3, <1>5, QuietTask

LEMMA MoveEntryDoes ==
    ASSUME TypeOK, NEW d \in Devices, MoveEntry(d)
    PROVE  TaskDoes(d)
  <1> USE KnownIs
  <1>1. UNCHANGED <<server, polling, postMap, sync, lost>> /\ task[d].pc = "name"
    BY DEF MoveEntry, At
  <1>2. PICK i : /\ rows' = [rows EXCEPT ![d][i].parent = task[d].parent]
                 /\ task' = [task EXCEPT ![d].pc = "row", ![d].id = i]
    BY DEF MoveEntry
  <1>3. /\ DOMAIN rows'[d] = DOMAIN rows[d]
        /\ \A j \in DOMAIN rows[d] : j # i => rows'[d][j] = rows[d][j]
    BY <1>2
  <1>4. Writes(d, i)'
    BY <1>2 DEF Writes, TaskOK, NoTask
  <1>5. \A j \in DOMAIN posts : Keeps(d, j)
    BY <1>1, <1>3, <1>4 DEF Keeps, Writes, Agrees
  <1> QED BY <1>1, <1>3, <1>5, QuietTask

LEMMA NameEntryDoes ==
    ASSUME TypeOK, NEW d \in Devices, NameEntry(d)
    PROVE  TaskDoes(d)
  <1> USE KnownIs
  <1>1. UNCHANGED <<server, polling, postMap, sync, lost>>
    BY DEF NameEntry
  <1>2. PICK i, p : /\ i = task[d].id
                    /\ rows' = [rows EXCEPT ![d][i].name = Head(task[d].rest)]
                    /\ task' = [task EXCEPT ![d].pc = "get", ![d].place = p]
    BY DEF NameEntry
  <1>3. /\ DOMAIN rows'[d] = DOMAIN rows[d]
        /\ \A j \in DOMAIN rows[d] : j # i => rows'[d][j] = rows[d][j]
    BY <1>2
  <1>4. Writes(d, i)'
    BY <1>2 DEF Writes, TaskOK, NoTask
  <1>5. \A j \in DOMAIN posts : Keeps(d, j)
    BY <1>2, <1>3, <1>4 DEF Keeps, Writes, Agrees
  <1> QED BY <1>1, <1>3, <1>5, QuietTask

LEMMA MissEntryDoes ==
    ASSUME TypeOK, NEW d \in Devices, MissEntry(d)
    PROVE  TaskDoes(d)
  <1>1. /\ UNCHANGED <<server, polling, postMap, sync, rows, lost>>
        /\ task[d].pc = "name"
    BY DEF MissEntry, At, server
  <1>2. \A i \in DOMAIN posts : Keeps(d, i)
    BY <1>1 DEF Keeps, Agrees, Writes
  <1> QED BY <1>1, <1>2, QuietTask

LEMMA GetFolderPostDoes ==
    ASSUME TypeOK, NEW d \in Devices, GetFolderPost(d)
    PROVE  TaskDoes(d)
  <1> USE KnownIs
  <1>1. UNCHANGED <<server, polling, postMap, sync, rows>>
    BY DEF GetFolderPost, server
  <1>2. PICK b : \/ task' = [task EXCEPT ![d].pc = "put", ![d].place.deleted = b] /\ UNCHANGED lost
                 \/ lost' = [lost EXCEPT ![d] = @ \cup {task[d].id}]
    BY DEF GetFolderPost
  <1>3. lost[d] \subseteq lost'[d]
    BY <1>2
  <1>4. ASSUME NEW i \in DOMAIN posts PROVE Keeps(d, i)
    <2>1. CASE task' = [task EXCEPT ![d].pc = "put", ![d].place.deleted = b]
      <3>1. task'[d].pc = "put" /\ task'[d].id = task[d].id
        BY <2>1 DEF TaskOK, NoTask
      <3> QED BY <1>1, <3>1 DEF Keeps, Writes, Agrees
    <2>2. CASE lost' = [lost EXCEPT ![d] = @ \cup {task[d].id}]
      BY <1>1, <2>2 DEF Keeps, Writes, Agrees
    <2> QED BY <1>2, <2>1, <2>2
  <1> QED BY <1>1, <1>3, <1>4, QuietTask

LEMMA PutFolderPostDoes ==
    ASSUME TypeOK, NEW d \in Devices, PutFolderPost(d)
    PROVE  TaskDoes(d)
  <1> USE KnownIs
  <1>1. PICK i, p : i = task[d].id /\ p = task[d].place
    OBVIOUS
  <1>2. UNCHANGED <<polling, postMap, sync>>
    BY DEF PutFolderPost
  <1>3. i \in DOMAIN posts /\ i \in Folders /\ p.deleted \in BOOLEAN
    BY <1>1 DEF PutFolderPost, At, TaskOK, Works, TypeOK, IsPost
  <1>4. PICK ok \in BOOLEAN :
            IF ok
            THEN /\ Receive(i, p.name, p.parent, p.deleted)
                 /\ rows' = IF Renames(d) THEN [rows EXCEPT ![d][i].alias = NoName] ELSE rows
                 /\ UNCHANGED lost
            ELSE /\ lost' = [lost EXCEPT ![d] = @ \cup {i}]
                 /\ UNCHANGED <<server, rows>>
    BY <1>1 DEF PutFolderPost
  <1>5. CASE ok
    <2>1. rows'[d] = rows[d] \/ rows'[d] = [rows[d] EXCEPT ![i].alias = NoName]
      BY <1>4, <1>5
    <2>2. /\ DOMAIN rows'[d] = DOMAIN rows[d]
          /\ \A j \in DOMAIN rows[d] : j # i => rows'[d][j] = rows[d][j]
      BY <2>1
    <2>3. \A j \in DOMAIN posts \ {i} : Keeps(d, j)
      BY <1>1, <2>2 DEF Keeps, Writes, Agrees
    <2> QED BY <1>2, <1>3, <1>4, <1>5, <2>2, <2>3, ReceiveDoes
  <1>6. CASE ~ok
    <2>1. /\ UNCHANGED <<server, rows>>
          /\ lost' = [lost EXCEPT ![d] = @ \cup {i}]
      BY <1>4, <1>6
    <2>2. lost[d] \subseteq lost'[d] /\ i \in lost'[d]
      BY <2>1
    <2>3. \A j \in DOMAIN posts : Keeps(d, j)
      BY <1>1, <2>1, <2>2 DEF Keeps, Writes, Agrees
    <2> QED BY <1>2, <2>1, <2>2, <2>3, QuietTask
  <1> QED BY <1>5, <1>6

LEMMA MarkDeletedDoes ==
    ASSUME TypeOK, NEW d \in Devices, MarkDeleted(d)
    PROVE  TaskDoes(d)
  <1> USE KnownIs
  <1>1. UNCHANGED <<server, polling, postMap, sync, lost>> /\ task[d].pc = "mark"
    BY DEF MarkDeleted, At
  <1>2. PICK all : \/ rows'[d] = rows[d]
                   \/ rows'[d] = [j \in DOMAIN rows[d] |->
                               IF j \in all THEN [rows[d][j] EXCEPT !.deleted = TRUE] ELSE rows[d][j]]
    BY DEF MarkDeleted
  <1>3. DOMAIN rows'[d] = DOMAIN rows[d]
    BY <1>2
  <1>4. ASSUME NEW j \in DOMAIN rows[d] PROVE Agrees(rows'[d][j], rows[d][j])
    <2>1. PICK x : x = rows[d][j] /\ IsRow(x)
      BY DEF TablesOK
    <2>2. rows'[d][j] = x \/ rows'[d][j] = [x EXCEPT !.deleted = TRUE]
      BY <1>2, <2>1
    <2> QED BY <2>1, <2>2 DEF IsRow, Agrees
  <1>5. \A j \in DOMAIN posts : Keeps(d, j)
    BY <1>1, <1>4 DEF Keeps, Writes
  <1> QED BY <1>1, <1>3, <1>5, QuietTask

LEMMA ReadForDeleteDoes ==
    ASSUME TypeOK, NEW d \in Devices, ReadForDelete(d)
    PROVE  TaskDoes(d)
  <1> USE KnownIs
  <1>1. UNCHANGED <<server, polling, postMap, sync, rows>> /\ task[d].pc = "next"
    BY DEF ReadForDelete, At, server
  <1>2. PICK i : UNCHANGED lost \/ lost' = [lost EXCEPT ![d] = @ \cup {i}]
    BY DEF ReadForDelete
  <1>3. lost[d] \subseteq lost'[d]
    BY <1>2
  <1>4. \A j \in DOMAIN posts : Keeps(d, j)
    BY <1>1 DEF Keeps, Agrees, Writes
  <1> QED BY <1>1, <1>3, <1>4, QuietTask

LEMMA WriteDeletedDoes ==
    ASSUME TypeOK, NEW d \in Devices, WriteDeleted(d)
    PROVE  TaskDoes(d)
  <1> USE KnownIs
  <1>1. PICK i, p : i = task[d].id /\ p = task[d].place
    OBVIOUS
  <1>2. UNCHANGED <<rows, polling, postMap, sync>> /\ task[d].pc = "delete"
    BY DEF WriteDeleted, At
  <1>3. i \in Folders
    BY <1>1, <1>2 DEF TaskOK, Works, TypeOK
  <1>4. \A j \in DOMAIN posts : Keeps(d, j)
    BY <1>2 DEF Keeps, Agrees, Writes
  <1>5. \/ Receive(i, p.name, p.parent, TRUE) /\ UNCHANGED lost
        \/ lost' = [lost EXCEPT ![d] = @ \cup {i}] /\ UNCHANGED server
    BY <1>1 DEF WriteDeleted
  <1>6. CASE Receive(i, p.name, p.parent, TRUE) /\ UNCHANGED lost
    BY <1>2, <1>3, <1>4, <1>6, ReceiveDoes
  <1>7. CASE lost' = [lost EXCEPT ![d] = @ \cup {i}] /\ UNCHANGED server
    <2>1. lost[d] \subseteq lost'[d]
      BY <1>7
    <2> QED BY <1>2, <1>4, <1>7, <2>1, QuietTask
  <1> QED BY <1>5, <1>6, <1>7

LEMMA TaskDoing ==
    ASSUME TypeOK, NEW d \in Devices, FolderTask(d)
    PROVE  TaskDoes(d)
  BY NoDirectoryDoes, CreateEntryDoes, FindEntryDoes, MoveEntryDoes, NameEntryDoes, MissEntryDoes,
     GetFolderPostDoes, PutFolderPostDoes, MarkDeletedDoes, ReadForDeleteDoes, WriteDeletedDoes
     DEF FolderTask

LEMMA TaskKeepsInv ==
    ASSUME TypeOK, Inv, NEW d \in Devices, User(d) \/ FolderTask(d)
    PROVE  Inv'
  BY UserDoes, TaskDoing, UserOnly, TaskOnly, TaskKnows

-----------------------------------------------------------------------------
\* The steps of Polling and FolderSync: the posts stay, and the other devices.

Other(d) ==
    /\ UNCHANGED <<server, task>>
    /\ OnlyAt(d)

LEMMA OthersKnow ==
    ASSUME TypeOK, Inv, NEW d \in Devices, Other(d), Steady(d)',
           d \in Followers => \A i \in DOMAIN posts : Index(d, i)'
    PROVE  Inv'
  <1> SUFFICES ASSUME NEW e \in Devices PROVE Knows(e)'
    BY DEF Inv
  <1>1. posts' = posts /\ Knows(e)
    BY DEF Inv, Other, server
  <1>2. CASE e = d
    BY <1>1, <1>2 DEF Knows
  <1>3. CASE e # d
    <2>1. Same(e)
      BY <1>3 DEF Other, OnlyAt
    <2>2. Steady(e)'
      BY <1>1, <2>1 DEF Knows, Steady, Same
    <2>3. ASSUME e \in Followers, NEW i \in DOMAIN posts PROVE Index(e, i)'
      <3>1. Index(e, i)
        BY <1>1, <2>3 DEF Knows
      <3>2. News(e, TRUE)' = News(e, TRUE) /\ Walks(e, i)' = Walks(e, i) /\ Writes(e, i)' = Writes(e, i)
        BY <1>1, <2>1 DEF News, Walks, Writes, Same
      <3> QED BY <1>1, <2>1, <2>3, <3>1, <3>2, KeptIndex DEF Same, Agrees
    <2> QED BY <1>1, <2>2, <2>3 DEF Knows
  <1> QED BY <1>2, <1>3

LEMMA PollDeletedKeepsInv ==
    ASSUME TypeOK, Inv, NEW d \in Devices, PollDeletedFolderPosts(d)
    PROVE  Inv'
  <1>1. /\ UNCHANGED <<server, rows, task, postMap, sync, lost>>
        /\ phase[d] = "between" /\ phase'[d] = "remove"
        /\ DOMAIN trash'[d] = News(d, TRUE)
        /\ since'[d].live = since[d].live
    BY DEF PollDeletedFolderPosts, TypeOK, TablesOK
  <1>2. Other(d) /\ Knows(d) /\ posts' = posts
    BY <1>1, PollingOnly DEF Polling, Other, Inv, server
  <1>3. Steady(d)' /\ DOMAIN trash[d] = {}
    BY <1>1, <1>2 DEF Knows, Steady
  <1>4. ASSUME d \in Followers, NEW i \in DOMAIN posts PROVE Index(d, i)'
    <2>1. Index(d, i)
      BY <1>2, <1>4 DEF Knows
    <2>2. Walks(d, i)' = Walks(d, i) /\ Writes(d, i)' = Writes(d, i)
      BY <1>1 DEF Walks, Writes
    <2> QED BY <1>1, <1>2, <1>3, <2>1, <2>2, KeptIndex DEF Agrees
  <1> QED BY <1>2, <1>3, <1>4, OthersKnow

LEMMA DeleteLocalKeepsInv ==
    ASSUME TypeOK, Inv, NEW d \in Devices, DeleteLocalFolder(d)
    PROVE  Inv'
  <1>1. /\ UNCHANGED <<server, task, since, phase, postMap, sync, lost>>
        /\ phase[d] = "remove"
    BY DEF DeleteLocalFolder
  <1>2. Other(d) /\ Knows(d) /\ posts' = posts
    BY <1>1, PollingOnly DEF Polling, Other, Inv, server
  <1>3. Steady(d) /\ DOMAIN rows[d] \subseteq DOMAIN rows'[d]
        /\ DOMAIN trash[d] \subseteq DOMAIN rows'[d] \cup DOMAIN trash'[d]
        /\ \A j \in DOMAIN rows[d] : Agrees(rows'[d][j], rows[d][j])
    <2>1. PICK i, w :
             /\ i \in DOMAIN trash[d]
             /\ w = WithRow(d, i, trash[d][i])
             /\ rows' = [rows EXCEPT ![d] = [w EXCEPT ![i].deleted = TRUE]]
             /\ trash' = [trash EXCEPT ![d] = Without(@, i)]
      BY DEF DeleteLocalFolder
    <2>2. RowAdded(w, d, i, trash[d][i])
      BY <2>1, WithRowIs
    <2>3. /\ DOMAIN w = DOMAIN rows[d] \cup {i}
          /\ \A j \in DOMAIN rows[d] : w[j] = rows[d][j]
      BY <2>2 DEF RowAdded
    <2>4. DOMAIN rows'[d] = DOMAIN w /\ DOMAIN trash'[d] = DOMAIN trash[d] \ {i}
      BY <2>1 DEF TypeOK, Without
    <2>5. ASSUME NEW j \in DOMAIN rows[d] PROVE Agrees(rows'[d][j], rows[d][j])
      <3>1. PICK x : x = rows[d][j] /\ IsRow(x)
        BY DEF TypeOK, TablesOK
      <3>2. rows'[d] = [w EXCEPT ![i].deleted = TRUE] /\ w[j] = x
        BY <2>1, <2>3, <3>1 DEF TypeOK
      <3>3. rows'[d][j] = x \/ rows'[d][j] = [x EXCEPT !.deleted = TRUE]
        BY <2>3, <3>2
      <3> QED BY <3>1, <3>3 DEF IsRow, Agrees
    <2> QED BY <1>2, <2>3, <2>4, <2>5 DEF Knows
  <1>4. Steady(d)'
    BY <1>1, <1>3 DEF Steady
  <1>5. ASSUME d \in Followers, NEW i \in DOMAIN posts PROVE Index(d, i)'
    <2>1. Index(d, i)
      BY <1>2, <1>5 DEF Knows
    <2>2. /\ Walks(d, i)' = Walks(d, i) /\ Writes(d, i)' = Writes(d, i)
          /\ News(d, TRUE)' = News(d, TRUE)
      BY <1>1, <1>2 DEF Walks, Writes, News
    <2>3. i \in DOMAIN trash[d] \cup News(d, TRUE)
             => i \in DOMAIN rows'[d] \cup DOMAIN trash'[d] \cup News(d, TRUE)'
      BY <1>3, <2>2
    <2> QED BY <1>1, <1>2, <1>3, <2>1, <2>2, <2>3, KeptIndex
  <1> QED BY <1>2, <1>4, <1>5, OthersKnow

LEMMA PollFolderKeepsInv ==
    ASSUME TypeOK, Inv, NEW d \in Devices, PollFolderPosts(d)
    PROVE  Inv'
  <1> DEFINE new == News(d, FALSE)
  <1>1. /\ UNCHANGED <<server, rows, task, trash, sync, lost>>
        /\ d \in Followers /\ DOMAIN trash[d] = {}
        /\ postMap'[d] = PushBack(postMap[d], [i \in new |-> posts[i]])
        /\ since'[d].deleted = since[d].deleted
        /\ new = {} => since' = since
    <2>1. /\ UNCHANGED <<server, rows, task, trash, sync, lost>>
          /\ d \in Followers /\ trash[d] = << >>
          /\ postMap' = [postMap EXCEPT ![d] = PushBack(@, [i \in new |-> posts[i]])]
          /\ since' = IF new = {} THEN since ELSE [since EXCEPT ![d].live = Newest(new)]
      BY DEF PollFolderPosts
    <2>2. since'[d].deleted = since[d].deleted
      BY <2>1 DEF TypeOK, TablesOK
    <2>3. DOMAIN trash[d] = {}
      BY <2>1
    <2> QED BY <2>1, <2>2, <2>3 DEF TypeOK
  <1>2. Other(d) /\ Knows(d) /\ posts' = posts
    BY <1>1, PollingOnly DEF Polling, Other, Inv, server
  <1>3. /\ DOMAIN postMap'[d] = new \cup DOMAIN postMap[d]
        /\ \A i \in new : postMap'[d][i] = posts[i]
        /\ \A i \in DOMAIN postMap[d] \ new : postMap'[d][i] = postMap[d][i]
    BY <1>1 DEF PushBack, Over
  <1>4. Steady(d)'
    BY <1>1, <1>2 DEF Knows, Steady
  <1>5. ASSUME NEW i \in DOMAIN posts PROVE Index(d, i)'
    <2>1. Index(d, i)
      BY <1>1, <1>2 DEF Knows
    <2>2. Walks(d, i)' = Walks(d, i) /\ Writes(d, i)' = Writes(d, i)
      BY <1>1 DEF Walks, Writes
    <2>3. i \notin new /\ Read(d, i)' => Read(d, i)
      <3>1. posts[i].at \in 0..clock /\ since[d].live \in 0..clock /\ clock \in Nat
        BY DEF TypeOK, IsPost, TablesOK
      <3> QED BY <1>2, <3>1 DEF Read, News
    <2>4. MapCurrent(d, i)'
      <3>1. CASE i \in new
        BY <1>2, <1>3, <3>1 DEF MapCurrent, Agrees
      <3>2. CASE i \notin new
        BY <1>2, <1>3, <2>1, <2>3, <3>2 DEF Index, MapCurrent, Agrees
      <3> QED BY <3>1, <3>2
    <2>5. SyncCurrent(d, i)'
      BY <1>1, <1>2, <1>3, <2>1, <2>2, <2>3 DEF Index, SyncCurrent, Agrees
    <2>6. RowCurrent(d, i)'
      BY <1>1, <1>2, <1>3, <2>1, <2>2, <2>3 DEF Index, RowCurrent, Agrees
    <2>7. i \in News(d, TRUE) => i \in News(d, TRUE)'
      BY <1>1, <1>2 DEF News
    <2>8. Heard(d, i)'
      BY <1>1, <1>3, <2>1, <2>2, <2>7 DEF Index, Heard
    <2> QED BY <2>4, <2>5, <2>6, <2>8 DEF Index
  <1> QED BY <1>2, <1>4, <1>5, OthersKnow

LEMMA PopFrontKeepsInv ==
    ASSUME TypeOK, Inv, NEW d \in Devices, PopFront(d)
    PROVE  Inv'
  <1>1. PICK p \in DOMAIN postMap[d] :
            /\ sync' = [sync EXCEPT ![d] = [pc |-> "walk", id |-> p, post |-> postMap[d][p], at |-> p]]
            /\ postMap' = [postMap EXCEPT ![d] = Without(@, p)]
    BY DEF PopFront
  <1>2. /\ UNCHANGED <<server, rows, task, polling, lost>>
        /\ sync[d].pc = "idle"
        /\ sync'[d] = [pc |-> "walk", id |-> p, post |-> postMap[d][p], at |-> p]
        /\ postMap'[d] = Without(postMap[d], p)
    BY <1>1 DEF PopFront, TypeOK
  <1>3. Other(d) /\ Knows(d) /\ posts' = posts
    BY <1>2, SyncOnly DEF FolderSync, Other, Inv, server
  <1>4. Steady(d)' /\ d \in Followers
    BY <1>1, <1>2, <1>3 DEF Knows, Steady, polling
  <1>5. /\ DOMAIN postMap'[d] = DOMAIN postMap[d] \ {p}
        /\ \A i \in DOMAIN postMap'[d] : postMap'[d][i] = postMap[d][i]
    BY <1>2 DEF Without
  <1>6. ASSUME NEW i \in DOMAIN posts PROVE Index(d, i)'
    <2>1. Index(d, i)
      BY <1>3, <1>4 DEF Knows
    <2>2. /\ ~Walks(d, i) /\ Walks(d, i)' = (i = p) /\ Writes(d, i)' = Writes(d, i)
          /\ Read(d, i)' = Read(d, i)
          /\ News(d, TRUE)' = News(d, TRUE) /\ News(d, FALSE)' = News(d, FALSE)
      BY <1>2, <1>3 DEF Walks, Writes, Read, News, polling
    <2>3. MapCurrent(d, i)'
      BY <1>3, <1>5, <2>1, <2>2 DEF Index, MapCurrent
    <2>4. SyncCurrent(d, i)'
      <3>1. sync'[d].post = postMap[d][p]
        BY <1>2
      <3>2. CASE i = p
        BY <1>1, <1>3, <2>1, <2>2, <3>1, <3>2 DEF Index, MapCurrent, SyncCurrent, Agrees
      <3>3. CASE i # p
        BY <2>2, <3>3 DEF SyncCurrent
      <3> QED BY <3>2, <3>3
    <2>5. RowCurrent(d, i)'
      BY <1>2, <1>3, <1>5, <2>1, <2>2 DEF Index, RowCurrent
    <2>6. Heard(d, i)'
      <3>1. CASE i = p
        BY <2>2, <3>1 DEF Heard
      <3>2. CASE i # p
        <4>1. i \in DOMAIN postMap[d] => i \in DOMAIN postMap'[d]
          BY <1>5, <3>2
        <4> QED BY <1>2, <2>1, <2>2, <4>1 DEF Index, Heard, polling
      <3> QED BY <3>1, <3>2
    <2> QED BY <2>3, <2>4, <2>5, <2>6 DEF Index
  <1> QED BY <1>3, <1>4, <1>6, OthersKnow

LEMMA ClimbKeepsInv ==
    ASSUME TypeOK, Inv, NEW d \in Devices, Climb(d)
    PROVE  Inv'
  <1>1. PICK at : sync' = [sync EXCEPT ![d].at = at]
    BY DEF Climb
  <1>2. /\ UNCHANGED <<server, rows, task, polling, postMap, lost>>
        /\ sync[d].pc = "walk" /\ sync[d].at \in DOMAIN rows[d]
        /\ sync'[d].pc = sync[d].pc /\ sync'[d].id = sync[d].id /\ sync'[d].post = sync[d].post
    BY <1>1 DEF Climb, TypeOK, SyncOK, NoSync
  <1>3. Other(d) /\ Knows(d) /\ posts' = posts
    BY <1>2, SyncOnly DEF FolderSync, Other, Inv, server
  <1>4. Steady(d)'
    BY <1>2, <1>3 DEF Knows, Steady, polling
  <1>5. ASSUME d \in Followers, NEW i \in DOMAIN posts PROVE Index(d, i)'
    <2>1. Index(d, i)
      BY <1>3, <1>5 DEF Knows
    <2>2. /\ Walks(d, i)' = Walks(d, i) /\ Writes(d, i)' = Writes(d, i)
          /\ News(d, TRUE)' = News(d, TRUE)
      BY <1>2, <1>3 DEF Walks, Writes, News, polling
    <2> QED BY <1>2, <1>3, <2>1, <2>2, KeptIndex DEF Agrees, polling
  <1> QED BY <1>3, <1>4, <1>5, OthersKnow

\* FolderSync gives a post up.
LEMMA GiveUpKeepsInv ==
    ASSUME TypeOK, Inv, NEW d \in Devices, OnlyAt(d),
           UNCHANGED <<server, rows, task, polling, postMap>>,
           sync[d].pc = "walk", sync'[d].pc = "idle", lost'[d] = lost[d] \cup {sync[d].id}
    PROVE  Inv'
  <1>1. Other(d) /\ Knows(d) /\ posts' = posts
    BY DEF Other, Inv, server
  <1>2. Steady(d)'
    BY <1>1 DEF Knows, Steady, polling
  <1>3. ASSUME d \in Followers, NEW i \in DOMAIN posts PROVE Index(d, i)'
    <2>1. Index(d, i)
      BY <1>1, <1>3 DEF Knows
    <2>2. /\ ~Walks(d, i)' /\ Writes(d, i)' = Writes(d, i)
          /\ Walks(d, i) => i \in lost'[d]
          /\ News(d, TRUE)' = News(d, TRUE)
      BY <1>1 DEF Walks, Writes, News, polling
    <2> QED BY <1>1, <2>1, <2>2, KeptIndex DEF Agrees, polling
  <1> QED BY <1>1, <1>2, <1>3, OthersKnow

LEMMA InsertMissingKeepsInv ==
    ASSUME TypeOK, Inv, NEW d \in Devices, InsertMissing(d)
    PROVE  Inv'
  <1>1. /\ UNCHANGED <<server, task, polling, postMap>>
        /\ sync[d].pc = "walk" /\ OnlyAt(d)
    BY SyncOnly DEF FolderSync, InsertMissing
  <1>2. CASE /\ lost' = [lost EXCEPT ![d] = @ \cup {sync[d].id}]
             /\ sync' = [sync EXCEPT ![d] = NoSync]
             /\ UNCHANGED rows
    <2>1. sync'[d].pc = "idle" /\ lost'[d] = lost[d] \cup {sync[d].id}
      BY <1>2 DEF TypeOK, NoSync
    <2> QED BY <1>1, <1>2, <2>1, GiveUpKeepsInv
  <1>3. ASSUME NEW m, NEW p,
               rows' = [rows EXCEPT ![d] = WithRow(d, m, p)], UNCHANGED <<sync, lost>>
        PROVE  Inv'
    <2>1. Other(d) /\ Knows(d) /\ posts' = posts
      BY <1>1, <1>3 DEF Other, Inv, server
    <2>2. RowAdded(rows'[d], d, m, p)
      BY <1>3, WithRowIs DEF TypeOK
    <2>3. /\ DOMAIN rows'[d] = DOMAIN rows[d] \cup {m}
          /\ \A j \in DOMAIN rows[d] : rows'[d][j] = rows[d][j]
      BY <2>2 DEF RowAdded
    <2>4. Steady(d)'
      BY <1>1, <1>3, <2>1, <2>3 DEF Knows, Steady, polling
    <2>5. ASSUME d \in Followers, NEW i \in DOMAIN posts PROVE Index(d, i)'
      <3>1. Index(d, i)
        BY <2>1, <2>5 DEF Knows
      <3>2. /\ Walks(d, i)' = Walks(d, i) /\ Writes(d, i)' = Writes(d, i)
            /\ News(d, TRUE)' = News(d, TRUE)
        BY <1>1, <1>3, <2>1 DEF Walks, Writes, News, polling
      <3>3. i \in DOMAIN rows[d] => i \in DOMAIN rows'[d] /\ Agrees(rows'[d][i], rows[d][i])
        BY <2>3 DEF Agrees
      <3>4. /\ i \in DOMAIN posts' /\ posts'[i] = posts[i] /\ postMap'[d] = postMap[d]
            /\ since'[d] = since[d] /\ trash'[d] = trash[d] /\ sync'[d] = sync[d] /\ lost'[d] = lost[d]
        BY <1>1, <1>3, <2>1 DEF polling
      <3>5. i \in DOMAIN trash[d] \cup News(d, TRUE) => i \in DOMAIN trash'[d] \cup News(d, TRUE)'
        BY <3>2, <3>4
      <3> QED BY <3>1, <3>2, <3>3, <3>4, <3>5, KeptIndex
    <2> QED BY <2>1, <2>4, <2>5, OthersKnow
  <1>4. PICK m : m = sync[d].at
    OBVIOUS
  <1>5. CASE rows' = [rows EXCEPT ![d] = WithRow(d, m, postMap[d][m])] /\ UNCHANGED <<sync, lost>>
    BY <1>3, <1>5
  <1>6. CASE rows' = [rows EXCEPT ![d] = WithRow(d, m, posts[m])] /\ UNCHANGED <<sync, lost>>
    BY <1>3, <1>6
  <1> QED BY <1>2, <1>4, <1>5, <1>6 DEF InsertMissing

LEMMA DropPostKeepsInv ==
    ASSUME TypeOK, Inv, NEW d \in Devices, DropPost(d)
    PROVE  Inv'
  <1>1. OnlyAt(d)
    BY SyncOnly DEF FolderSync
  <1>2. sync'[d].pc = "idle" /\ lost'[d] = lost[d] \cup {sync[d].id}
    BY DEF DropPost, TypeOK, NoSync
  <1> QED BY <1>1, <1>2, GiveUpKeepsInv DEF DropPost

\* FolderSync is done with a post: the row has what the post says.
LEMMA FollowKeepsInv ==
    ASSUME TypeOK, Inv, NEW d \in Devices, OnlyAt(d),
           UNCHANGED <<server, task, polling, postMap>>,
           sync[d].pc = "walk", sync[d].at = Root, sync'[d].pc = "idle",
           lost'[d] = lost[d] \ {sync[d].id},
           DOMAIN rows'[d] = DOMAIN rows[d],
           \A j \in DOMAIN rows[d] \ {sync[d].id} : rows'[d][j] = rows[d][j],
           sync[d].id \in DOMAIN rows[d] => Agrees(rows'[d][sync[d].id], sync[d].post)
    PROVE  Inv'
  <1>1. Other(d) /\ Knows(d) /\ posts' = posts
    BY DEF Other, Inv, server
  <1>2. Steady(d)'
    BY <1>1 DEF Knows, Steady, polling
  <1>3. sync[d].id \in DOMAIN rows[d]
    <2>1. sync[d].id # Root
      BY DEF TypeOK, SyncOK, Folders, Root
    <2> QED BY <1>1, <2>1 DEF Knows, Steady
  <1>4. ASSUME d \in Followers, NEW i \in DOMAIN posts PROVE Index(d, i)'
    <2>1. Index(d, i)
      BY <1>1, <1>4 DEF Knows
    <2>2. /\ ~Walks(d, i)' /\ Walks(d, i) = (i = sync[d].id) /\ Writes(d, i)' = Writes(d, i)
          /\ Read(d, i)' = Read(d, i) /\ News(d, TRUE)' = News(d, TRUE)
      BY <1>1 DEF Walks, Writes, Read, News, polling
    <2>3. CASE i # sync[d].id
      BY <1>1, <2>1, <2>2, <2>3, KeptIndex DEF Agrees, polling
    <2>4. CASE i = sync[d].id
      <3>1. MapCurrent(d, i)'
        BY <1>1, <2>1, <2>2 DEF Index, MapCurrent
      <3>2. SyncCurrent(d, i)'
        BY <2>2 DEF SyncCurrent
      <3>3. RowCurrent(d, i)'
        BY <1>1, <1>3, <2>1, <2>2, <2>4 DEF Index, SyncCurrent, RowCurrent, Agrees
      <3>4. Heard(d, i)'
        BY <1>3, <2>4 DEF Heard
      <3> QED BY <3>1, <3>2, <3>3, <3>4 DEF Index
    <2> QED BY <2>3, <2>4
  <1> QED BY <1>1, <1>2, <1>4, OthersKnow

LEMMA CheckForRenameKeepsInv ==
    ASSUME TypeOK, Inv, NEW d \in Devices, CheckForRename(d)
    PROVE  Inv'
  <1>1. OnlyAt(d)
    BY SyncOnly DEF FolderSync
  <1>2. PICK i, p, old : i = sync[d].id /\ p = sync[d].post /\ old = rows[d]
    OBVIOUS
  <1>3. PICK named, moved :
            /\ named = IF old[i].name = p.name THEN old
                       ELSE [old EXCEPT ![i].name = p.name, ![i].alias = NoName]
            /\ moved = [named EXCEPT ![i].parent = p.parent]
            /\ rows' = [rows EXCEPT ![d] = moved]
    BY <1>2 DEF CheckForRename
  <1>4. rows'[d] = moved
    BY <1>3 DEF TypeOK
  <1>5. /\ DOMAIN moved = DOMAIN old
        /\ \A j \in DOMAIN old \ {i} : moved[j] = old[j]
    BY <1>3
  <1>6. ASSUME i \in DOMAIN old PROVE Agrees(moved[i], p)
    <2>1. PICK x : x = old[i] /\ IsRow(x)
      BY <1>2, <1>6 DEF TypeOK, TablesOK
    <2>2. PICK y : y = named[i]
      OBVIOUS
    <2>3. y = IF x.name = p.name THEN x ELSE [x EXCEPT !.name = p.name, !.alias = NoName]
      BY <1>3, <1>6, <2>1, <2>2
    <2>4. y.name = p.name /\ DOMAIN y = DOMAIN x
      BY <2>1, <2>3 DEF IsRow
    <2>5. PICK z : z = moved[i]
      OBVIOUS
    <2>6. z = [y EXCEPT !.parent = p.parent]
      BY <1>3, <1>5, <1>6, <2>2, <2>5
    <2>7. "name" \in DOMAIN y /\ "parent" \in DOMAIN y
      BY <2>1, <2>4 DEF IsRow
    <2>8. z.name = p.name /\ z.parent = p.parent
      BY <2>4, <2>6, <2>7
    <2> QED BY <2>5, <2>8 DEF Agrees
  <1>7. sync'[d].pc = "idle" /\ lost'[d] = lost[d] \ {i}
    BY <1>2 DEF CheckForRename, TypeOK, NoSync
  <1> QED BY <1>2, <1>1, <1>4, <1>5, <1>6, <1>7, FollowKeepsInv DEF CheckForRename

LEMMA MakeFolderKeepsInv ==
    ASSUME TypeOK, Inv, NEW d \in Devices, MakeFolder(d)
    PROVE  Inv'
  <1>1. OnlyAt(d)
    BY SyncOnly DEF FolderSync
  <1>2. PICK i, p, old :
            /\ i = sync[d].id /\ p = sync[d].post /\ old = rows[d]
            /\ old[i].name = p.name /\ old[i].parent = p.parent
            /\ rows'[d] = [old EXCEPT ![i].deleted = FALSE]
    BY DEF MakeFolder, TypeOK
  <1>3. /\ DOMAIN rows'[d] = DOMAIN old
        /\ \A j \in DOMAIN old \ {i} : rows'[d][j] = old[j]
    BY <1>2
  <1>4. ASSUME i \in DOMAIN old PROVE Agrees(rows'[d][i], p)
    <2>1. PICK x : x = old[i] /\ IsRow(x)
      BY <1>2, <1>4 DEF TypeOK, TablesOK
    <2>2. rows'[d][i] = [x EXCEPT !.deleted = FALSE]
      BY <1>2, <1>4, <2>1
    <2> QED BY <1>2, <2>1, <2>2 DEF IsRow, Agrees
  <1>5. sync'[d].pc = "idle" /\ lost'[d] = lost[d] \ {i}
    BY <1>2 DEF MakeFolder, TypeOK, NoSync
  <1> QED BY <1>1, <1>2, <1>3, <1>4, <1>5, FollowKeepsInv DEF MakeFolder

LEMMA StutterKeepsInv ==
    ASSUME Inv, UNCHANGED vars
    PROVE  Inv'
  BY DEF Inv, Knows, Steady, Index, MapCurrent, SyncCurrent, RowCurrent, Heard, News, Read, Walks,
         Writes, Agrees, vars

LEMMA InitInv == Init => Inv
  <1> SUFFICES ASSUME Init PROVE Inv
    OBVIOUS
  <1>1. /\ posts = [i \in DOMAIN Old |-> [Place(Old[i]) EXCEPT !.at = 1]]
        /\ clock = 1
    BY DEF Init
  <1>2. ASSUME NEW d \in Devices PROVE Steady(d)
    <2>1. sync[d] = NoSync
      BY DEF Init
    <2>2. postMap[d] = << >>
      BY DEF Init
    <2>3. trash[d] = << >>
      BY DEF Init
    <2>4. DOMAIN postMap[d] = {} /\ DOMAIN trash[d] = {}
      BY <2>2, <2>3
    <2> QED BY <2>1, <2>4 DEF Steady, NoSync
  <1>3. ASSUME NEW d \in Devices, NEW i \in DOMAIN posts PROVE Index(d, i)
    <2>0. i \in DOMAIN Old
          /\ posts[i] = [name |-> Old[i].name, parent |-> Old[i].parent, deleted |-> FALSE, at |-> 1]
      BY <1>1 DEF Place, NoPost
    <2>1. postMap[d] = << >>
      BY DEF Init
    <2>2. DOMAIN postMap[d] = {} /\ ~Walks(d, i)
      BY <2>1 DEF Init, Walks, NoSync
    <2>3. CASE d \in Fresh
      <3>1. since[d] = [live |-> 0, deleted |-> 0]
        BY <2>3 DEF Init
      <3>2. ~Read(d, i) /\ i \in News(d, FALSE)
        BY <2>0, <3>1 DEF Read, News
      <3> QED BY <3>2 DEF Index, MapCurrent, SyncCurrent, RowCurrent, Heard
    <2>4. CASE d \notin Fresh
      <3>1. rows[d] = [j \in DOMAIN Old |-> [name |-> Old[j].name, alias |-> NoName,
                                             parent |-> Old[j].parent, deleted |-> FALSE]]
        BY <2>4 DEF Init
      <3>2. i \in DOMAIN rows[d] /\ Agrees(rows[d][i], posts[i])
        BY <2>0, <3>1 DEF Agrees
      <3> QED BY <2>2, <3>2 DEF Index, MapCurrent, SyncCurrent, RowCurrent, Heard
    <2> QED BY <2>3, <2>4
  <1> QED BY <1>2, <1>3 DEF Inv, Knows

LEMMA Invariance == Spec => [](TypeOK /\ Inv)
  <1>1. TypeOK /\ Inv /\ [Next]_vars => Inv'
    BY TaskKeepsInv, PollDeletedKeepsInv, DeleteLocalKeepsInv, PollFolderKeepsInv, PopFrontKeepsInv,
       ClimbKeepsInv, InsertMissingKeepsInv, DropPostKeepsInv, CheckForRenameKeepsInv,
       MakeFolderKeepsInv, StutterKeepsInv DEF Next, Polling, FolderSync
  <1> QED BY <1>1, InitInv, TypeCorrect, PTL DEF Spec

LEMMA SettledAgree ==
    ASSUME TypeOK, Inv
    PROVE  RowsAgree
  <1> SUFFICES ASSUME Settled, NEW d \in Followers, NEW i \in DOMAIN posts,
                      ~posts[i].deleted, i \notin lost[d]
               PROVE  i \in DOMAIN rows[d] /\ Agrees(rows[d][i], posts[i])
    BY DEF RowsAgree, Agrees
  <1>1. d \in Devices
    BY FolderTreeAssumption
  <1>2. /\ task[d].pc = "idle" /\ sync[d].pc = "idle" /\ postMap[d] = << >>
        /\ News(d, FALSE) = {}
    BY <1>1 DEF Settled
  <1>3. DOMAIN postMap[d] = {} /\ ~Walks(d, i) /\ ~Writes(d, i)
    BY <1>2 DEF Walks, Writes
  <1>4. Read(d, i)
    <2>1. posts[i].at \in 0..clock /\ since[d].live \in 0..clock /\ clock \in Nat
      BY <1>1 DEF TypeOK, IsPost, TablesOK
    <2>2. posts[i].deleted = FALSE
      BY DEF TypeOK, IsPost
    <2>3. ~(posts[i].at > since[d].live)
      BY <1>2, <2>2 DEF News
    <2> QED BY <2>1, <2>3 DEF Read
  <1>5. RowCurrent(d, i)
    BY <1>1 DEF Inv, Knows, Index
  <1> QED BY <1>3, <1>4, <1>5 DEF RowCurrent

\* Once all is quiet, a follower has each live folder of the server under the name and
\* parent of its post, but for those it gave up (FolderSync::Run, CheckForRename).
THEOREM RowsAgreeHolds == Spec => []RowsAgree
  BY Invariance, SettledAgree, PTL

\* What a device gives up without a request that failed.
Excused(d) ==
    \/ sync[d].at = NoId
    \/ sync[d].post.parent \in DOMAIN postMap[d] \cup News(d, FALSE) \cup News(d, TRUE)
                                  \cup DOMAIN trash[d] \cup lost[d] \cup {NoId}

LEMMA DropExcused ==
    ASSUME TypeOK, Inv, NEW d \in Devices, DropPost(d)
    PROVE  Excused(d)
  <1> DEFINE i == sync[d].post.parent
  <1>1. /\ sync[d].pc = "walk" /\ sync[d].at = Root
        /\ i \notin DOMAIN rows[d] \cup {Root}
    BY DEF DropPost
  <1>2. i \in Above /\ sync[d].id \in DOMAIN posts /\ DOMAIN posts \subseteq Folders
    BY <1>1 DEF TypeOK, SyncOK, IsPost
  <1>3. Steady(d) /\ d \in Followers
    BY <1>1 DEF Inv, Knows, Steady
  <1>4. sync[d].id \in DOMAIN rows[d]
    BY <1>1, <1>2, <1>3 DEF Steady, Folders, Root
  <1>5. CASE i \in DOMAIN posts
    <2>1. Heard(d, i)
      BY <1>3, <1>5 DEF Inv, Knows, Index
    <2>2. ~Walks(d, i)
      BY <1>1, <1>4 DEF Walks
    <2> QED BY <1>1, <2>1, <2>2 DEF Heard, Excused
  <1>6. CASE i = NoId
    BY <1>6 DEF Excused
  <1> QED BY <1>1, <1>2, <1>5, <1>6 DEF Above

LEMMA GiveUpExcused ==
    ASSUME TypeOK, Inv, NEW e \in Devices, NEW d \in Devices, GivesUp(d),
           User(e) \/ FolderTask(e) \/ Polling(e) \/ FolderSync(e)
    PROVE  Excused(d)
  <1>1. sync[d].pc = "walk" /\ sync'[d].pc = "idle" /\ sync[d].id \in lost'[d] /\ failures' = failures
    BY DEF GivesUp
  <1>2. e = d
    <2>1. OnlyAt(e)
      BY UserOnly, TaskOnly, PollingOnly, SyncOnly
    <2> QED BY <1>1, <2>1 DEF OnlyAt, Same
  <1>3. CASE User(d) \/ FolderTask(d)
    BY <1>1, <1>3, UserDoes, TaskDoing DEF TaskDoes
  <1>4. CASE Polling(d)
    BY <1>1, <1>4 DEF Polling, PollDeletedFolderPosts, DeleteLocalFolder, PollFolderPosts
  <1>5. CASE PopFront(d)
    BY <1>1, <1>5 DEF PopFront
  <1>6. CASE Climb(d)
    <2>1. PICK at : sync' = [sync EXCEPT ![d].at = at]
      BY <1>6 DEF Climb
    <2>2. sync'[d].pc = sync[d].pc
      BY <2>1 DEF TypeOK, SyncOK, NoSync
    <2> QED BY <1>1, <2>2
  <1>7. CASE InsertMissing(d)
    <2>1. sync' = sync \/ sync[d].at = NoId \/ Request(FALSE)
      BY <1>7 DEF InsertMissing
    <2>2. ~Request(FALSE)
      BY <1>1 DEF Request, TypeOK
    <2> QED BY <1>1, <2>1, <2>2 DEF Excused
  <1>8. CASE DropPost(d)
    BY <1>8, DropExcused
  <1>9. CASE CheckForRename(d) \/ MakeFolder(d)
    <2>1. lost' = [lost EXCEPT ![d] = @ \ {sync[d].id}]
      BY <1>9 DEF CheckForRename, MakeFolder
    <2> QED BY <1>1, <2>1 DEF TypeOK
  <1> QED BY <1>2, <1>3, <1>4, <1>5, <1>6, <1>7, <1>8, <1>9 DEF FolderSync

\* FolderSync gives a post up, other than for a failed request, only when its parent is
\* still to come, was given up or removed, or a folder above has no parent
\* (ValidateFolder, ValidateFolderTree).
THEOREM GivesUpEarlyHolds == Spec => GivesUpEarly
  <1>1. TypeOK /\ Inv /\ [Next]_vars
           => [\A d \in Devices : GivesUp(d) =>
                  \/ sync[d].at = NoId
                  \/ sync[d].post.parent \in DOMAIN postMap[d] \cup News(d, FALSE) \cup News(d, TRUE)
                                                \cup DOMAIN trash[d] \cup lost[d] \cup {NoId}]_vars
    BY GiveUpExcused DEF Next, Excused
  <1> QED BY <1>1, Invariance, PTL DEF Spec, GivesUpEarly
=============================================================================
