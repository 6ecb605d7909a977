---------------------------- MODULE FolderCreation ----------------------------
(***************************************************************************)
(* How folders come into being.  Creators (PushTask, RenameTask and        *)
(* FolderTask, by FolderHandler::ValidateFolderPath) walk down a path and  *)
(* make a post on the server and a row in the manifest for each folder     *)
(* that has no row.  Walkers (FolderSync, and PullTask by FolderHandler::  *)
(* ValidateFolderTree) walk up from a post of the server to a root and     *)
(* make the rows that are missing.  A folder is a name below the post id   *)
(* of its parent; both hold the creation lock of the folder (fcl).         *)
(*                                                                         *)
(* Folders are not renamed here.  The deleted flag of a row is left out: a *)
(* creator that comes by clears it, on the server too, and nothing else on *)
(* these ways looks at it.                                                 *)
(***************************************************************************)
EXTENDS Naturals, Sequences, FiniteSets

CONSTANTS
    Creators,     \* threads that make sure a path has folder posts
    Walkers,      \* threads that make sure a post has rows up to a root
    Names,        \* folder names
    PathsOf,      \* PathsOf[c]: the paths creator c is asked for
    NoId,         \* the empty post id
    MaxPosts      \* bound on the folder posts of the server

ASSUME FolderCreationAssumption ==
    /\ Creators \cap Walkers = {}
    /\ PathsOf \in [Creators -> SUBSET (Seq(Names) \ {<< >>})]
    /\ Names # {}
    /\ NoId \notin Nat
    /\ MaxPosts \in Nat

Threads == Creators \cup Walkers

\* Post ids number the posts; the root directory has one of its own.
Root == 0
Ids == Nat \cup {NoId}

VARIABLES
    slots,        \* CreationQueue::folder_map_
    posts,        \* the folder posts on the server, in the order they came;
                  \* own: a post of this client, which was told its id
    rows,         \* the rows of FolderTable
    pc,           \* where each thread is
    slot,         \* the folder its fcl is for: name and parent id
    rest,         \* a creator's names still to come
    id,           \* a creator's new post, a walker's place on its way up
    target        \* the post a walker started from

vars == <<slots, posts, rows, pc, slot, rest, id, target>>

Folder(name, parent) == [name |-> name, parent |-> parent]

\* The locals of a thread that is not at work.
NoFolder == Folder(CHOOSE name \in Names : TRUE, NoId)

Idle(t) ==
    /\ slot' = [slot EXCEPT ![t] = NoFolder]
    /\ id' = [id EXCEPT ![t] = NoId]
    /\ target' = [target EXCEPT ![t] = NoId]

Init ==
    /\ slots = {}
    /\ posts = << >>
    /\ rows = {}
    /\ pc = [t \in Threads |-> "idle"]
    /\ slot = [t \in Threads |-> NoFolder]
    /\ rest = [t \in Threads |-> << >>]
    /\ id = [t \in Threads |-> NoId]
    /\ target = [t \in Threads |-> NoId]

Move(t, from, to) == pc[t] = from /\ pc' = [pc EXCEPT ![t] = to]

\* FolderTable::IsFolderInManifest, by post id and by name.
RowIds == { r.id : r \in rows }
RowsFor(f) == { r \in rows : r.name = f.name /\ r.parent = f.parent }

\* FileManager::CreateFolderEntry tests and inserts under manifest_mtx_.
WithRow(i, f, aliased) ==
    IF i \in RowIds THEN rows
    ELSE rows \cup {[id |-> i, name |-> f.name, parent |-> f.parent, aliased |-> aliased]}

-----------------------------------------------------------------------------
\* fcl::TryLock: spin until nobody has the slot, ...
WaitSlot(t) ==
    /\ Move(t, "wait", "lock")
    /\ slot[t] \notin slots
    /\ UNCHANGED <<slots, posts, rows, slot, rest, id, target>>

\* ... then lock it, under the mutex once more.  Lock fails when another
\* thread was faster, and nobody looks at what TryLock returns.
LockSlot(t) ==
    /\ Move(t, "lock", "locked")
    /\ slots' = slots \cup {slot[t]}
    /\ UNCHANGED <<posts, rows, slot, rest, id, target>>

\* Wrong variant: a return without Unlock.
UnlockSlot_Forgotten(t) ==
    /\ Move(t, "unlock", IF t \in Creators THEN "unlocked" ELSE "walk")
    /\ UNCHANGED <<slots, posts, rows, slot, rest, id, target>>

\* Unlock erases the slot whoever locked it.
UnlockSlot(t) ==
    /\ Move(t, "unlock", IF t \in Creators THEN "unlocked" ELSE "walk")
    /\ slots' = slots \ {slot[t]}
    /\ UNCHANGED <<posts, rows, slot, rest, id, target>>

-----------------------------------------------------------------------------
\* A creator: ValidateFolderPath, AttemptCreateNewFolderEntry

StartPath(c) ==
    /\ Move(c, "idle", "wait")
    /\ \E path \in PathsOf[c] :
          /\ slot' = [slot EXCEPT ![c] = Folder(Head(path), Root)]
          /\ rest' = [rest EXCEPT ![c] = Tail(path)]
    /\ UNCHANGED <<slots, posts, rows, id, target>>

FindFolder(c) ==
    /\ Move(c, "locked", "unlock")
    /\ c \in Creators
    /\ RowsFor(slot[c]) # {}
    /\ UNCHANGED <<slots, posts, rows, slot, rest, id, target>>

MissFolder(c) ==
    /\ Move(c, "locked", "post")
    /\ c \in Creators
    /\ RowsFor(slot[c]) = {}
    /\ UNCHANGED <<slots, posts, rows, slot, rest, id, target>>

\* CreateFolderPost
PostFolder(c) ==
    /\ Move(c, "post", "insert")
    /\ Len(posts) < MaxPosts
    /\ posts' = Append(posts, [name |-> slot[c].name, parent |-> slot[c].parent, own |-> TRUE])
    /\ id' = [id EXCEPT ![c] = Len(posts) + 1]
    /\ UNCHANGED <<slots, rows, slot, rest, target>>

\* The request fails; the server has no post.
PostFails(c) ==
    /\ Move(c, "post", "unlock")
    /\ UNCHANGED <<slots, posts, rows, slot, rest, id, target>>

\* The server has the post and the answer is lost: a failure to the client.
PostUnanswered(c) ==
    /\ Move(c, "post", "unlock")
    /\ Len(posts) < MaxPosts
    /\ posts' = Append(posts, [name |-> slot[c].name, parent |-> slot[c].parent, own |-> FALSE])
    /\ UNCHANGED <<slots, rows, slot, rest, id, target>>

\* Wrong variant: the row is looked up by name.
InsertEntry_ByName(c) ==
    /\ Move(c, "insert", "unlock")
    /\ rows' = IF RowsFor(slot[c]) # {} THEN rows ELSE WithRow(id[c], slot[c], FALSE)
    /\ UNCHANGED <<slots, posts, slot, rest, id, target>>

\* Wrong variant: the row is inserted without a look at the post id.
InsertEntry_Unchecked(c) ==
    /\ Move(c, "insert", "unlock")
    /\ rows' = rows \cup {[id |-> id[c], name |-> slot[c].name,
                           parent |-> slot[c].parent, aliased |-> FALSE]}
    /\ UNCHANGED <<slots, posts, slot, rest, id, target>>

\* CreateFolderEntry; when it finds a row, the creator goes on without an id.
InsertEntry(c) ==
    /\ Move(c, "insert", "unlock")
    /\ rows' = WithRow(id[c], slot[c], FALSE)
    /\ id' = [id EXCEPT ![c] = IF @ \in RowIds THEN NoId ELSE @]
    /\ UNCHANGED <<slots, posts, slot, rest, target>>

\* The id the next name hangs below: the new post's, or that of a row for the
\* folder (SQLite leaves open which row is the last), or none.
ParentIds(c) ==
    IF id[c] # NoId THEN {id[c]}
    ELSE IF RowsFor(slot[c]) # {} THEN { r.id : r \in RowsFor(slot[c]) }
    ELSE {NoId}

NextName(c) ==
    /\ Move(c, "unlocked", "wait")
    /\ rest[c] # << >>
    /\ \E parent \in ParentIds(c) :
          slot' = [slot EXCEPT ![c] = Folder(Head(rest[c]), parent)]
    /\ rest' = [rest EXCEPT ![c] = Tail(@)]
    /\ id' = [id EXCEPT ![c] = NoId]
    /\ UNCHANGED <<slots, posts, rows, target>>

\* ValidateFolderPath returns true.
EndPath(c) ==
    /\ Move(c, "unlocked", "valid")
    /\ rest[c] = << >>
    /\ UNCHANGED <<slots, posts, rows, slot, rest, id, target>>

-----------------------------------------------------------------------------
\* A walker: ValidateFolderTree, InsertFolder

StartWalk(w) ==
    /\ Move(w, "idle", "walk")
    /\ \E i \in DOMAIN posts :
          /\ id' = [id EXCEPT ![w] = i]
          /\ target' = [target EXCEPT ![w] = i]
    /\ UNCHANGED <<slots, posts, rows, slot, rest>>

\* Wrong variant: a folder without a row is passed by.
WalkUp_Unchecked(w) ==
    /\ Move(w, "walk", "walk")
    /\ id[w] \in DOMAIN posts
    /\ id' = [id EXCEPT ![w] = posts[id[w]].parent]
    /\ UNCHANGED <<slots, posts, rows, slot, rest, target>>

\* The folder has a row: go on with its parent.
WalkUp(w) ==
    /\ Move(w, "walk", "walk")
    /\ \E r \in rows : r.id = id[w] /\ id' = [id EXCEPT ![w] = r.parent]
    /\ UNCHANGED <<slots, posts, rows, slot, rest, target>>

\* It has none: get the post, ...
RetrievePost(w) ==
    /\ Move(w, "walk", "wait")
    /\ id[w] \in DOMAIN posts \ RowIds
    /\ slot' = [slot EXCEPT ![w] = Folder(posts[id[w]].name, posts[id[w]].parent)]
    /\ UNCHANGED <<slots, posts, rows, rest, id, target>>

\* ... which may fail, ...
RetrieveFails(w) ==
    /\ Move(w, "walk", "idle")
    /\ id[w] \notin RowIds \cup {Root}
    /\ Idle(w)
    /\ UNCHANGED <<slots, posts, rows, rest>>

\* ... and, under the creation lock, leave a row that came meanwhile, or look
\* for a folder of the same name ...
KnownById(w) ==
    /\ Move(w, "locked", "unlock")
    /\ w \in Walkers
    /\ id[w] \in RowIds
    /\ UNCHANGED <<slots, posts, rows, slot, rest, id, target>>

LookUpName(w) ==
    /\ Move(w, "locked", IF RowsFor(slot[w]) = {} THEN "plain" ELSE "aliased")
    /\ w \in Walkers
    /\ id[w] \notin RowIds
    /\ UNCHANGED <<slots, posts, rows, slot, rest, id, target>>

\* ... and insert the row, under an alias if there is one.
InsertPlain(w) ==
    /\ Move(w, "plain", "unlock")
    /\ rows' = WithRow(id[w], slot[w], FALSE)
    /\ UNCHANGED <<slots, posts, slot, rest, id, target>>

InsertAliased(w) ==
    /\ Move(w, "aliased", "unlock")
    /\ rows' = WithRow(id[w], slot[w], TRUE)
    /\ UNCHANGED <<slots, posts, slot, rest, id, target>>

\* ValidateFolderTree returns true.
EndWalk(w) ==
    /\ Move(w, "walk", "valid")
    /\ id[w] = Root
    /\ UNCHANGED <<slots, posts, rows, slot, rest, id, target>>

-----------------------------------------------------------------------------
\* Another client posts a folder below a root or a folder of the server.
PostElsewhere ==
    /\ Len(posts) < MaxPosts
    /\ \E name \in Names, parent \in {Root} \cup DOMAIN posts :
          posts' = Append(posts, [name |-> name, parent |-> parent, own |-> FALSE])
    /\ UNCHANGED <<slots, rows, pc, slot, rest, id, target>>

\* The caller goes on; what it does with the folder is not modelled.
Return(t) ==
    /\ Move(t, "valid", "idle")
    /\ Idle(t)
    /\ UNCHANGED <<slots, posts, rows, rest>>

Create(c) ==
    \/ FindFolder(c) \/ MissFolder(c) \/ PostFolder(c) \/ PostFails(c)
    \/ PostUnanswered(c) \/ InsertEntry(c) \/ NextName(c) \/ EndPath(c)

Walk(w) ==
    \/ WalkUp(w) \/ RetrievePost(w) \/ RetrieveFails(w) \/ KnownById(w)
    \/ LookUpName(w) \/ InsertPlain(w) \/ InsertAliased(w) \/ EndWalk(w)

Lock(t) == WaitSlot(t) \/ LockSlot(t) \/ UnlockSlot(t)

Step(t) ==
    \/ Lock(t)
    \/ t \in Creators /\ Create(t)
    \/ t \in Walkers /\ Walk(t)
    \/ Return(t)

Next ==
    \/ \E c \in Creators : StartPath(c)
    \/ \E w \in Walkers : StartWalk(w)
    \/ \E t \in Threads : Step(t)
    \/ PostElsewhere

\* A thread that has begun is scheduled until it is done.
Spec == Init /\ [][Next]_vars /\ \A t \in Threads : WF_vars(Step(t))

-----------------------------------------------------------------------------
CreatorPcs == {"idle", "wait", "lock", "locked", "post", "insert", "unlock",
               "unlocked", "valid"}
WalkerPcs == {"idle", "walk", "wait", "lock", "locked", "plain", "aliased",
              "unlock", "valid"}

\* The type invariant: also, what is to become a row is a post, with its name
\* and its parent, and parents are older than children.
TypeOK ==
    /\ slots \subseteq [name : Names, parent : Ids]
    /\ posts \in Seq([name : Names, parent : Ids, own : BOOLEAN])
    /\ rows \subseteq [id : Nat, name : Names, parent : Ids, aliased : BOOLEAN]
    /\ \A c \in Creators : pc[c] \in CreatorPcs
    /\ \A w \in Walkers : pc[w] \in WalkerPcs
    /\ DOMAIN pc = Threads
    /\ slot \in [Threads -> [name : Names, parent : Ids]]
    /\ rest \in [Threads -> Seq(Names)]
    /\ id \in [Threads -> Ids]
    /\ target \in [Threads -> Ids]
    /\ \A t \in Threads : pc[t] \in {"insert", "plain", "aliased"} =>
          /\ id[t] \in DOMAIN posts
          /\ slot[t] = Folder(posts[id[t]].name, posts[id[t]].parent)

Inside(t) == pc[t] \in {"locked", "post", "insert", "plain", "aliased", "unlock"}

\* A folder stays locked only while some thread is at work on it: creation
\* locks are taken and given back by threads that did not take them, around
\* requests that fail, and one left behind would make every later creator of
\* the folder spin for ever (foldercreationlock.h, TryLock).
SlotBacked == \A f \in slots : \E t \in Threads : Inside(t) /\ slot[t] = f

\* A folder never stays locked: it becomes free again and again, whatever
\* requests fail and whoever locks it next.
SlotFreed ==
    \A f \in [name : Names, parent : {Root, NoId} \cup 1..MaxPosts] :
        []<>(f \notin slots)

\* A post has one row at most, and that one says what the post says, although
\* the creator that made the post and a walker that found it on the server
\* may both be inserting it, one of them under an alias.
OneRowPerPost ==
    /\ \A r, s \in rows : r.id = s.id => r = s
    /\ \A r \in rows :
          /\ r.id \in DOMAIN posts
          /\ posts[r.id].name = r.name /\ posts[r.id].parent = r.parent

\* Each post this client was told the id of has a row or gets one from its
\* creator: a post without a row is a folder the next creator posts again.
PostsRecorded ==
    \A i \in DOMAIN posts : posts[i].own =>
        i \in RowIds \/ \E c \in Creators : pc[c] = "insert" /\ id[c] = i

\* "Make sure there is a corresponding folder entry for this entire
\* folderpath" (folderhandler.cpp): when a walk has succeeded, there is a set
\* of folders with rows that has the folder itself and, with each folder,
\* its parent or the root as parent.
TreeValidated ==
    \A w \in Walkers : pc[w] = "valid" =>
        \E W \in SUBSET RowIds :
            /\ target[w] \in W
            /\ \A i \in W : posts[i].parent \in W \cup {Root}
=============================================================================
