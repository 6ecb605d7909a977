------------------------------ MODULE Transfer ------------------------------
(***************************************************************************)
(* One file between the devices of an entity: PushTask decides whether the *)
(* file is sent and creates its file post, UploadTask (PostFileStrategy)   *)
(* sends it in groups of chunks, one chunk post a group, and describes it  *)
(* in the file post; Polling and FileSync bring the post into the manifest *)
(* of the other devices, and PullTask (GetFileStrategy) puts the file      *)
(* together again.                                                         *)
(*                                                                         *)
(* A content is the sequence of its chunks, a chunk a number: its name is  *)
(* the MAC of its plaintext, and the map of chunks is ordered by name.  A  *)
(* hash of a file is its content.  The digest of an attachment is the MAC  *)
(* of the encrypted chunk, whose iv is random: the name and the upload.    *)
(*                                                                         *)
(* A row is what the manifest and the file post say of the file: hash and  *)
(* chunk map; with it goes, unknown to the code, what the uploader read    *)
(* from the disk and how the server lost a part of it: a group it refused, *)
(* or one it kept only a part of and answered for as if it were all.       *)
(***************************************************************************)
EXTENDS Naturals, Sequences, FiniteSets

CONSTANTS Devices, Creator,     \* the device the file comes from
          Contents,             \* the contents the user writes
          GroupSize,            \* chunks in a chunk post: 30 in the code
          MaxEdits, MaxUploads, MaxFailures  \* bounds

Junk == 99                 \* what a buffer holds that was not read into
Names(c) == {c[i] : i \in DOMAIN c}
Chunks == {Junk} \cup UNION {Names(c) : c \in Contents}

\* A name is a MAC: there are finitely many.
ASSUME TransferAssumption ==
  /\ Creator \in Devices /\ GroupSize \in Nat \ {0}
  /\ Contents \subseteq Seq(Nat \ {0}) /\ IsFiniteSet(Chunks)
  /\ MaxEdits \in Nat /\ MaxUploads \in Nat /\ MaxFailures \in Nat

VARIABLES disk,      \* the file on each device
          info,      \* its row in the manifest of each device
          want,      \* tasks requested: "upload", "pull"
          job,       \* the upload or download that holds the file's lock
          inbox,     \* the file post polled and not yet processed
          news,      \* devices whose next query finds the post
          post,      \* the file post
          groups,    \* the chunk posts, oldest first
          stored,    \* attachments: <<name, upload>>
          edits, uploads, failures

device == <<info, want, job, inbox>>
server == <<post, groups, stored, news>>
vars == <<disk, device, server, edits, uploads, failures>>

-----------------------------------------------------------------------------
NoFile == <<0>>            \* no file, no row
Max0(S) == IF S = {} THEN 0 ELSE CHOOSE m \in S : \A x \in S : x <= m

\* FileInfo::ChunkMap: chunk name to position and digest.
NoChunks == [x \in {} |-> [pos |-> 0, up |-> 0]]
Over(new, old) ==
  [x \in DOMAIN new \cup DOMAIN old |-> IF x \in DOMAIN new THEN new[x] ELSE old[x]]

Losses == {"refused", "short"}
Row(c, chunks, read, lossy) == [hash |-> c, chunks |-> chunks, read |-> read, lossy |-> lossy]
NoRow == Row(NoFile, NoChunks, <<>>, {})
Exists(row) == row.hash # NoFile
NoPost == [row |-> NoRow, transit |-> FALSE]
NoInbox == NoPost
NoJob == [step |-> "idle", up |-> 0, fi |-> NoRow, got |-> NoPost,
          parents |-> {}, size |-> 0, out |-> <<>>, lost |-> FALSE]

\* The file is new on one device ...
New ==
  /\ disk \in [Devices -> Contents \cup {NoFile}]
  /\ \A d \in Devices : (disk[d] # NoFile) <=> (d = Creator)
  /\ info = [d \in Devices |-> NoRow]
  /\ post = NoPost /\ groups = <<>> /\ stored = {}

\* ... or was sent in one group, upload 0, and is on every device.
Known ==
  \E c \in Contents :
    LET chunks == [x \in Names(c) |-> [pos |-> Max0({i \in DOMAIN c : c[i] = x}) - 1, up |-> 0]]
        row == Row(c, chunks, c, {}) IN
    /\ 0 < Len(c) /\ Len(c) <= GroupSize
    /\ disk = [d \in Devices |-> c] /\ info = [d \in Devices |-> row]
    /\ post = [row |-> row, transit |-> FALSE]
    /\ groups = <<[group |-> 0, chunks |-> chunks]>> /\ stored = {<<x, 0>> : x \in Names(c)}

Init ==
  /\ New \/ Known
  /\ want = [d \in Devices |-> {}] /\ job = [d \in Devices |-> NoJob]
  /\ inbox = [d \in Devices |-> NoInbox] /\ news = {}
  /\ edits = 0 /\ uploads = 0 /\ failures = 0

Fails == failures < MaxFailures /\ failures' = failures + 1
Works == UNCHANGED failures
Goes(d, j) == job' = [job EXCEPT ![d] = j]
Idle(d) == Goes(d, NoJob)
Step(d, s) == Goes(d, [job[d] EXCEPT !.step = s])

-----------------------------------------------------------------------------
(* The user, and the push.                                                  *)

Edit(d) ==
  /\ edits < MaxEdits /\ edits' = edits + 1
  /\ disk[d] # NoFile
  /\ \E c \in Contents \ {disk[d]} : disk' = [disk EXCEPT ![d] = c]
  /\ UNCHANGED <<device, server, uploads, failures>>

\* A row without chunks was created and never uploaded.
DetectFileDivergence(d) ==
  \/ Len(info[d].hash) > 0 /\ DOMAIN info[d].chunks = {}
  \/ info[d].hash # disk[d]

\* The post comes first, then the row, with the id the answer brings, then the
\* request.  A POST that fails makes neither post nor row; when its answer is
\* lost there is a post in transit that no device knows.
CreateNewFile(d) ==
  LET row == Row(disk[d], NoChunks, disk[d], {})
      posted == post' = [row |-> row, transit |-> TRUE] /\ news' = Devices
  IN
  \/ /\ Works /\ posted
     /\ info' = [info EXCEPT ![d] = row]
     /\ want' = [want EXCEPT ![d] = @ \cup {"upload"}]
  \/ Fails /\ posted /\ UNCHANGED <<info, want>>
  \/ Fails /\ UNCHANGED <<post, news, info, want>>

\* The file is created on one device; a second file post for the path, made by
\* a device that does not know the first, is not modelled.
PushFile(d) ==
  /\ disk[d] # NoFile /\ "upload" \notin want[d]
  /\ \/ /\ Exists(info[d]) /\ DetectFileDivergence(d)
        /\ want' = [want EXCEPT ![d] = @ \cup {"upload"}]
        /\ Works /\ UNCHANGED <<post, news, info>>
     \/ ~Exists(info[d]) /\ ~Exists(post.row) /\ CreateNewFile(d)
  /\ UNCHANGED <<disk, job, inbox, groups, stored, edits, uploads>>

-----------------------------------------------------------------------------
(* The upload: PostFileStrategy::Execute.                                   *)

BeginUpload(d) ==
  /\ "upload" \in want[d] /\ job[d] = NoJob /\ uploads < MaxUploads
  /\ uploads' = uploads + 1 /\ want' = [want EXCEPT ![d] = @ \ {"upload"}]
  /\ Goes(d, [NoJob EXCEPT !.step = "on_get", !.up = uploads + 1, !.fi = info[d]])
  /\ UNCHANGED <<disk, info, inbox, server, edits, failures>>

\* A task that finds the file locked finishes: the request is gone.
FileInUse(d, kind) ==
  /\ kind \in want[d] /\ job[d] # NoJob
  /\ want' = [want EXCEPT ![d] = @ \ {kind}]
  /\ UNCHANGED <<disk, info, job, inbox, server, edits, uploads, failures>>

\* A file post is updated by a GET and a PUT of what was got.
GetFilePost(d, at, next) ==
  /\ job[d].step = at
  /\ \/ Works /\ Goes(d, [job[d] EXCEPT !.step = next, !.got = post])
     \/ Fails /\ Idle(d)
  /\ UNCHANGED <<disk, info, want, inbox, server, edits, uploads>>

PutFilePost(d, at, next, value) ==
  /\ job[d].step = at
  /\ \/ /\ Works /\ post' = value /\ news' = Devices
        /\ IF next = "idle" THEN Idle(d) ELSE Step(d, next)
     \/ Fails /\ Idle(d) /\ UNCHANGED <<post, news>>
     \/ Fails /\ Idle(d) /\ post' = value /\ news' = Devices   \* the answer is lost
  /\ UNCHANGED <<disk, info, want, inbox, groups, stored, edits, uploads>>

BeginTransit(d) ==
  \/ GetFilePost(d, "on_get", "on_put")
  \/ PutFilePost(d, "on_put", "posts", [job[d].got EXCEPT !.transit = TRUE])

\* The first post of a group in the feed is its post; a later one is ignored.
GroupPosts ==
  {i \in DOMAIN groups :
     \A k \in DOMAIN groups : groups[k].group = groups[i].group => k <= i}

\* Of the posts that list a chunk the one of the last group counts.
ExtractChunkInfo(parents) ==
  LET listed(x) == {i \in parents : x \in DOMAIN groups[i].chunks}
      last(x) == CHOOSE i \in listed(x) : \A k \in listed(x) : groups[k].group <= groups[i].group
  IN [x \in UNION {DOMAIN groups[i].chunks : i \in parents} |-> groups[last(x)].chunks[x]]

\* A query that fails leaves the list of chunk posts empty, and the upload goes on.
RetrieveChunkPosts(d) ==
  /\ job[d].step = "posts"
  /\ \E parents \in {GroupPosts, {}} :
       /\ IF parents = GroupPosts THEN Works ELSE Fails
       /\ Goes(d, [job[d] EXCEPT
            !.step = IF disk[d] = <<>> THEN "roll" ELSE "group",
            !.parents = parents, !.size = Len(disk[d]),
            !.fi = Row(@.hash, ExtractChunkInfo(parents), <<>>, {})])
  /\ UNCHANGED <<disk, info, want, inbox, server, edits, uploads>>

\* The chunks of the next group, from the file as it is now; past the end of a
\* file that became shorter there is what the buffer held.
ReadChunks(d) ==
  LET k == Len(job[d].fi.read)
      n == IF job[d].size - k < GroupSize THEN job[d].size - k ELSE GroupSize
  IN [i \in 1 .. n |-> IF k + i <= Len(disk[d]) THEN disk[d][k + i] ELSE Junk]

\* A wrong variant: positions count from one.
ProcessTransform_FromOne(part, up) ==
  [x \in Names(part) |-> [pos |-> Max0({i \in DOMAIN part : part[i] = x}), up |-> up]]

\* Every chunk is encrypted and sent, also one the group's post has: its name is
\* asked for before it is computed.  The position counts within the group.
ProcessTransform(part, up) ==
  [x \in Names(part) |-> [pos |-> Max0({i \in DOMAIN part : part[i] = x}) - 1, up |-> up]]

\* EndRequest: a PUT of the group's post, or a new chunk post.
PushGroup(d, g, chunks) ==
  LET new == [group |-> g, chunks |-> chunks]
      old == {i \in job[d].parents : groups[i].group = g}
  IN groups' = IF old = {} THEN Append(groups, new)
               ELSE [i \in DOMAIN groups |-> IF i \in old THEN new ELSE groups[i]]

\* A wrong variant: an answer is not looked at.
VerifyChunks_Skipped(answer, sent) == TRUE

\* Every digest the answer lists is that of a chunk this upload sent.  That every
\* chunk sent is listed is not asked.
VerifyChunks(answer, sent) == answer \subseteq sent

\* The server stores the chunks of the group, or some of them, or another thing
\* in the place of one, and answers with the digests of what it stored; or it
\* refuses the group, or its answer is lost: the upload goes on with the next.
UploadGroup(d) ==
  LET j == job[d]
      part == ReadChunks(d)
      chunks == ProcessTransform(part, j.up)
      read == j.fi.read \o part
      digests(S) == {<<x, j.up>> : x \in S}
      next(lossy) == Goes(d, [j EXCEPT
                       !.step = IF Len(read) = j.size THEN "roll" ELSE "group",
                       !.fi = Row(@.hash, Over(chunks, @.chunks), read, @.lossy \cup lossy)])
  IN
  /\ j.step = "group"
  /\ \/ /\ PushGroup(d, Len(j.fi.read) \div GroupSize, chunks)
        /\ \E kept \in SUBSET Names(part), foreign \in {{}, digests({0})} :
             /\ foreign # {} => kept # Names(part)
             /\ IF kept = Names(part) THEN Works ELSE Fails
             /\ stored' = stored \cup digests(kept)
             /\ IF VerifyChunks(digests(kept) \cup foreign, digests(Names(read)))
                THEN next(IF kept # Names(part) /\ foreign = {} THEN {"short"} ELSE {})
                ELSE Idle(d)
     \/ Fails /\ next({"refused"}) /\ UNCHANGED <<groups, stored>>
     \/ /\ Fails /\ next({"refused"})
        /\ PushGroup(d, Len(j.fi.read) \div GroupSize, chunks)
        /\ stored' = stored \cup digests(Names(part))
  /\ UNCHANGED <<disk, info, want, inbox, post, news, edits, uploads>>

\* RollFileMac and UpdateFileInfo: the hash is that of the file as it is now.
UpdateFileInfo(d) ==
  LET row == [job[d].fi EXCEPT !.hash = disk[d]] IN
  /\ job[d].step = "roll"
  /\ info' = [info EXCEPT ![d] = row]
  /\ Goes(d, [job[d] EXCEPT !.step = "file_get", !.fi = row])
  /\ UNCHANGED <<disk, want, inbox, server, edits, uploads, failures>>

UpdateFilePost(d) ==
  \/ GetFilePost(d, "file_get", "file_put")
  \/ PutFilePost(d, "file_put", "off_get", [job[d].got EXCEPT !.row = job[d].fi])

\* A wrong variant: the fragment is cleared only if there was none.
EndTransit_Kept(d) ==
  \/ GetFilePost(d, "off_get", "off_put")
  \/ PutFilePost(d, "off_put", "idle", job[d].got)

\* The upload ends; the version is then read from the post (not modelled).
EndTransit(d) ==
  \/ GetFilePost(d, "off_get", "off_put")
  \/ PutFilePost(d, "off_put", "idle", [job[d].got EXCEPT !.transit = FALSE])

\* A connection that cannot be made, or a write that fails, throws out of the
\* task: no thread catches it and the process ends.  Files, manifest and posts
\* stay; requests, locks and what was polled are gone, and the first query of
\* the next process reads the post again.
Crash(d) ==
  /\ job[d].step = "group" /\ Fails
  /\ Idle(d) /\ want' = [want EXCEPT ![d] = {}] /\ inbox' = [inbox EXCEPT ![d] = NoInbox]
  /\ news' = news \cup {d}
  /\ UNCHANGED <<disk, info, post, groups, stored, edits, uploads>>

-----------------------------------------------------------------------------
(* The other devices: Polling, FileSync::ProcessFilePost.                   *)

\* The query is for the type without a fragment: a post in transit is not among
\* the answers.  One post polled waits at a time.
PollFilePosts(d) ==
  /\ d \in news /\ inbox[d] = NoInbox /\ ~post.transit
  /\ news' = news \ {d} /\ inbox' = [inbox EXCEPT ![d] = post]
  /\ UNCHANGED <<disk, info, want, job, post, groups, stored, edits, uploads, failures>>

\* A wrong variant: a row that exists is not updated before the download.
ProcessFilePost_Stale(d) ==
  LET row == inbox[d].row
      differs == row.hash # info[d].hash
  IN
  /\ inbox[d] # NoInbox /\ inbox' = [inbox EXCEPT ![d] = NoInbox]
  /\ info' = IF ~Exists(info[d]) THEN [info EXCEPT ![d] = row] ELSE info
  /\ want' = IF differs THEN [want EXCEPT ![d] = @ \cup {"pull"}] ELSE want
  /\ UNCHANGED <<disk, job, server, edits, uploads, failures>>

\* A post whose hash is not the manifest's, or whose file is not there.
ProcessFilePost(d) ==
  LET row == inbox[d].row
      differs == row.hash # info[d].hash
  IN
  /\ inbox[d] # NoInbox /\ inbox' = [inbox EXCEPT ![d] = NoInbox]
  /\ info' = IF differs THEN [info EXCEPT ![d] = row] ELSE info
  /\ want' = IF differs \/ disk[d] = NoFile
             THEN [want EXCEPT ![d] = @ \cup {"pull"}] ELSE want
  /\ UNCHANGED <<disk, job, server, edits, uploads, failures>>

-----------------------------------------------------------------------------
(* The download: GetFileStrategy::SyncFile and ConstructFile.               *)

\* The file post is read for the key alone: what is put together is what the
\* manifest says.
SyncFile(d) ==
  /\ "pull" \in want[d] /\ job[d] = NoJob
  /\ want' = [want EXCEPT ![d] = @ \ {"pull"}]
  /\ \/ Works /\ Goes(d, [NoJob EXCEPT !.step = "fetch", !.fi = info[d]])
     \/ Fails /\ UNCHANGED job
  /\ UNCHANGED <<disk, info, inbox, server, edits, uploads>>

\* A wrong variant: in the order of the map, which is that of the names.
ChunkList_ByName(chunks) ==
  LET before(x) == {y \in DOMAIN chunks : y < x} IN
  [p \in {Cardinality(before(x)) : x \in DOMAIN chunks} |->
     CHOOSE x \in DOMAIN chunks : Cardinality(before(x)) = p]

\* Position to chunk; of two at one position the last by name stays.
ChunkList(chunks) ==
  [p \in {chunks[x].pos : x \in DOMAIN chunks} |->
     Max0({x \in DOMAIN chunks : chunks[x].pos = p})]

\* What is left of a sequence, in its order.
Without(seq, drop) ==
  LET keep == DOMAIN seq \ drop
      upto(i) == Cardinality({k \in keep : k <= i})
  IN [m \in 1 .. Cardinality(keep) |-> seq[CHOOSE i \in keep : upto(i) = m]]

\* A chunk that does not come, or does not decrypt, is left out; the status is
\* that of the last chunk, and one that does not decrypt counts as done.
ConstructFile(d) ==
  LET j == job[d]
      list == ChunkList(j.fi.chunks)
      n == Cardinality(DOMAIN list)
      gaps == {p \in 0 .. n - 1 : p \notin DOMAIN list}
      seq == [i \in 1 .. n |-> list[i - 1]]
      absent == {i \in 1 .. n : <<list[i - 1], j.fi.chunks[list[i - 1]].up>> \notin stored}
  IN
  /\ j.step = "fetch"
  /\ \/ /\ j.fi.hash = <<>> /\ Works   \* size 0: the file is made empty in place
        /\ disk' = [disk EXCEPT ![d] = <<>>] /\ Idle(d)
     \/ /\ j.fi.hash # <<>> /\ (n = 0 \/ gaps # {})
        /\ Works /\ Idle(d) /\ UNCHANGED disk
     \/ /\ j.fi.hash # <<>> /\ n > 0 /\ gaps = {}
        /\ \E bad \in SUBSET (1 .. n \ absent), last \in BOOLEAN :
             LET drop == bad \cup absent
                 done == IF n \in absent THEN FALSE ELSE n \in bad => last IN
             /\ failures + Cardinality(bad) <= MaxFailures
             /\ failures' = failures + Cardinality(bad)
             /\ n \notin bad => last
             /\ IF done
                THEN Goes(d, [j EXCEPT !.step = "move", !.out = Without(seq, drop),
                                       !.lost = drop # {}])
                ELSE Idle(d)
        /\ UNCHANGED disk
  /\ UNCHANGED <<info, want, inbox, server, edits, uploads>>

\* The folder's post is read once more for the path; when that fails, or the
\* move does, what was put together is deleted.
MoveFile(d) ==
  /\ job[d].step = "move" /\ Idle(d)
  /\ \/ Works /\ disk' = [disk EXCEPT ![d] = job[d].out]
     \/ Fails /\ UNCHANGED disk
  /\ UNCHANGED <<info, want, inbox, server, edits, uploads>>

-----------------------------------------------------------------------------
Upload(d) ==
  \/ BeginUpload(d) \/ BeginTransit(d) \/ RetrieveChunkPosts(d) \/ UploadGroup(d)
  \/ UpdateFileInfo(d) \/ UpdateFilePost(d) \/ EndTransit(d)
Download(d) == SyncFile(d) \/ ConstructFile(d) \/ MoveFile(d)
Watch(d) == PollFilePosts(d) \/ ProcessFilePost(d)

Next == \E d \in Devices :
  \/ Edit(d) \/ PushFile(d) \/ Upload(d) \/ Download(d) \/ Watch(d) \/ Crash(d)
  \/ FileInUse(d, "upload") \/ FileInUse(d, "pull")

\* A worker goes on with its task.
Fairness == \A d \in Devices : WF_vars(Upload(d) \/ Download(d))

Spec == Init /\ [][Next]_vars /\ Fairness

-----------------------------------------------------------------------------
(* Properties.                                                              *)

Files == Seq(Chunks) \cup {NoFile}
ChunkMaps == UNION {[S -> [pos : 0 .. GroupSize - 1, up : 0 .. MaxUploads]] : S \in SUBSET Chunks}
Rows == [hash : Files, chunks : ChunkMaps, read : Seq(Chunks), lossy : SUBSET Losses]
Posts == [row : Rows, transit : BOOLEAN]
Steps == {"idle", "on_get", "on_put", "posts", "group", "roll", "file_get", "file_put",
          "off_get", "off_put", "fetch", "move"}
Jobs == [step : Steps, up : 0 .. MaxUploads, fi : Rows, got : Posts, parents : SUBSET Nat,
         size : Nat, out : Seq(Chunks), lost : BOOLEAN]

\* Every variable keeps its kind of value; a position is one within a group.
TypeOK ==
  /\ disk \in [Devices -> Files] /\ info \in [Devices -> Rows]
  /\ want \in [Devices -> SUBSET {"upload", "pull"}]
  /\ job \in [Devices -> Jobs] /\ inbox \in [Devices -> Posts]
  /\ post \in Posts /\ news \subseteq Devices
  /\ groups \in Seq([group : Nat, chunks : ChunkMaps])
  /\ stored \subseteq Chunks \X (0 .. MaxUploads)
  /\ uploads \in 0 .. MaxUploads /\ failures \in 0 .. MaxFailures /\ edits \in 0 .. MaxEdits

Attachments(row) == {<<x, row.chunks[x].up>> : x \in Names(row.read) \cap DOMAIN row.chunks}

\* The chunks a file post out of transit was made from can be fetched, unless the
\* server refused a group of that upload, or kept a part of one and listed no
\* more: two devices that upload at once, an answer that lists what was not sent
\* and a process that ends in between leave no post that points at nothing.
\* (Chunks the post lists from an earlier upload may be gone.)
Fetchable == ~post.transit /\ post.row.lossy = {} => Attachments(post.row) \subseteq stored

\* The chunk map says what was read: its names are those of the chunks read and
\* no two share a position.
Exact(row) ==
  /\ DOMAIN row.chunks = Names(row.read) /\ Len(row.read) = Cardinality(Names(row.read))
  /\ \A x, y \in DOMAIN row.chunks : row.chunks[x].pos = row.chunks[y].pos => x = y

\* A download that loses no chunk puts the chunks into the order in which the
\* uploader read them, provided the chunk map is exact.
Reassembles ==
  \A d \in Devices :
    job[d].step = "move" /\ Exact(job[d].fi) /\ ~job[d].lost => job[d].out = job[d].fi.read

AtRest(d) == inbox[d] = NoInbox /\ d \notin news /\ \A e \in Devices : job[e] = NoJob

\* When nothing is under way and nothing failed, the manifest of a device that
\* knows the file agrees with the file post on its hash: no upload's late write
\* of the manifest hides a version another device posted.
Converges ==
  failures = 0 =>
    \A d \in Devices : AtRest(d) /\ ~post.transit => info[d].hash = post.row.hash

\* A file post is taken out of transit, unless a request failed or the bound on
\* the uploads was met.
TransitEnds == post.transit ~> (~post.transit \/ failures > 0 \/ uploads = MaxUploads)

\* What a download moves into place is the file the manifest row describes.
\* (docs/attic_posts.md: a very large file's chunks are grouped in separate
\* posts; chunkinfo.h: the position is the one in the order of chunks.)
RoundTrip ==
  \A d \in Devices : job[d].step = "move" /\ failures = 0 => job[d].out = job[d].fi.hash
=============================================================================
