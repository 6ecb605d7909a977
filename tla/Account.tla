------------------------------- MODULE Account -------------------------------
(***************************************************************************)
(* An account used from several devices: passphrases, the master key, the  *)
(* key pair and the working directory (atticservice.cpp, passphrase.cpp,   *)
(* confighandler.cpp).  An operation of the application is a sequence of   *)
(* requests to the server, each an action here; the operations of several  *)
(* devices interleave between requests.  A request may be refused, or take *)
(* effect and have its answer lost.                                        *)
(*                                                                         *)
(* The server is external: a feed lists the posts of a type newest first,  *)
(* a PUT stores a new version, also of a deleted post (PutRevives).  What  *)
(* is random in the code (keys, aliases, post ids) is stamped with the     *)
(* device and its operation.  A passphrase or recovery key opens a post    *)
(* exactly when it is the one the post was encrypted with.                 *)
(***************************************************************************)
EXTENDS ConfigTable, Sequences, SequencesExt, FiniteSetsExt

CONSTANTS
  Devices,
  Phrases,       \* passphrases a user thinks of
  Dir,           \* the working directory of a device
  Aliases,       \* bound: a set of numbers, the random aliases
  MaxOps,        \* bound: operations of all devices
  MaxFailures,   \* bound: requests that fail
  PutRevives,    \* the server accepts a PUT to a deleted post
  None

ASSUME ConstantsAssumption ==
  /\ Aliases \subseteq Nat /\ MaxOps \in Nat /\ MaxFailures \in Nat
  /\ PutRevives \in BOOLEAN /\ Dir # ""
  /\ None \notin Phrases \cup Devices \X Int

VARIABLES
  creds,      \* the credentials posts, newest first
  publics,    \* the public key posts, newest first
  privates,   \* the private key posts, newest first
  configs,    \* the configuration posts, newest first
  folders,    \* the folder posts of working directories
  job,        \* the operation each device is in
  held,       \* CredentialsManager::master_key_
  pair,       \* CredentialsManager::public_key_ and private_key_
  table,      \* the configuration table of each device
  rows,       \* the root folders in each device's folder table
  roots,      \* FileManager::working_directories_
  entered,    \* g_bEnteredPassphrase
  told,       \* the recovery keys and temporary passphrases the user was told
  ops,        \* operations begun by each device
  failures,   \* requests failed
  registered, \* history: pushes of a new master key
  disturbed   \* history: an operation failed a request or overlapped another

server == <<creds, publics, privates, configs, folders>>
device == <<held, pair, table, rows, roots, entered>>
counts == <<ops, failures, registered, disturbed>>
vars == <<server, job, device, told, counts>>

Stamps == Devices \X Int
Opens == Phrases \cup Stamps
CredPosts == [id : Stamps, phrase : Opens, recovery : Stamps, mk : Stamps]
ConfigEntries == [type : {RootDir}, key : Aliases, value : Aliases]
ConfigPosts == [id : Stamps, entries : SUBSET ConfigEntries]
ConfigRows == [type : {RootDir}, key : Aliases, value : Aliases, state : {"", Dir}]
NoPost == [id |-> None, entries |-> {}]
Idle == [op |-> "none", at |-> "idle", phrase |-> None, new |-> None, mk |-> None,
         post |-> None, copy |-> NoPost, alias |-> 0]

Requests ==
  {"open", "count", "fetch", "delete", "push", "enter", "config", "recheck", "create",
   "reread", "load", "folder", "getroot", "putroot", "pair", "anyPublic", "public",
   "anyPrivate", "private"}

Jobs ==
  [op : {"none", "register", "enter", "change", "recover"}, at : Requests \cup {"idle"},
   phrase : Opens \cup {None}, new : Opens \cup {None}, mk : Stamps \cup {None},
   post : Stamps \cup {None}, copy : ConfigPosts \cup {NoPost}, alias : Aliases \cup {0}]

TypeOK ==
  /\ creds \in Seq(CredPosts)
  /\ publics \in Seq(Stamps) /\ privates \in Seq(Stamps)
  /\ configs \in Seq(ConfigPosts) /\ folders \subseteq Aliases
  /\ job \in [Devices -> Jobs]
  /\ \A d \in Devices : job[d].at = "idle" <=> job[d] = Idle
  /\ held \in [Devices -> Stamps \cup {None}] /\ pair \in [Devices -> Stamps \cup {None}]
  /\ table \in [Devices -> SUBSET ConfigRows] /\ rows \in [Devices -> SUBSET Aliases]
  /\ roots \in [Devices -> UNION {[A -> {"", Dir}] : A \in SUBSET Aliases}]
  /\ entered \in [Devices -> BOOLEAN] /\ told \subseteq Stamps
  /\ ops \in [Devices -> Nat] /\ failures \in 0 .. MaxFailures
  /\ registered \in Nat /\ disturbed \in BOOLEAN

Init ==
  /\ creds = <<>> /\ publics = <<>> /\ privates = <<>> /\ configs = <<>> /\ folders = {}
  /\ job = [d \in Devices |-> Idle]
  /\ held = [d \in Devices |-> None] /\ pair = [d \in Devices |-> None]
  /\ table = [d \in Devices |-> {}] /\ rows = [d \in Devices |-> {}]
  /\ roots = [d \in Devices |-> <<>>]
  /\ entered = [d \in Devices |-> FALSE] /\ told = {}
  /\ ops = [d \in Devices |-> 0] /\ failures = 0 /\ registered = 0 /\ disturbed = FALSE

Stamp(d) == <<d, ops[d]>>
RecoveryStamp(d) == <<d, -ops[d]>>

(***************************************************************************)
(* Requests                                                                *)
(***************************************************************************)
\* How a request ends: answered with 200, refused, or done and the answer lost.
Outcomes == {"ok"} \cup (IF failures < MaxFailures THEN {"refused", "lost"} ELSE {})
Reads == Outcomes \ {"lost"}
Done(o) == o # "refused"

Ask(d, at, o) ==
  /\ job[d].at = at
  /\ failures' = IF o = "ok" THEN failures ELSE failures + 1
  /\ disturbed' = (disturbed \/ o # "ok")
  /\ UNCHANGED ops

Go(d, at) == job' = [job EXCEPT ![d].at = at]
End(d) == job' = [job EXCEPT ![d] = Idle]

\* No two posts of a feed have an id in common.
HasPost(posts, id) == \E i \in DOMAIN posts : posts[i].id = id
Without(posts, id) ==
  IF HasPost(posts, id) THEN RemoveAt(posts, CHOOSE i \in DOMAIN posts : posts[i].id = id)
  ELSE posts

Put(posts, post) ==
  IF PutRevives \/ HasPost(posts, post.id) THEN <<post>> \o Without(posts, post.id) ELSE posts

\* DecryptKey finds the sentinel only with the key the post was encrypted with.
OpensWith(phrase, key) == phrase = key

\* The map of the configuration post has one value for a key.
PushBackConfigValue(entries, key, value) ==
  {e \in entries : e.key # key} \cup {[type |-> RootDir, key |-> key, value |-> value]}

(***************************************************************************)
(* The beginnings; every one reads running_ and copies the access token    *)
(***************************************************************************)
Begin(d, j) ==
  /\ job[d] = Idle /\ MapThenSumSet(LAMBDA e : ops[e], Devices) < MaxOps
  /\ ops' = [ops EXCEPT ![d] = @ + 1]
  /\ job' = [job EXCEPT ![d] = j]
  /\ disturbed' = (disturbed \/ \E e \in Devices \ {d} : job[e] # Idle)
  /\ UNCHANGED <<server, device, told, failures, registered>>

RegisterPassphrase(d, p) ==
  Begin(d, [Idle EXCEPT !.op = "register", !.at = "count", !.phrase = p, !.new = p,
                        !.mk = <<d, ops[d] + 1>>])

EnterPassphrase(d, p) == Begin(d, [Idle EXCEPT !.op = "enter", !.at = "enter", !.phrase = p])

ChangePassphrase(d, old, new) ==
  Begin(d, [Idle EXCEPT !.op = "change", !.at = "open", !.phrase = old, !.new = new])

EnterRecoveryKey(d, r) ==
  Begin(d, [Idle EXCEPT !.op = "recover", !.at = "open", !.phrase = r, !.new = <<d, ops[d] + 1>>])

(***************************************************************************)
(* class Passphrase                                                        *)
(***************************************************************************)
\* The newest credentials post opens for the old passphrase or the recovery key.
Open(d, o) ==
  LET c == Head(creds) IN
  /\ Ask(d, "open", o)
  /\ IF /\ o = "ok" /\ creds # <<>>
        /\ OpensWith(job[d].phrase, IF job[d].op = "change" THEN c.phrase ELSE c.recovery)
     THEN job' = [job EXCEPT ![d] = [@ EXCEPT !.at = "count", !.mk = c.mk]]
     ELSE End(d)
  /\ UNCHANGED <<server, device, told, registered>>

\* GetPostCount answers -1 when it has no 200 answer, which is not more than 0.
GetCredentialsPostCount(d, o) ==
  LET some == o = "ok" /\ creds # <<>> IN
  /\ Ask(d, "count", o)
  /\ IF some /\ job[d].op = "register" THEN End(d) ELSE Go(d, IF some THEN "fetch" ELSE "push")
  /\ UNCHANGED <<server, device, told, registered>>

RetrieveCredentialsPost(d, o) ==
  /\ Ask(d, "fetch", o)
  /\ IF o = "ok" /\ creds # <<>>
     THEN job' = [job EXCEPT ![d] = [@ EXCEPT !.at = "delete", !.post = Head(creds).id]]
     ELSE End(d)
  /\ UNCHANGED <<server, device, told, registered>>

\* The result is overwritten by ConstructMasterKey's: the job goes on.
DeleteCredentialsPost(d, o) ==
  /\ Ask(d, "delete", o)
  /\ creds' = IF Done(o) THEN Without(creds, job[d].post) ELSE creds
  /\ Go(d, "push")
  /\ UNCHANGED <<publics, privates, configs, folders, device, told, registered>>

NewCredentials(d) ==
  [id |-> IF job[d].post = None THEN Stamp(d) ELSE job[d].post,
   phrase |-> job[d].new, recovery |-> RecoveryStamp(d), mk |-> job[d].mk]

\* A wrong variant: the replaced post is deleted after the new version is stored.
PushAtticCredentials_ThenDelete(d, o) ==
  /\ Ask(d, "push", o)
  /\ creds' = IF ~Done(o) THEN creds
              ELSE Without(Put(creds, NewCredentials(d)), job[d].post)
  /\ told' = told \cup {IF job[d].op = "recover" THEN job[d].new ELSE RecoveryStamp(d)}
  /\ registered' = IF job[d].op = "register" THEN registered + 1 ELSE registered
  /\ IF job[d].op = "register" THEN Go(d, "enter") ELSE End(d)
  /\ UNCHANGED <<publics, privates, configs, folders, device>>

\* A wrong variant: a changed passphrase comes with a new master key.
PushAtticCredentials_NewKey(d, o) ==
  /\ Ask(d, "push", o)
  /\ creds' = IF Done(o) THEN Put(creds, [NewCredentials(d) EXCEPT !.mk = Stamp(d)]) ELSE creds
  /\ told' = told \cup {IF job[d].op = "recover" THEN job[d].new ELSE RecoveryStamp(d)}
  /\ registered' = IF job[d].op = "register" THEN registered + 1 ELSE registered
  /\ IF job[d].op = "register" THEN Go(d, "enter") ELSE End(d)
  /\ UNCHANGED <<publics, privates, configs, folders, device>>

\* POST, or PUT with the version of the replaced post for a parent.  The result
\* is not looked at: the user is told the recovery key (or, after a recovery,
\* the temporary passphrase; the new recovery key is told to nobody).
PushAtticCredentials(d, o) ==
  /\ Ask(d, "push", o)
  /\ creds' = IF ~Done(o) THEN creds
              ELSE IF job[d].post = None THEN <<NewCredentials(d)>> \o creds
              ELSE Put(creds, NewCredentials(d))
  /\ told' = told \cup {IF job[d].op = "recover" THEN job[d].new ELSE RecoveryStamp(d)}
  /\ registered' = IF job[d].op = "register" THEN registered + 1 ELSE registered
  /\ IF job[d].op = "register" THEN Go(d, "enter") ELSE End(d)
  /\ UNCHANGED <<publics, privates, configs, folders, device>>

(***************************************************************************)
(* AtticService::EnterPassphrase                                           *)
(***************************************************************************)
\* After a failed entering a registration still makes and registers keys.
Unopened(d) ==
  IF job[d].op = "register"
  THEN Go(d, "anyPublic") /\ pair' = [pair EXCEPT ![d] = Stamp(d)]
  ELSE End(d) /\ UNCHANGED pair

Enter(d, o) ==
  /\ Ask(d, "enter", o)
  /\ IF o = "ok" /\ creds # <<>> /\ OpensWith(job[d].phrase, Head(creds).phrase)
     THEN /\ held' = [held EXCEPT ![d] = Head(creds).mk]
          /\ Go(d, "config") /\ UNCHANGED pair
     ELSE Unopened(d) /\ UNCHANGED held
  /\ UNCHANGED <<server, table, rows, roots, entered, told, registered>>

\* RetrieveConfigPost: TRUE and the newest post, or FALSE and what there was.
Retrieved(o) == o = "ok" /\ configs # <<>>

RetrieveConfigPost(d, at, o, found, missing) ==
  /\ Ask(d, at, o)
  /\ IF Retrieved(o)
     THEN job' = [job EXCEPT ![d] = [@ EXCEPT !.at = found, !.copy = Head(configs)]]
     ELSE Go(d, missing)
  /\ UNCHANGED <<server, device, told, registered>>

CreateConfigPost(d, o) ==
  /\ Ask(d, "create", o)
  /\ configs' = IF Done(o) THEN <<[id |-> Stamp(d), entries |-> {}]>> \o configs ELSE configs
  /\ Go(d, IF o = "ok" THEN "reread" ELSE "load")
  /\ UNCHANGED <<creds, publics, privates, folders, device, told, registered>>

\* LoadConfigPost, then LoadIntoFirstDirectory: the first root of all is mapped to
\* the working directory, mapped or not; with no root one is created.
Load(d) ==
  LET t == LoadConfigPost(table[d], job[d].copy.entries)
      first == FirstOfType(t, RootDir)
  IN  /\ job[d].at = "load"
      /\ IF RetrieveConfigType(t, RootDir) # {}
         THEN /\ table' = [table EXCEPT ![d] = LinkWorkingDirectory(t, first.key, Dir)]
              /\ rows' = [rows EXCEPT ![d] = @ \cup {first.value}]
              /\ Go(d, "pair")
         ELSE /\ table' = [table EXCEPT ![d] = t]
              /\ Go(d, IF IsStateInManifest(t, Dir) THEN "pair" ELSE "folder")
              /\ UNCHANGED rows
      /\ UNCHANGED <<server, held, pair, roots, entered, told, counts>>

\* CreateWorkingDirectory: a folder post under a random alias, its rows, and the
\* entry of the configuration post.
CreateFolderPost(d, a, o) ==
  /\ Ask(d, "folder", o)
  /\ a \notin folders
  /\ folders' = IF Done(o) THEN folders \cup {a} ELSE folders
  /\ IF o = "ok"
     THEN /\ table' = [table EXCEPT ![d] = AddWorkingDirectory(@, a, Dir, a)]
          /\ rows' = [rows EXCEPT ![d] = @ \cup {a}]
          /\ job' = [job EXCEPT ![d] = [@ EXCEPT !.at = "getroot", !.alias = a]]
     ELSE Go(d, "pair") /\ UNCHANGED <<table, rows>>
  /\ UNCHANGED <<creds, publics, privates, configs, held, pair, roots, entered, told, registered>>

\* A wrong variant: the entry takes the place of the others.
AddRootDirToConfigPost_Alone(d, o) ==
  LET alone == PushBackConfigValue({}, job[d].alias, job[d].alias) IN
  /\ Ask(d, "putroot", o)
  /\ configs' = IF Done(o) THEN Put(configs, [job[d].copy EXCEPT !.entries = alone]) ELSE configs
  /\ Go(d, "pair")
  /\ UNCHANGED <<creds, publics, privates, folders, device, told, registered>>

\* A wrong variant: the configuration post is sent back as it was read.
AddRootDirToConfigPost_Unchanged(d, o) ==
  /\ Ask(d, "putroot", o)
  /\ configs' = IF Done(o) THEN Put(configs, job[d].copy) ELSE configs
  /\ Go(d, "pair")
  /\ UNCHANGED <<creds, publics, privates, folders, device, told, registered>>

\* The copy that was read, with the entry added, replaces the post; nobody looks
\* at the result.
AddRootDirToConfigPost(d, o) ==
  LET a == job[d].alias
      changed == [job[d].copy EXCEPT !.entries = PushBackConfigValue(@, a, a)]
  IN
  /\ Ask(d, "putroot", o)
  /\ configs' = IF Done(o) THEN Put(configs, changed) ELSE configs
  /\ Go(d, "pair")
  /\ UNCHANGED <<creds, publics, privates, folders, device, told, registered>>

\* LoadWorkingDirectories, then the key pair, kept even if none was read.  The
\* library notes the passphrase as entered (here, before the keys of a
\* registration) when the status is A_OK; it is not after a folder post that
\* failed.  A registration goes on with a pair of its own.
RetrievePublicPrivateKeyPair(d, o) ==
  LET linked == IsStateInManifest(table[d], Dir) IN
  /\ Ask(d, "pair", o)
  /\ roots' = [roots EXCEPT ![d] = LoadWorkingDirectories(table[d])]
  /\ entered' = [entered EXCEPT ![d] = @ \/ linked]
  /\ IF job[d].op = "register"
     THEN Go(d, "anyPublic") /\ pair' = [pair EXCEPT ![d] = Stamp(d)]
     ELSE /\ End(d)
          /\ pair' = [pair EXCEPT
               ![d] = IF o = "ok" /\ privates # <<>> THEN Head(privates) ELSE None]
  /\ UNCHANGED <<server, held, table, rows, told, registered>>

\* A key is posted only when the count is 0; no answer gives -1, which is not.
GetKeyPostCount(d, at, posts, o, post, next) ==
  /\ Ask(d, at, o)
  /\ IF o = "ok" /\ posts = <<>> THEN Go(d, post)
     ELSE IF next = "idle" THEN End(d) ELSE Go(d, next)
  /\ UNCHANGED <<server, device, told, registered>>

RegisterPublicKey(d, o) ==
  /\ Ask(d, "public", o)
  /\ publics' = IF Done(o) THEN <<Stamp(d)>> \o publics ELSE publics
  /\ Go(d, "anyPrivate")
  /\ UNCHANGED <<creds, privates, configs, folders, device, told, registered>>

\* A wrong variant: a pair of its own is made for the private key.
RegisterPrivateKey_Own(d, o) ==
  /\ Ask(d, "private", o)
  /\ privates' = IF Done(o) THEN <<<<d, 0>>>> \o privates ELSE privates
  /\ End(d)
  /\ UNCHANGED <<creds, publics, configs, folders, device, told, registered>>

RegisterPrivateKey(d, o) ==
  /\ Ask(d, "private", o)
  /\ privates' = IF Done(o) THEN <<Stamp(d)>> \o privates ELSE privates
  /\ End(d)
  /\ UNCHANGED <<creds, publics, configs, folders, device, told, registered>>

Start(d) ==
  \/ \E p \in Phrases : RegisterPassphrase(d, p)
  \/ \E p \in Phrases \cup told : EnterPassphrase(d, p)
  \/ \E p \in Phrases \cup told, q \in Phrases : ChangePassphrase(d, p, q)
  \/ \E r \in told : EnterRecoveryKey(d, r)

Credentials(d) ==
  \/ \E o \in Reads :
       Open(d, o) \/ GetCredentialsPostCount(d, o) \/ RetrieveCredentialsPost(d, o) \/ Enter(d, o)
  \/ \E o \in Outcomes : DeleteCredentialsPost(d, o) \/ PushAtticCredentials(d, o)

Configure(d) ==
  \/ \E o \in Reads :
       \/ RetrieveConfigPost(d, "config", o, "load", "recheck")
       \/ RetrieveConfigPost(d, "recheck", o, "load", "create")
       \/ RetrieveConfigPost(d, "reread", o, "load", "load")
       \/ RetrieveConfigPost(d, "getroot", o, "putroot", "pair")
  \/ \E o \in Outcomes :
       \/ CreateConfigPost(d, o) \/ AddRootDirToConfigPost(d, o)
       \/ \E a \in Aliases : CreateFolderPost(d, a, o)
  \/ Load(d)

Keys(d) ==
  \/ \E o \in Reads :
       \/ RetrievePublicPrivateKeyPair(d, o)
       \/ GetKeyPostCount(d, "anyPublic", publics, o, "public", "anyPrivate")
       \/ GetKeyPostCount(d, "anyPrivate", privates, o, "private", "idle")
  \/ \E o \in Outcomes : RegisterPublicKey(d, o) \/ RegisterPrivateKey(d, o)

Next == \E d \in Devices : Start(d) \/ Credentials(d) \/ Configure(d) \/ Keys(d)

Spec == Init /\ [][Next]_vars

(***************************************************************************)
(* Properties                                                              *)
(***************************************************************************)
\* One registration, one master key: whatever passphrases and recovery keys do,
\* also when requests fail and devices overlap (passphrase.cpp:173, 207).
OneMasterKey ==
  LET kept == {creds[i].mk : i \in DOMAIN creds}
              \cup {held[d] : d \in {d \in Devices : held[d] # None}}
  IN  registered <= 1 => Cardinality(kept) <= 1

\* Without failed requests the credentials stay on the server, except between
\* the DELETE and the PUT of a change (passphrase.cpp:36, 56).
CredentialsKept ==
  registered > 0 /\ failures = 0 =>
    creds # <<>> \/ \E d \in Devices : job[d].at = "push" /\ job[d].post # None

\* The roots in the newest configuration post are lost only to a device that read
\* another version of it (confighandler.cpp:205, read, add, PUT).
RootsKept ==
  [][configs # <<>> /\ configs'[1] # configs[1] =>
       \/ configs[1].entries \subseteq configs'[1].entries
       \/ \E d \in Devices : job[d].at \in {"create", "putroot"} /\ job[d].copy # configs[1]]_vars

Mapped(d) == {r.key : r \in {r \in table[d] : r.state = Dir}}

\* Devices that enter one after another, without failures, work in one root.
SharedDirectory ==
  ~disturbed => \A d, e \in Devices : Mapped(d) = {} \/ Mapped(e) = {} \/ Mapped(d) = Mapped(e)

\* One after another, without failures, the devices hold the key pair the server
\* has, the private key that belongs to the public one (passphrase.cpp:67).
KeysPaired ==
  ~disturbed /\ (\A d \in Devices : job[d] = Idle) =>
    /\ publics = privates /\ Len(privates) <= 1
    /\ \A d \in Devices : held[d] # None => privates # <<>> /\ pair[d] = Head(privates)
=============================================================================
