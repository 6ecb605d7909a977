---------------------------- MODULE AccountProofs ----------------------------
(***************************************************************************)
(* Proofs about Account.  The invariant of every proof is IInv: the types, *)
(* and what an operation has by the request it is about to make.  A lemma  *)
(* for each action says what the step does and that it keeps IInv; the     *)
(* properties are then proved from those lemmas, without the actions'      *)
(* definitions:                                                            *)
(*   OneKey  no key but the registered one is in the credentials, in the   *)
(*           devices' memory or under way in a change or a recovery;       *)
(*   Paired  what publics, privates and pair are at every request of the   *)
(*           only operation there is, if nothing was disturbed;            *)
(*   OneRoot what the newest configuration post and the tables are then.   *)
(***************************************************************************)
EXTENDS Account, FiniteSetTheorems, SequenceTheorems, WellFoundedInduction, TLAPS

(***************************************************************************)
(* The state every proof needs                                             *)
(***************************************************************************)
Entry(a) == [type |-> RootDir, key |-> a, value |-> a]

\* What an operation has when it is about to make a request: the new credentials
\* from its beginning, the master key once the newest credentials were opened,
\* and the post it replaces once that was fetched.
Credentialed(j) ==
  /\ j.op = "none" => j.at = "idle"
  /\ j.op = "register" =>
       /\ j.at \notin {"open", "fetch", "delete"}
       /\ j.new \in Opens /\ j.phrase = j.new /\ j.mk \in Stamps /\ j.post = None
  /\ j.op \in {"change", "recover"} =>
       /\ j.at \in {"open", "count", "fetch", "delete", "push"} /\ j.new \in Opens
       /\ j.at # "open" => j.mk \in Stamps
       /\ j.at = "delete" => j.post \in Stamps
       /\ j.op = "recover" => j.new \in Stamps
  /\ j.op = "enter" =>
       j.at \in {"enter", "config", "recheck", "create", "reread", "load", "folder",
                 "getroot", "putroot", "pair"}

\* What it has of the configuration post: nothing until it has read the post.
Configured(j) ==
  /\ j.at \in {"open", "count", "fetch", "delete", "push", "enter", "config", "recheck", "create"}
       => j.copy = NoPost
  /\ j.at = "putroot" => j.copy \in ConfigPosts
  /\ j.at \in {"getroot", "putroot"} => j.alias \in Aliases

\* The entries of working directories name the folder post by its alias.
Rooted(entries) == \A e \in entries : e.key = e.value

JobsOK == \A d \in Devices : Credentialed(job[d]) /\ Configured(job[d]) /\ Rooted(job[d].copy.entries)
PostsOK == \A i \in DOMAIN configs : Rooted(configs[i].entries)

IInv == TypeOK /\ JobsOK /\ PostsOK

\* One master key
Opened == {d \in Devices : job[d].op \in {"change", "recover"} /\ job[d].at # "open"}
Kept ==
  {creds[i].mk : i \in DOMAIN creds} \cup {held[d] : d \in {d \in Devices : held[d] # None}}
  \cup {job[d].mk : d \in Opened}
OneKey ==
  /\ registered = 0 => Kept = {}
  /\ registered = 1 => \E k \in Stamps : Kept \subseteq {k}

\* At most one
Alone == \A d, e \in Devices : job[d] # Idle /\ job[e] # Idle => d = e

Fresh == creds = <<>> /\ publics = <<>> /\ privates = <<>> /\ \A e \in Devices : held[e] = None
PairedBut(D, k) ==
  /\ publics = <<k>> /\ privates = <<k>>
  /\ \A e \in Devices \ D : held[e] # None => pair[e] = k
Settled == Fresh \/ (creds # <<>> /\ \E k \in Stamps : PairedBut({}, k))

Registering(d) ==
  \/ job[d].at = "count" /\ Settled
  \/ job[d].at = "push" /\ Fresh
  \/ /\ job[d].at # "count" /\ job[d].at # "push"
     /\ creds # <<>> /\ privates = <<>> /\ \A e \in Devices \ {d} : held[e] = None
     /\ publics = IF job[d].at \in {"anyPrivate", "private"} THEN <<Stamp(d)>> ELSE <<>>
     /\ job[d].at = "enter" => Head(creds).phrase = job[d].phrase /\ held[d] = None
     /\ job[d].at \in {"anyPublic", "public", "anyPrivate", "private"} => pair[d] = Stamp(d)

Undertaking(d) ==
  /\ job[d].op = "register" => Registering(d)
  /\ job[d].op = "enter" =>
       IF job[d].at = "enter" THEN Settled
       ELSE creds # <<>> /\ \E k \in Stamps : PairedBut({d}, k)
  /\ job[d].op \in {"change", "recover"} =>
       CASE job[d].at = "open" -> Settled
         [] job[d].at = "push" -> \E k \in Stamps : PairedBut({}, k)
         [] OTHER -> creds # <<>> /\ \E k \in Stamps : PairedBut({}, k)

Paired ==
  ~disturbed =>
    /\ Alone
    /\ \A d \in Devices : job[d] # Idle => Undertaking(d)
    /\ (\A d \in Devices : job[d] = Idle) => Settled

\* directories
Mapping(a) == {Row(RootDir, a, a, Dir)}
Bare == (configs # <<>> => configs[1].entries = {}) /\ \A e \in Devices : table[e] = {}
Shared(a) ==
  /\ configs # <<>> /\ configs[1].entries = {Entry(a)}
  /\ \A e \in Devices : table[e] \in {{}, Mapping(a)}
Common == Bare \/ \E a \in Aliases : Shared(a)
Making(d) ==
  /\ configs # <<>> /\ configs[1].entries = {}
  /\ \A e \in Devices : table[e] = IF e = d THEN Mapping(job[d].alias) ELSE {}

\* The requests between which a device is apart from the others.
Apart == {"create", "reread", "load", "folder", "getroot", "putroot"}
Configuring(d) ==
  LET at == job[d].at IN
  /\ at \notin Apart => Common
  /\ at = "create" => configs = <<>> /\ Bare
  /\ at \in {"reread", "load", "folder"} => configs # <<>>
  /\ at \in {"reread", "folder"} => Bare
  /\ at = "load" => Common /\ job[d].copy.entries = configs[1].entries
  /\ at \in {"getroot", "putroot"} => Making(d)
  /\ at = "putroot" => job[d].copy = configs[1]

OneRoot ==
  ~disturbed =>
    /\ Alone
    /\ \A d \in Devices : job[d] # Idle => Configuring(d)
    /\ (\A d \in Devices : job[d] = Idle) => Common

(***************************************************************************)
(* What the parts of a step change                                         *)
(***************************************************************************)
ServerType ==
  /\ creds \in Seq(CredPosts) /\ publics \in Seq(Stamps) /\ privates \in Seq(Stamps)
  /\ configs \in Seq(ConfigPosts) /\ folders \subseteq Aliases
DeviceType ==
  /\ held \in [Devices -> Stamps \cup {None}] /\ pair \in [Devices -> Stamps \cup {None}]
  /\ table \in [Devices -> SUBSET ConfigRows] /\ rows \in [Devices -> SUBSET Aliases]
  /\ roots \in [Devices -> UNION {[A -> {"", Dir}] : A \in SUBSET Aliases}]
  /\ entered \in [Devices -> BOOLEAN] /\ told \subseteq Stamps
JobsType == job \in [Devices -> Jobs] /\ \A d \in Devices : job[d].at = "idle" <=> job[d] = Idle
CountsType ==
  /\ ops \in [Devices -> Nat] /\ failures \in 0 .. MaxFailures
  /\ registered \in Nat /\ disturbed \in BOOLEAN

LEMMA Types ==
  /\ TypeOK => ServerType /\ DeviceType /\ JobsType /\ CountsType
  /\ ServerType' /\ DeviceType' /\ JobsType' /\ CountsType' => TypeOK'
  BY DEF TypeOK, ServerType, DeviceType, JobsType, CountsType

LEMMA TypesKept ==
  /\ ServerType /\ UNCHANGED server => ServerType'
  /\ DeviceType /\ UNCHANGED <<device, told>> => DeviceType'
  /\ UNCHANGED server => UNCHANGED configs
  /\ PostsOK /\ UNCHANGED configs => PostsOK'
  BY DEF ServerType, DeviceType, PostsOK, server, device

LEMMA StampType == ASSUME TypeOK, NEW d \in Devices
                   PROVE  /\ Stamp(d) \in Stamps /\ RecoveryStamp(d) \in Stamps
                          /\ None \notin Stamps /\ <<d, ops[d] + 1>> \in Stamps
  <1>1. ops[d] \in Nat
    BY DEF TypeOK
  <1>2. ops[d] \in Int /\ -ops[d] \in Int /\ ops[d] + 1 \in Int
    BY <1>1
  <1> QED BY <1>2, ConstantsAssumption DEF Stamp, RecoveryStamp, Stamps

LEMMA AskIs ==
    ASSUME TypeOK, NEW d \in Devices, NEW o \in Outcomes, NEW at, Ask(d, at, o)
    PROVE  /\ failures' \in 0 .. MaxFailures /\ disturbed' \in BOOLEAN /\ ops' = ops
           /\ job[d].at = at
           /\ ~disturbed' => ~disturbed /\ o = "ok"
           /\ failures' = 0 => failures = 0 /\ o = "ok"
  <1>1. failures \in 0 .. MaxFailures /\ MaxFailures \in Nat /\ disturbed \in BOOLEAN
    BY ConstantsAssumption DEF TypeOK
  <1>2. o # "ok" => failures < MaxFailures
    BY DEF Outcomes
  <1>3. /\ failures' \in 0 .. MaxFailures /\ ops' = ops /\ job[d].at = at
        /\ failures' = 0 => failures = 0 /\ o = "ok"
    BY <1>1, <1>2 DEF Ask
  <1>4. disturbed' = (disturbed \/ o # "ok")
    BY DEF Ask
  <1>5. disturbed' \in BOOLEAN /\ (~disturbed' => ~disturbed /\ o = "ok")
    BY <1>1, <1>4, Zenon
  <1> QED BY <1>3, <1>5

Proper(j) == Credentialed(j) /\ Configured(j) /\ Rooted(j.copy.entries)

LEMMA JobStep ==
    ASSUME JobsType, JobsOK, NEW d \in Devices, NEW j \in Jobs, Proper(j),
           j.at = "idle" <=> j = Idle, job' = [job EXCEPT ![d] = j]
    PROVE  JobsType' /\ JobsOK' /\ job'[d] = j /\ \A e \in Devices : e # d => job'[e] = job[e]
  <1>1. job'[d] = j /\ \A e \in Devices : e # d => job'[e] = job[e]
    BY DEF JobsType
  <1>2. job' \in [Devices -> Jobs]
    BY DEF JobsType
  <1> QED BY <1>1, <1>2 DEF JobsType, JobsOK, Proper

LEMMA IdleProper == Idle \in Jobs /\ Proper(Idle) /\ Idle.at = "idle" /\ Idle.op = "none"
  BY DEF Idle, Jobs, Proper, Credentialed, Configured, Rooted, NoPost

LEMMA EndIs ==
    ASSUME JobsType, JobsOK, NEW d \in Devices, End(d)
    PROVE  JobsType' /\ JobsOK' /\ job'[d] = Idle /\ \A e \in Devices : e # d => job'[e] = job[e]
  BY JobStep, IdleProper DEF End

\* The job of a device that goes on to another request.
LEMMA AtChanged ==
    ASSUME NEW j \in Jobs, NEW at \in Requests
    PROVE  LET k == [j EXCEPT !.at = at] IN
           /\ k \in Jobs /\ k.at = at /\ k.op = j.op /\ k.phrase = j.phrase /\ k.new = j.new
           /\ k.mk = j.mk /\ k.post = j.post /\ k.copy = j.copy /\ k.alias = j.alias
           /\ k # Idle /\ k.at # "idle"
  BY DEF Jobs, Requests, Idle

LEMMA GoIs ==
    ASSUME JobsType, JobsOK, NEW d \in Devices, NEW at \in Requests, Go(d, at),
           Proper([job[d] EXCEPT !.at = at])
    PROVE  JobsType' /\ JobsOK' /\ job'[d] = [job[d] EXCEPT !.at = at]
           /\ \A e \in Devices : e # d => job'[e] = job[e]
  <1>1. job[d] \in Jobs
    BY DEF JobsType
  <1> QED BY <1>1, AtChanged, JobStep DEF Go

(***************************************************************************)
(* Feeds                                                                   *)
(***************************************************************************)
LEMMA WithoutIs ==
    ASSUME NEW S, NEW posts \in Seq(S), NEW id
    PROVE  /\ Without(posts, id) \in Seq(S)
           /\ \A i \in DOMAIN Without(posts, id) :
                \E k \in DOMAIN posts : Without(posts, id)[i] = posts[k]
  <1>1. CASE ~HasPost(posts, id)
    BY <1>1 DEF Without
  <1>2. CASE HasPost(posts, id)
    <2> DEFINE n == CHOOSE i \in DOMAIN posts : posts[i].id = id
               front == SubSeq(posts, 1, n - 1)
               back == SubSeq(posts, n + 1, Len(posts))
    <2>1. n \in 1 .. Len(posts) /\ Len(posts) \in Nat
      BY <1>2, LenProperties DEF HasPost
    <2>2. Without(posts, id) = front \o back
      BY <1>2 DEF Without, RemoveAt
    <2> HIDE DEF n
    <2>3. \A i \in 1 .. Len(posts) : posts[i] \in S
      BY ElementOfSeq
    <2>4. /\ front \in Seq(S) /\ Len(front) = n - 1
          /\ \A i \in 1 .. n - 1 : front[i] = posts[i]
      BY <2>1, <2>3, SubSeqProperties
    <2>5. /\ back \in Seq(S) /\ Len(back) = Len(posts) - n
          /\ \A i \in 1 .. Len(posts) - n : back[i] = posts[i + n]
      BY <2>1, <2>3, SubSeqProperties
    <2> HIDE DEF front, back
    <2>6. /\ front \o back \in Seq(S) /\ Len(front \o back) = Len(front) + Len(back)
          /\ \A i \in 1 .. Len(front) + Len(back) : (front \o back)[i] =
                IF i <= Len(front) THEN front[i] ELSE back[i - Len(front)]
      BY <2>4, <2>5, ConcatProperties
    <2>7. DOMAIN (front \o back) = 1 .. Len(posts) - 1 /\ DOMAIN posts = 1 .. Len(posts)
      BY <2>1, <2>4, <2>5, <2>6, LenProperties
    <2>8. ASSUME NEW i \in 1 .. Len(posts) - 1
          PROVE  \E k \in 1 .. Len(posts) : (front \o back)[i] = posts[k]
      <3>1. CASE i <= n - 1
        BY <3>1, <2>1, <2>4, <2>5, <2>6
      <3>2. CASE ~(i <= n - 1)
        <4>1. i \in 1 .. Len(front) + Len(back) /\ ~(i <= Len(front))
          BY <3>2, <2>1, <2>4, <2>5
        <4>2. (front \o back)[i] = back[i - (n - 1)]
          BY <4>1, <2>4, <2>6
        <4>3. i - (n - 1) \in 1 .. Len(posts) - n /\ i - (n - 1) + n = i + 1
          BY <3>2, <2>1
        <4>4. (front \o back)[i] = posts[i + 1]
          BY <4>2, <4>3, <2>5
        <4> QED BY <4>4, <2>1
      <3> QED BY <3>1, <3>2
    <2> QED BY <2>2, <2>6, <2>7, <2>8
  <1> QED BY <1>1, <1>2

LEMMA NewestIs ==
    ASSUME NEW S, NEW posts \in Seq(S), posts # <<>>
    PROVE  Head(posts) \in S /\ Head(posts) = posts[1] /\ 1 \in DOMAIN posts
  BY HeadTailProperties, EmptySeq, LenProperties

LEMMA Prepended ==
    ASSUME NEW S, NEW posts \in Seq(S), NEW post \in S
    PROVE  /\ <<post>> \o posts \in Seq(S) /\ <<post>> \o posts # <<>>
           /\ Len(<<post>> \o posts) = Len(posts) + 1
           /\ (<<post>> \o posts)[1] = post /\ Head(<<post>> \o posts) = post
           /\ \A i \in DOMAIN (<<post>> \o posts) :
                (<<post>> \o posts)[i] = post \/ \E k \in DOMAIN posts : (<<post>> \o posts)[i] = posts[k]
  <1>1. <<post>> \in Seq(S) /\ Len(<<post>>) = 1 /\ <<post>>[1] = post
    OBVIOUS
  <1> DEFINE all == <<post>> \o posts
  <1>2. /\ all \in Seq(S) /\ Len(all) = 1 + Len(posts)
        /\ \A i \in 1 .. 1 + Len(posts) : all[i] = IF i <= 1 THEN <<post>>[i] ELSE posts[i - 1]
    BY <1>1, ConcatProperties
  <1>3. Len(posts) \in Nat /\ DOMAIN posts = 1 .. Len(posts) /\ DOMAIN all = 1 .. 1 + Len(posts)
    BY <1>2, LenProperties
  <1> HIDE DEF all
  <1>4. all # <<>> /\ all[1] = post
    BY <1>1, <1>2, <1>3, EmptySeq
  <1>5. Head(all) = post
    BY <1>2, <1>4
  <1>6. ASSUME NEW i \in DOMAIN all
        PROVE  all[i] = post \/ \E k \in DOMAIN posts : all[i] = posts[k]
    <2>1. CASE i = 1
      BY <1>4, <2>1
    <2>2. CASE i # 1
      BY <1>2, <1>3, <2>2
    <2> QED BY <2>1, <2>2
  <1> QED BY <1>2, <1>3, <1>4, <1>5, <1>6 DEF all

LEMMA PutIs ==
    ASSUME NEW S, NEW posts \in Seq(S), NEW post \in S
    PROVE  /\ Put(posts, post) \in Seq(S)
           /\ \A i \in DOMAIN Put(posts, post) :
                \/ Put(posts, post)[i] = post
                \/ \E k \in DOMAIN posts : Put(posts, post)[i] = posts[k]
           /\ PutRevives \/ HasPost(posts, post.id) =>
                /\ Put(posts, post) # <<>> /\ Put(posts, post)[1] = post
                /\ Head(Put(posts, post)) = post
           /\ ~(PutRevives \/ HasPost(posts, post.id)) => Put(posts, post) = posts
  <1>1. CASE PutRevives \/ HasPost(posts, post.id)
    <2> DEFINE rest == Without(posts, post.id)
    <2>1. rest \in Seq(S) /\ \A i \in DOMAIN rest : \E k \in DOMAIN posts : rest[i] = posts[k]
      BY WithoutIs
    <2>2. Put(posts, post) = <<post>> \o rest
      BY <1>1 DEF Put
    <2> HIDE DEF rest
    <2> QED BY <1>1, <2>1, <2>2, Prepended
  <1>2. CASE ~(PutRevives \/ HasPost(posts, post.id))
    BY <1>2 DEF Put
  <1> QED BY <1>1, <1>2

(***************************************************************************)
(* Every step keeps the types and what the operations have                 *)
(***************************************************************************)
LEMMA BeginIs ==
    ASSUME IInv, NEW d \in Devices, NEW j \in Jobs, Proper(j), j.at # "idle", Begin(d, j)
    PROVE  /\ IInv' /\ job[d] = Idle /\ job'[d] = j
           /\ \A e \in Devices : e # d => job'[e] = job[e]
           /\ UNCHANGED <<server, device, told, failures, registered>>
           /\ ~disturbed' => ~disturbed /\ \A e \in Devices \ {d} : job[e] = Idle
  <1> USE DEF IInv
  <1>1. /\ job[d] = Idle /\ job' = [job EXCEPT ![d] = j] /\ ops' = [ops EXCEPT ![d] = @ + 1]
        /\ disturbed' = (disturbed \/ \E e \in Devices \ {d} : job[e] # Idle)
        /\ UNCHANGED <<server, device, told, failures, registered>>
    BY DEF Begin
  <1>2. JobsType /\ j # Idle
    BY IdleProper DEF TypeOK, JobsType
  <1>3. /\ JobsType' /\ JobsOK' /\ job'[d] = j
        /\ \A e \in Devices : e # d => job'[e] = job[e]
    BY <1>1, <1>2, JobStep
  <1>4. disturbed' \in BOOLEAN /\ (~disturbed' => ~disturbed /\ \A e \in Devices \ {d} : job[e] = Idle)
    BY <1>1, Zenon
  <1>5. ops' \in [Devices -> Nat]
    BY <1>1, Types DEF CountsType
  <1>6. TypeOK' /\ PostsOK'
    <2>1. CountsType'
      BY <1>1, <1>4, <1>5, Types DEF CountsType
    <2>2. ServerType' /\ DeviceType' /\ PostsOK'
      BY <1>1, Types, TypesKept
    <2> QED BY <1>3, <2>1, <2>2, Types
  <1> QED BY <1>1, <1>3, <1>4, <1>6

\* The request every operation begins with.
FirstRequests ==
  {<<"register", "count">>, <<"enter", "enter">>, <<"change", "open">>, <<"recover", "open">>}

LEMMA StartIs ==
    ASSUME IInv, NEW d \in Devices, Start(d)
    PROVE  \E j \in Jobs :
             /\ Begin(d, j) /\ Proper(j) /\ j.at # "idle"
             /\ <<j.op, j.at>> \in FirstRequests
  <1> USE DEF IInv
  <1>1. told \subseteq Stamps
    BY DEF TypeOK
  <1>2. ASSUME NEW p \in Phrases, RegisterPassphrase(d, p)
        PROVE  \E j \in Jobs :
             /\ Begin(d, j) /\ Proper(j) /\ j.at # "idle"
             /\ <<j.op, j.at>> \in FirstRequests
    <2> DEFINE j == [Idle EXCEPT !.op = "register", !.at = "count", !.phrase = p, !.new = p,
                        !.mk = <<d, ops[d] + 1>>]
    <2>1. j \in Jobs
      BY StampType DEF Jobs, Idle, Opens, Requests
    <2>2. Proper(j)
      BY StampType DEF Idle, Opens, Requests, Proper, Credentialed, Configured, NoPost, Rooted
    <2>3. Begin(d, j)
      BY <1>2 DEF RegisterPassphrase
    <2>4. j.op = "register" /\ j.at = "count"
      BY DEF Idle
    <2> HIDE DEF j
    <2> QED BY <2>1, <2>2, <2>3, <2>4 DEF FirstRequests
  <1>3. ASSUME NEW p \in Phrases \cup told, EnterPassphrase(d, p)
        PROVE  \E j \in Jobs :
             /\ Begin(d, j) /\ Proper(j) /\ j.at # "idle"
             /\ <<j.op, j.at>> \in FirstRequests
    <2> DEFINE j == [Idle EXCEPT !.op = "enter", !.at = "enter", !.phrase = p]
    <2>1. j \in Jobs
      BY <1>1 DEF Jobs, Idle, Opens, Requests
    <2>2. Proper(j)
      BY DEF Idle, Proper, Credentialed, Configured, NoPost, Rooted
    <2>3. Begin(d, j)
      BY <1>3 DEF EnterPassphrase
    <2>4. j.op = "enter" /\ j.at = "enter"
      BY DEF Idle
    <2> HIDE DEF j
    <2> QED BY <2>1, <2>2, <2>3, <2>4 DEF FirstRequests
  <1>4. ASSUME NEW p \in Phrases \cup told, NEW q \in Phrases, ChangePassphrase(d, p, q)
        PROVE  \E j \in Jobs :
             /\ Begin(d, j) /\ Proper(j) /\ j.at # "idle"
             /\ <<j.op, j.at>> \in FirstRequests
    <2> DEFINE j == [Idle EXCEPT !.op = "change", !.at = "open", !.phrase = p, !.new = q]
    <2>1. j \in Jobs
      BY <1>1 DEF Jobs, Idle, Opens, Requests
    <2>2. Proper(j)
      BY DEF Idle, Opens, Proper, Credentialed, Configured, NoPost, Rooted
    <2>3. Begin(d, j)
      BY <1>4 DEF ChangePassphrase
    <2>4. j.op = "change" /\ j.at = "open"
      BY DEF Idle
    <2> HIDE DEF j
    <2> QED BY <2>1, <2>2, <2>3, <2>4 DEF FirstRequests
  <1>5. ASSUME NEW r \in told, EnterRecoveryKey(d, r)
        PROVE  \E j \in Jobs :
             /\ Begin(d, j) /\ Proper(j) /\ j.at # "idle"
             /\ <<j.op, j.at>> \in FirstRequests
    <2> DEFINE j == [Idle EXCEPT !.op = "recover", !.at = "open", !.phrase = r,
                        !.new = <<d, ops[d] + 1>>]
    <2>1. j \in Jobs
      BY <1>1, StampType DEF Jobs, Idle, Opens, Requests
    <2>2. Proper(j)
      BY StampType DEF Idle, Opens, Proper, Credentialed, Configured, NoPost, Rooted
    <2>3. Begin(d, j)
      BY <1>5 DEF EnterRecoveryKey
    <2>4. j.op = "recover" /\ j.at = "open"
      BY DEF Idle
    <2> HIDE DEF j
    <2> QED BY <2>1, <2>2, <2>3, <2>4 DEF FirstRequests
  <1> QED BY <1>2, <1>3, <1>4, <1>5 DEF Start

Others(d) == \A e \in Devices : e # d => job'[e] = job[e]

\* A request of d, in place of no other device's.
Asked(d, at, o) ==
  /\ job[d].at = at /\ Others(d) /\ ops' = ops
  /\ ~disturbed' => ~disturbed /\ o = "ok"
  /\ failures' = 0 => failures = 0 /\ o = "ok"

LEMMA RequestIs ==
    ASSUME IInv, NEW d \in Devices, NEW o \in Outcomes, NEW at, Ask(d, at, o),
           ServerType', PostsOK', DeviceType', registered' \in Nat, JobsType', JobsOK', Others(d)
    PROVE  IInv' /\ Asked(d, at, o)
  <1>1. CountsType'
    BY AskIs, Types DEF IInv, CountsType
  <1>2. Asked(d, at, o)
    BY AskIs DEF IInv, Asked
  <1> QED BY <1>1, <1>2, Types DEF IInv

LEMMA Before ==
    ASSUME IInv, NEW d \in Devices
    PROVE  /\ ServerType /\ DeviceType /\ JobsType /\ registered \in Nat /\ JobsOK /\ PostsOK
           /\ job[d] \in Jobs /\ Proper(job[d])
  BY Types DEF IInv, CountsType, JobsType, JobsOK, Proper

LEMMA NewestCredentials ==
    ASSUME IInv, creds # <<>>
    PROVE  Head(creds) \in CredPosts /\ Head(creds) = creds[1] /\ 1 \in DOMAIN creds
           /\ Head(creds).mk \in Stamps /\ Head(creds).id \in Stamps
  <1>1. creds \in Seq(CredPosts)
    BY Types DEF IInv, ServerType
  <1>2. Head(creds) \in CredPosts /\ Head(creds) = creds[1] /\ 1 \in DOMAIN creds
    BY <1>1, NewestIs
  <1> QED BY <1>2 DEF CredPosts

LEMMA OpenIs ==
    ASSUME IInv, NEW d \in Devices, NEW o \in Outcomes, Open(d, o)
    PROVE  /\ IInv' /\ Asked(d, "open", o) /\ UNCHANGED <<server, device, told, registered>>
           /\ \/ job'[d] = Idle
              \/ /\ o = "ok" /\ creds # <<>>
                 /\ job'[d] = [job[d] EXCEPT !.at = "count", !.mk = Head(creds).mk]
  <1>1. /\ Ask(d, "open", o) /\ UNCHANGED <<server, device, told, registered>>
        /\ \/ End(d)
           \/ /\ o = "ok" /\ creds # <<>>
              /\ job' = [job EXCEPT ![d] = [@ EXCEPT !.at = "count", !.mk = Head(creds).mk]]
    BY DEF Open
  <1>2. CASE End(d)
    BY <1>1, <1>2, Before, EndIs, TypesKept, RequestIs DEF Others
  <1>3. CASE /\ o = "ok" /\ creds # <<>>
             /\ job' = [job EXCEPT ![d] = [@ EXCEPT !.at = "count", !.mk = Head(creds).mk]]
    <2> DEFINE j == [job[d] EXCEPT !.at = "count", !.mk = Head(creds).mk]
    <2>1. Head(creds).mk \in Stamps
      BY <1>3, NewestCredentials
    <2>2. job[d] \in Jobs /\ Proper(job[d]) /\ job[d].at = "open"
      BY <1>1, Before DEF Ask
    <2>3. job' = [job EXCEPT ![d] = j]
      BY <1>3
    <2>4. j \in Jobs /\ j.at # "idle" /\ j # Idle /\ Proper(j)
      BY <2>1, <2>2 DEF Jobs, Requests, Idle, Proper, Credentialed, Configured
    <2> HIDE DEF j
    <2>5. JobsType' /\ JobsOK' /\ job'[d] = j /\ Others(d)
      BY <2>3, <2>4, Before, JobStep DEF Others
    <2> QED BY <1>1, <1>3, <2>5, Before, TypesKept, RequestIs DEF j
  <1> QED BY <1>1, <1>2, <1>3

LEMMA CountIs ==
    ASSUME IInv, NEW d \in Devices, NEW o \in Outcomes, GetCredentialsPostCount(d, o)
    PROVE  /\ IInv' /\ Asked(d, "count", o) /\ UNCHANGED <<server, device, told, registered>>
           /\ \/ o = "ok" /\ creds # <<>> /\ job[d].op = "register" /\ job'[d] = Idle
              \/ /\ o = "ok" /\ creds # <<>> /\ job[d].op # "register"
                 /\ job'[d] = [job[d] EXCEPT !.at = "fetch"]
              \/ ~(o = "ok" /\ creds # <<>>) /\ job'[d] = [job[d] EXCEPT !.at = "push"]
  <1>1. /\ Ask(d, "count", o) /\ UNCHANGED <<server, device, told, registered>>
        /\ \/ o = "ok" /\ creds # <<>> /\ job[d].op = "register" /\ End(d)
           \/ o = "ok" /\ creds # <<>> /\ job[d].op # "register" /\ Go(d, "fetch")
           \/ ~(o = "ok" /\ creds # <<>>) /\ Go(d, "push")
    BY DEF GetCredentialsPostCount
  <1>2. job[d] \in Jobs /\ Proper(job[d]) /\ job[d].at = "count"
    BY <1>1, Before DEF Ask
  <1>3. /\ Proper([job[d] EXCEPT !.at = "push"])
        /\ job[d].op # "register" => Proper([job[d] EXCEPT !.at = "fetch"])
    BY <1>2 DEF Jobs, Proper, Credentialed, Configured
  <1>4. /\ JobsType' /\ JobsOK' /\ Others(d)
        /\ \/ o = "ok" /\ creds # <<>> /\ job[d].op = "register" /\ job'[d] = Idle
           \/ /\ o = "ok" /\ creds # <<>> /\ job[d].op # "register"
              /\ job'[d] = [job[d] EXCEPT !.at = "fetch"]
           \/ ~(o = "ok" /\ creds # <<>>) /\ job'[d] = [job[d] EXCEPT !.at = "push"]
    BY <1>1, <1>3, Before, EndIs, GoIs DEF Others, Requests
  <1> QED BY <1>1, <1>4, Before, TypesKept, RequestIs

LEMMA FetchIs ==
    ASSUME IInv, NEW d \in Devices, NEW o \in Outcomes, RetrieveCredentialsPost(d, o)
    PROVE  /\ IInv' /\ Asked(d, "fetch", o) /\ UNCHANGED <<server, device, told, registered>>
           /\ \/ ~(o = "ok" /\ creds # <<>>) /\ job'[d] = Idle
              \/ job'[d] = [job[d] EXCEPT !.at = "delete", !.post = Head(creds).id]
  <1>1. /\ Ask(d, "fetch", o) /\ UNCHANGED <<server, device, told, registered>>
        /\ \/ ~(o = "ok" /\ creds # <<>>) /\ End(d)
           \/ /\ creds # <<>>
              /\ job' = [job EXCEPT ![d] = [@ EXCEPT !.at = "delete", !.post = Head(creds).id]]
    BY DEF RetrieveCredentialsPost
  <1>2. CASE ~(o = "ok" /\ creds # <<>>) /\ End(d)
    BY <1>1, <1>2, Before, EndIs, TypesKept, RequestIs DEF Others
  <1>3. CASE /\ creds # <<>>
             /\ job' = [job EXCEPT ![d] = [@ EXCEPT !.at = "delete", !.post = Head(creds).id]]
    <2> DEFINE j == [job[d] EXCEPT !.at = "delete", !.post = Head(creds).id]
    <2>1. Head(creds).id \in Stamps
      BY <1>3, NewestCredentials
    <2>2. job[d] \in Jobs /\ Proper(job[d]) /\ job[d].at = "fetch"
      BY <1>1, Before DEF Ask
    <2>3. job' = [job EXCEPT ![d] = j]
      BY <1>3
    <2>4. j \in Jobs /\ j.at # "idle" /\ j # Idle /\ Proper(j)
      BY <2>1, <2>2 DEF Jobs, Requests, Idle, Proper, Credentialed, Configured
    <2> HIDE DEF j
    <2>5. JobsType' /\ JobsOK' /\ job'[d] = j /\ Others(d)
      BY <2>3, <2>4, Before, JobStep DEF Others
    <2> QED BY <1>1, <1>3, <2>5, Before, TypesKept, RequestIs DEF j
  <1> QED BY <1>1, <1>2, <1>3

LEMMA DeleteIs ==
    ASSUME IInv, NEW d \in Devices, NEW o \in Outcomes, DeleteCredentialsPost(d, o)
    PROVE  /\ IInv' /\ Asked(d, "delete", o) /\ job'[d] = [job[d] EXCEPT !.at = "push"]
           /\ UNCHANGED <<publics, privates, configs, device, told, registered>>
           /\ \A i \in DOMAIN creds' : \E k \in DOMAIN creds : creds'[i] = creds[k]
  <1>1. /\ Ask(d, "delete", o) /\ Go(d, "push")
        /\ creds' = Without(creds, job[d].post) \/ creds' = creds
        /\ UNCHANGED <<publics, privates, configs, folders, device, told, registered>>
    BY DEF DeleteCredentialsPost
  <1>2. job[d] \in Jobs /\ Proper(job[d]) /\ job[d].at = "delete"
    BY <1>1, Before DEF Ask
  <1>3. Proper([job[d] EXCEPT !.at = "push"])
    BY <1>2 DEF Jobs, Proper, Credentialed, Configured
  <1>4. JobsType' /\ JobsOK' /\ Others(d) /\ job'[d] = [job[d] EXCEPT !.at = "push"]
    BY <1>1, <1>3, Before, GoIs DEF Others, Requests
  <1>5. /\ creds' \in Seq(CredPosts)
        /\ \A i \in DOMAIN creds' : \E k \in DOMAIN creds : creds'[i] = creds[k]
    BY <1>1, Before, WithoutIs DEF ServerType
  <1>6. ServerType' /\ PostsOK' /\ DeviceType'
    BY <1>1, <1>5, Before, TypesKept DEF ServerType, PostsOK
  <1> QED BY <1>1, <1>4, <1>5, <1>6, Before, RequestIs

LEMMA PushIs ==
    ASSUME IInv, NEW d \in Devices, NEW o \in Outcomes, PushAtticCredentials(d, o)
    PROVE  /\ IInv' /\ Asked(d, "push", o) /\ UNCHANGED <<publics, privates, configs, device>>
           /\ NewCredentials(d) \in CredPosts
           /\ \A i \in DOMAIN creds' :
                creds'[i] = NewCredentials(d) \/ \E k \in DOMAIN creds : creds'[i] = creds[k]
           /\ o = "ok" /\ PutRevives =>
                creds' # <<>> /\ Head(creds') = NewCredentials(d)
           /\ IF job[d].op = "register"
              THEN job'[d] = [job[d] EXCEPT !.at = "enter"] /\ registered' = registered + 1
              ELSE job'[d] = Idle /\ registered' = registered
  <1>1. /\ Ask(d, "push", o) /\ UNCHANGED <<publics, privates, configs, folders, device>>
        /\ creds' = IF ~Done(o) THEN creds
                    ELSE IF job[d].post = None THEN <<NewCredentials(d)>> \o creds
                    ELSE Put(creds, NewCredentials(d))
        /\ told' = told \cup {IF job[d].op = "recover" THEN job[d].new ELSE RecoveryStamp(d)}
        /\ registered' = IF job[d].op = "register" THEN registered + 1 ELSE registered
        /\ IF job[d].op = "register" THEN Go(d, "enter") ELSE End(d)
    BY DEF PushAtticCredentials
  <1>2. job[d] \in Jobs /\ Proper(job[d]) /\ job[d].at = "push"
    BY <1>1, Before DEF Ask
  <1>3. job[d].op = "register" => Proper([job[d] EXCEPT !.at = "enter"])
    BY <1>2 DEF Jobs, Proper, Credentialed, Configured
  <1>4. /\ JobsType' /\ JobsOK' /\ Others(d)
        /\ IF job[d].op = "register" THEN job'[d] = [job[d] EXCEPT !.at = "enter"]
           ELSE job'[d] = Idle
    BY <1>1, <1>3, Before, GoIs, EndIs DEF Others, Requests
  <1>5. NewCredentials(d) \in CredPosts
    BY <1>2, StampType DEF IInv, Jobs, NewCredentials, CredPosts, Proper, Credentialed
  <1>6. /\ creds' \in Seq(CredPosts)
        /\ \A i \in DOMAIN creds' :
             creds'[i] = NewCredentials(d) \/ \E k \in DOMAIN creds : creds'[i] = creds[k]
        /\ o = "ok" /\ PutRevives => creds' # <<>> /\ Head(creds') = NewCredentials(d)
    <2>1. creds \in Seq(CredPosts)
      BY Before DEF ServerType
    <2> DEFINE post == NewCredentials(d)
    <2>2. post \in CredPosts
      BY <1>5
    <2>3. /\ creds' \in {creds, <<post>> \o creds, Put(creds, post)}
          /\ o = "ok" => creds' \in {<<post>> \o creds, Put(creds, post)}
      BY <1>1 DEF Done
    <2> HIDE DEF post
    <2>4. /\ creds' \in Seq(CredPosts)
          /\ \A i \in DOMAIN creds' :
               creds'[i] = post \/ \E k \in DOMAIN creds : creds'[i] = creds[k]
          /\ o = "ok" /\ PutRevives => creds' # <<>> /\ Head(creds') = post
      <3>1. CASE creds' = creds /\ o # "ok"
        BY <2>1, <3>1
      <3>2. CASE creds' = <<post>> \o creds
        BY <2>1, <2>2, <3>2, Prepended
      <3>3. CASE creds' = Put(creds, post)
        <4>1. /\ Put(creds, post) \in Seq(CredPosts)
              /\ \A i \in DOMAIN Put(creds, post) :
                   \/ Put(creds, post)[i] = post
                   \/ \E k \in DOMAIN creds : Put(creds, post)[i] = creds[k]
              /\ PutRevives => Put(creds, post) # <<>> /\ Head(Put(creds, post)) = post
          <5>1. Put(creds, post) \in Seq(CredPosts)
            BY <2>1, <2>2, PutIs
          <5>2. \A i \in DOMAIN Put(creds, post) :
                   \/ Put(creds, post)[i] = post
                   \/ \E k \in DOMAIN creds : Put(creds, post)[i] = creds[k]
            BY <2>1, <2>2, PutIs
          <5>3. PutRevives => Put(creds, post) # <<>>
            BY <2>1, <2>2, PutIs
          <5>4. PutRevives => Head(Put(creds, post)) = post
            BY <2>1, <2>2, PutIs
          <5> QED BY <5>1, <5>2, <5>3, <5>4
        <4> QED BY <3>3, <4>1
      <3> QED BY <2>3, <3>1, <3>2, <3>3
    <2> QED BY <2>4 DEF post
  <1>7. ServerType' /\ PostsOK'
    BY <1>1, <1>6, Before DEF ServerType, PostsOK
  <1>8. DeviceType'
    <2>1. job[d].op = "recover" => job[d].new \in Stamps
      BY <1>2 DEF Proper, Credentialed
    <2>2. RecoveryStamp(d) \in Stamps
      BY StampType DEF IInv
    <2>3. told' \subseteq Stamps
      BY <1>1, <2>1, <2>2, Before DEF DeviceType
    <2> QED BY <1>1, <2>3, Before DEF DeviceType, device
  <1> QED BY <1>1, <1>4, <1>5, <1>6, <1>7, <1>8, Before, RequestIs

LEMMA EnterIs ==
    ASSUME IInv, NEW d \in Devices, NEW o \in Outcomes, Enter(d, o)
    PROVE  /\ IInv' /\ Asked(d, "enter", o)
           /\ UNCHANGED <<server, table, rows, roots, entered, told, registered>>
           /\ \/ /\ creds # <<>> /\ held' = [held EXCEPT ![d] = Head(creds).mk]
                 /\ job'[d] = [job[d] EXCEPT !.at = "config"] /\ UNCHANGED pair
              \/ /\ ~(o = "ok" /\ creds # <<>> /\ job[d].phrase = Head(creds).phrase)
                 /\ UNCHANGED held
                 /\ IF job[d].op = "register"
                    THEN /\ job'[d] = [job[d] EXCEPT !.at = "anyPublic"]
                         /\ pair' = [pair EXCEPT ![d] = Stamp(d)]
                    ELSE job'[d] = Idle /\ UNCHANGED pair
  <1>1. /\ Ask(d, "enter", o)
        /\ UNCHANGED <<server, table, rows, roots, entered, told, registered>>
        /\ \/ /\ creds # <<>> /\ held' = [held EXCEPT ![d] = Head(creds).mk]
              /\ Go(d, "config") /\ UNCHANGED pair
           \/ /\ ~(o = "ok" /\ creds # <<>> /\ job[d].phrase = Head(creds).phrase)
              /\ UNCHANGED held
              /\ IF job[d].op = "register"
                 THEN Go(d, "anyPublic") /\ pair' = [pair EXCEPT ![d] = Stamp(d)]
                 ELSE End(d) /\ UNCHANGED pair
    BY DEF Enter, Unopened, OpensWith
  <1>2. job[d] \in Jobs /\ Proper(job[d]) /\ job[d].at = "enter"
    BY <1>1, Before DEF Ask
  <1>3. /\ Proper([job[d] EXCEPT !.at = "config"])
        /\ job[d].op = "register" => Proper([job[d] EXCEPT !.at = "anyPublic"])
    BY <1>2 DEF Jobs, Proper, Credentialed, Configured
  <1>4. /\ JobsType' /\ JobsOK' /\ Others(d)
        /\ Go(d, "config") => job'[d] = [job[d] EXCEPT !.at = "config"]
        /\ Go(d, "anyPublic") /\ job[d].op = "register"
             => job'[d] = [job[d] EXCEPT !.at = "anyPublic"]
        /\ End(d) => job'[d] = Idle
    BY <1>1, <1>3, Before, GoIs, EndIs DEF Others, Requests
  <1>5. DeviceType'
    <2>1. creds # <<>> => Head(creds).mk \in Stamps
      BY NewestCredentials
    <2>2. Stamp(d) \in Stamps
      BY StampType DEF IInv
    <2> QED BY <1>1, <2>1, <2>2, Before DEF DeviceType
  <1> QED BY <1>1, <1>4, <1>5, Before, TypesKept, RequestIs

\* A read of the configuration post, and where it leads.
Read(d, at, o, found, missing) ==
  /\ Asked(d, at, o) /\ UNCHANGED <<server, device, told, registered>>
  /\ \/ /\ configs # <<>>
        /\ job'[d] = [job[d] EXCEPT !.at = found, !.copy = Head(configs)]
     \/ ~(o = "ok" /\ configs # <<>>) /\ job'[d] = [job[d] EXCEPT !.at = missing]

LEMMA RetrieveIs ==
    ASSUME IInv, NEW d \in Devices, NEW o \in Outcomes, NEW at, NEW found, NEW missing,
           \/ at = "config" /\ found = "load" /\ missing = "recheck"
           \/ at = "recheck" /\ found = "load" /\ missing = "create"
           \/ at = "reread" /\ found = "load" /\ missing = "load"
           \/ at = "getroot" /\ found = "putroot" /\ missing = "pair",
           RetrieveConfigPost(d, at, o, found, missing)
    PROVE  IInv' /\ Read(d, at, o, found, missing)
  <1>1. /\ Ask(d, at, o) /\ UNCHANGED <<server, device, told, registered>>
        /\ \/ /\ configs # <<>>
              /\ job' = [job EXCEPT ![d] = [@ EXCEPT !.at = found, !.copy = Head(configs)]]
           \/ ~(o = "ok" /\ configs # <<>>) /\ Go(d, missing)
    BY DEF RetrieveConfigPost, Retrieved
  <1>2. job[d] \in Jobs /\ Proper(job[d]) /\ job[d].at = at
    BY <1>1, Before DEF Ask
  <1>3. CASE /\ configs # <<>>
             /\ job' = [job EXCEPT ![d] = [@ EXCEPT !.at = found, !.copy = Head(configs)]]
    <2> DEFINE j == [job[d] EXCEPT !.at = found, !.copy = Head(configs)]
    <2>1. Head(configs) \in ConfigPosts /\ Rooted(Head(configs).entries)
      BY <1>3, Before, NewestIs DEF ServerType, PostsOK
    <2>2. job' = [job EXCEPT ![d] = j]
      BY <1>3
    <2>3. j \in Jobs /\ j.at # "idle" /\ j # Idle
      BY <2>1, <1>2 DEF Jobs, Requests, Idle
    <2>4. /\ j.at = found /\ j.op = job[d].op /\ j.new = job[d].new /\ j.phrase = job[d].phrase
          /\ j.mk = job[d].mk /\ j.post = job[d].post /\ j.copy = Head(configs)
          /\ j.alias = job[d].alias
      BY <1>2 DEF Jobs
    <2>5. found = "load" \/ (found = "putroot" /\ at = "getroot")
      OBVIOUS
    <2> HIDE DEF j
    <2>6. Proper(j)
      BY <1>2, <2>1, <2>4, <2>5 DEF Proper, Credentialed, Configured
    <2>7. JobsType' /\ JobsOK' /\ job'[d] = j /\ Others(d)
      BY <2>2, <2>3, <2>6, Before, JobStep DEF Others
    <2> QED BY <1>1, <1>3, <2>7, Before, TypesKept, RequestIs DEF j, Read
  <1>4. CASE ~(o = "ok" /\ configs # <<>>) /\ Go(d, missing)
    <2>1. Proper([job[d] EXCEPT !.at = missing])
      BY <1>2 DEF Jobs, Proper, Credentialed, Configured
    <2>2. missing \in Requests
      BY DEF Requests
    <2>3. JobsType' /\ JobsOK' /\ Others(d) /\ job'[d] = [job[d] EXCEPT !.at = missing]
      BY <1>4, <2>1, <2>2, Before, GoIs DEF Others
    <2> QED BY <1>1, <1>4, <2>3, Before, TypesKept, RequestIs DEF Read
  <1> QED BY <1>1, <1>3, <1>4

LEMMA CreateIs ==
    ASSUME IInv, NEW d \in Devices, NEW o \in Outcomes, CreateConfigPost(d, o)
    PROVE  /\ IInv' /\ Asked(d, "create", o)
           /\ UNCHANGED <<creds, publics, privates, device, told, registered>>
           /\ \/ UNCHANGED configs
              \/ configs' # <<>> /\ configs'[1] = [id |-> Stamp(d), entries |-> {}]
           /\ o = "ok" => configs' # <<>> /\ configs'[1].entries = {}
           /\ job'[d] = [job[d] EXCEPT !.at = IF o = "ok" THEN "reread" ELSE "load"]
  <1> DEFINE post == [id |-> Stamp(d), entries |-> {}]
             at == IF o = "ok" THEN "reread" ELSE "load"
  <1>1. /\ Ask(d, "create", o) /\ Go(d, at)
        /\ UNCHANGED <<creds, publics, privates, folders, device, told, registered>>
        /\ \/ UNCHANGED configs /\ o # "ok"
           \/ configs' = <<post>> \o configs
    BY DEF CreateConfigPost, Done
  <1>2. job[d] \in Jobs /\ Proper(job[d]) /\ job[d].at = "create"
    BY <1>1, Before DEF Ask
  <1>3. at \in Requests /\ Proper([job[d] EXCEPT !.at = at])
    BY <1>2 DEF Jobs, Proper, Credentialed, Configured, Requests
  <1>4. JobsType' /\ JobsOK' /\ Others(d) /\ job'[d] = [job[d] EXCEPT !.at = at]
    BY <1>1, <1>3, Before, GoIs DEF Others
  <1>5. post \in ConfigPosts /\ Rooted(post.entries) /\ post.entries = {}
    BY StampType DEF ConfigPosts, Rooted, IInv
  <1> HIDE DEF post
  <1>6. /\ configs' \in Seq(ConfigPosts) /\ PostsOK'
        /\ (configs' = configs /\ o # "ok") \/ (configs' # <<>> /\ configs'[1] = post)
    <2>1. configs \in Seq(ConfigPosts) /\ PostsOK
      BY Before DEF ServerType
    <2>2. CASE UNCHANGED configs /\ o # "ok"
      BY <2>1, <2>2, TypesKept
    <2>3. CASE configs' = <<post>> \o configs
      <3>1. /\ configs' \in Seq(ConfigPosts) /\ configs' # <<>> /\ configs'[1] = post
            /\ \A i \in DOMAIN configs' :
                 configs'[i] = post \/ \E k \in DOMAIN configs : configs'[i] = configs[k]
        BY <1>5, <2>1, <2>3, Prepended
      <3> QED BY <1>5, <2>1, <3>1 DEF PostsOK
    <2> QED BY <1>1, <2>2, <2>3
  <1>7. ServerType' /\ DeviceType'
    BY <1>1, <1>6, Before, TypesKept DEF ServerType
  <1>8. IInv' /\ Asked(d, "create", o)
    BY <1>1, <1>4, <1>6, <1>7, Before, RequestIs
  <1> QED BY <1>1, <1>4, <1>5, <1>6, <1>8 DEF post

LEMMA PutRootIs ==
    ASSUME IInv, NEW d \in Devices, NEW o \in Outcomes, AddRootDirToConfigPost(d, o)
    PROVE  LET changed == [job[d].copy EXCEPT
                              !.entries = PushBackConfigValue(@, job[d].alias, job[d].alias)]
           IN  /\ IInv' /\ Asked(d, "putroot", o) /\ job'[d] = [job[d] EXCEPT !.at = "pair"]
               /\ UNCHANGED <<creds, publics, privates, device, told, registered>>
               /\ \/ UNCHANGED configs
                  \/ configs' # <<>> /\ configs'[1] = changed
               /\ o = "ok" /\ HasPost(configs, job[d].copy.id) =>
                    configs' # <<>> /\ configs'[1] = changed
               /\ changed.entries = PushBackConfigValue(job[d].copy.entries, job[d].alias, job[d].alias)
               /\ job[d].copy.entries \subseteq changed.entries
  <1> DEFINE a == job[d].alias
             copy == job[d].copy
             changed == [copy EXCEPT !.entries = PushBackConfigValue(@, a, a)]
  <1>1. /\ Ask(d, "putroot", o) /\ Go(d, "pair")
        /\ UNCHANGED <<creds, publics, privates, folders, device, told, registered>>
        /\ \/ UNCHANGED configs /\ o # "ok"
           \/ configs' = Put(configs, changed)
    BY DEF AddRootDirToConfigPost, Done
  <1>2. /\ job[d] \in Jobs /\ Proper(job[d]) /\ job[d].at = "putroot"
        /\ copy \in ConfigPosts /\ a \in Aliases /\ Rooted(copy.entries)
    BY <1>1, Before DEF Ask, Proper, Configured
  <1>3. Proper([job[d] EXCEPT !.at = "pair"])
    BY <1>2 DEF Jobs, Proper, Credentialed, Configured
  <1>4. JobsType' /\ JobsOK' /\ Others(d) /\ job'[d] = [job[d] EXCEPT !.at = "pair"]
    BY <1>1, <1>3, Before, GoIs DEF Others, Requests
  <1> HIDE DEF a, copy
  <1>5. /\ PushBackConfigValue(copy.entries, a, a) \subseteq ConfigEntries
        /\ Rooted(PushBackConfigValue(copy.entries, a, a))
        /\ copy.entries \subseteq PushBackConfigValue(copy.entries, a, a)
    BY <1>2 DEF ConfigPosts, ConfigEntries, Rooted, PushBackConfigValue
  <1>6. /\ changed.entries = PushBackConfigValue(copy.entries, a, a) /\ changed.id = copy.id
        /\ changed \in ConfigPosts
    BY <1>2, <1>5 DEF ConfigPosts
  <1> HIDE DEF changed
  <1>7. /\ configs' \in Seq(ConfigPosts) /\ PostsOK'
        /\ configs' = configs \/ (configs' # <<>> /\ configs'[1] = changed)
        /\ o = "ok" /\ HasPost(configs, copy.id) => configs' # <<>> /\ configs'[1] = changed
    <2>1. configs \in Seq(ConfigPosts) /\ PostsOK
      BY Before DEF ServerType
    <2>2. CASE UNCHANGED configs /\ o # "ok"
      BY <2>1, <2>2, TypesKept
    <2>3. CASE configs' = Put(configs, changed)
      <3>1. /\ configs' \in Seq(ConfigPosts)
            /\ \A i \in DOMAIN configs' :
                 configs'[i] = changed \/ \E k \in DOMAIN configs : configs'[i] = configs[k]
            /\ configs' = configs \/ (configs' # <<>> /\ configs'[1] = changed)
            /\ HasPost(configs, copy.id) => configs' # <<>> /\ configs'[1] = changed
        <4>1. Put(configs, changed) \in Seq(ConfigPosts)
          BY <1>6, <2>1, PutIs
        <4>2. \A i \in DOMAIN Put(configs, changed) :
                \/ Put(configs, changed)[i] = changed
                \/ \E k \in DOMAIN configs : Put(configs, changed)[i] = configs[k]
          BY <1>6, <2>1, PutIs
        <4>3. PutRevives \/ HasPost(configs, copy.id) =>
                Put(configs, changed) # <<>> /\ Put(configs, changed)[1] = changed
          BY <1>6, <2>1, PutIs
        <4>4. ~(PutRevives \/ HasPost(configs, copy.id)) => Put(configs, changed) = configs
          BY <1>6, <2>1, PutIs
        <4> QED BY <2>3, <4>1, <4>2, <4>3, <4>4
      <3> QED BY <1>5, <1>6, <2>1, <3>1 DEF PostsOK
    <2> QED BY <1>1, <2>2, <2>3
  <1>8. ServerType' /\ DeviceType'
    BY <1>1, <1>7, Before, TypesKept DEF ServerType
  <1>9. IInv' /\ Asked(d, "putroot", o)
    BY <1>1, <1>4, <1>7, <1>8, Before, RequestIs
  <1> QED BY <1>1, <1>4, <1>5, <1>6, <1>7, <1>9 DEF a, copy, changed

(***************************************************************************)
(* The configuration table                                                 *)
(***************************************************************************)
LEMMA LeastIs ==
    ASSUME NEW T, T \subseteq Nat, T # {}
    PROVE  \E x \in T : \A y \in T : x <= y
  <1>1. IsWellFoundedOn(OpToRel(<, Nat), Nat)
    BY NatLessThanWellFounded
  <1>2. PICK x \in T : \A y \in T : <<y, x>> \notin OpToRel(<, Nat)
    BY <1>1, WFMin
  <1>3. \A y \in T : ~(y < x)
    BY <1>2 DEF OpToRel
  <1>4. \A y \in T : y \in Nat /\ x \in Nat /\ ~(y < x)
    BY <1>3
  <1> QED BY <1>4

LEMMA FirstIs ==
    ASSUME NEW t \in SUBSET ConfigRows, RetrieveConfigType(t, RootDir) # {}
    PROVE  FirstOfType(t, RootDir) \in t
  <1> DEFINE R == RetrieveConfigType(t, RootDir)
  <1>1. R \subseteq t /\ \A r \in R : r.key \in Nat
    BY ConstantsAssumption DEF RetrieveConfigType, ConfigRows
  <1> HIDE DEF R
  <1> DEFINE T == {r.key : r \in R}
  <1>2. T \subseteq Nat /\ T # {}
    BY <1>1 DEF R
  <1>3. \E x \in T : \A y \in T : x <= y
    BY <1>2, LeastIs
  <1>4. \E r \in R : \A s \in R : r.key <= s.key
    BY <1>3
  <1>5. (CHOOSE r \in R : \A s \in R : r.key <= s.key) \in R
    BY <1>4
  <1> QED BY <1>1, <1>5 DEF FirstOfType, R

LEMMA LoadedIs ==
    ASSUME NEW t \in SUBSET ConfigRows, NEW entries \in SUBSET ConfigEntries
    PROVE  /\ LoadConfigPost(t, entries) \in SUBSET ConfigRows
           /\ LoadConfigPost(t, entries) =
                t \cup {Row(e.type, e.key, e.value, "") :
                  e \in {e \in entries : ~IsValueInManifest(t, e.value) /\ ~IsKeyInManifest(t, e.key)}}
  <1> DEFINE E == {e \in entries : ~IsValueInManifest(t, e.value) /\ ~IsKeyInManifest(t, e.key)}
  <1>1. \A e \in E : PushConfigValue({}, e.type, e.key, e.value) = {Row(e.type, e.key, e.value, "")}
    BY DEF PushConfigValue, IsKeyInManifest, InsertConfigValue
  <1>2. \A e \in E : Row(e.type, e.key, e.value, "") \in ConfigRows
    BY DEF Row, ConfigRows, ConfigEntries
  <1> HIDE DEF E
  <1>3. UNION {PushConfigValue({}, e.type, e.key, e.value) : e \in E}
        = {Row(e.type, e.key, e.value, "") : e \in E}
    BY <1>1
  <1> QED BY <1>2, <1>3 DEF LoadConfigPost, E

LEMMA LinkedIs ==
    ASSUME NEW t \in SUBSET ConfigRows, NEW key
    PROVE  LinkWorkingDirectory(t, key, Dir) \in SUBSET ConfigRows
  BY DEF LinkWorkingDirectory, set_state_for_key, ConfigRows

LEMMA LoadIs ==
    ASSUME IInv, NEW d \in Devices, Load(d)
    PROVE  /\ IInv' /\ Others(d) /\ job[d].at = "load"
           /\ UNCHANGED <<server, held, pair, roots, entered, told, counts>>
           /\ \E at \in {"pair", "folder"} : job'[d] = [job[d] EXCEPT !.at = at]
           /\ LET t == LoadConfigPost(table[d], job[d].copy.entries) IN
              IF RetrieveConfigType(t, RootDir) # {}
              THEN /\ table' = [table EXCEPT
                          ![d] = LinkWorkingDirectory(t, FirstOfType(t, RootDir).key, Dir)]
                   /\ job'[d] = [job[d] EXCEPT !.at = "pair"]
              ELSE table' = [table EXCEPT ![d] = t]
  <1> DEFINE t == LoadConfigPost(table[d], job[d].copy.entries)
             first == FirstOfType(t, RootDir)
             some == RetrieveConfigType(t, RootDir) # {}
             at == IF some \/ IsStateInManifest(t, Dir) THEN "pair" ELSE "folder"
  <1>1. /\ job[d].at = "load" /\ Go(d, at)
        /\ UNCHANGED <<server, held, pair, roots, entered, told, counts>>
        /\ some => /\ table' = [table EXCEPT ![d] = LinkWorkingDirectory(t, first.key, Dir)]
                   /\ rows' = [rows EXCEPT ![d] = @ \cup {first.value}]
        /\ ~some => table' = [table EXCEPT ![d] = t] /\ UNCHANGED rows
    BY DEF Load
  <1>2. /\ job[d] \in Jobs /\ Proper(job[d]) /\ table \in [Devices -> SUBSET ConfigRows]
        /\ rows \in [Devices -> SUBSET Aliases]
    BY Before DEF DeviceType
  <1>3. job[d].copy.entries \in SUBSET ConfigEntries
    BY <1>2 DEF Jobs, ConfigPosts, NoPost
  <1>4. t \in SUBSET ConfigRows /\ LinkWorkingDirectory(t, first.key, Dir) \in SUBSET ConfigRows
    <2>1. table[d] \in SUBSET ConfigRows
      BY <1>2
    <2>2. \A old \in SUBSET ConfigRows, entries \in SUBSET ConfigEntries :
            LoadConfigPost(old, entries) \in SUBSET ConfigRows
      BY LoadedIs
    <2>3. t \in SUBSET ConfigRows
      BY <1>3, <2>1, <2>2
    <2> HIDE DEF t
    <2> QED BY <2>3, LinkedIs
  <1>5. some => first.value \in Aliases
    BY <1>4, FirstIs DEF ConfigRows
  <1> HIDE DEF first, t
  <1>6. at \in {"pair", "folder"} /\ (some => at = "pair")
    OBVIOUS
  <1> HIDE DEF at, some
  <1>7. Proper([job[d] EXCEPT !.at = at])
    BY <1>1, <1>2, <1>6 DEF Jobs, Proper, Credentialed, Configured
  <1>8. JobsType' /\ JobsOK' /\ Others(d) /\ job'[d] = [job[d] EXCEPT !.at = at]
    <2>1. at \in Requests
      BY <1>6 DEF Requests
    <2> QED BY <1>1, <1>7, <2>1, Before, GoIs DEF Others
  <1>9. DeviceType'
    <2>1. table' \in [Devices -> SUBSET ConfigRows] /\ rows' \in [Devices -> SUBSET Aliases]
      BY <1>1, <1>2, <1>4, <1>5
    <2> QED BY <1>1, <2>1, Before DEF DeviceType
  <1>10. ServerType' /\ PostsOK' /\ CountsType'
    BY <1>1, Before, Types, TypesKept DEF IInv, CountsType, counts
  <1>11. IInv'
    BY <1>8, <1>9, <1>10, Types DEF IInv
  <1> QED BY <1>1, <1>6, <1>8, <1>11 DEF t, first, some

LEMMA FolderIs ==
    ASSUME IInv, NEW d \in Devices, NEW o \in Outcomes, NEW a \in Aliases, CreateFolderPost(d, a, o)
    PROVE  /\ IInv' /\ Asked(d, "folder", o)
           /\ UNCHANGED <<creds, publics, privates, configs, held, pair, told, registered>>
           /\ \/ /\ table' = [table EXCEPT ![d] = AddWorkingDirectory(@, a, Dir, a)]
                 /\ job'[d] = [job[d] EXCEPT !.at = "getroot", !.alias = a]
              \/ o # "ok" /\ UNCHANGED table /\ job'[d] = [job[d] EXCEPT !.at = "pair"]
  <1>1. /\ Ask(d, "folder", o) /\ folders' \subseteq folders \cup {a}
        /\ UNCHANGED <<creds, publics, privates, configs, held, pair, roots, entered, told, registered>>
        /\ \/ /\ table' = [table EXCEPT ![d] = AddWorkingDirectory(@, a, Dir, a)]
              /\ rows' = [rows EXCEPT ![d] = @ \cup {a}]
              /\ job' = [job EXCEPT ![d] = [@ EXCEPT !.at = "getroot", !.alias = a]]
           \/ o # "ok" /\ Go(d, "pair") /\ UNCHANGED <<table, rows>>
    BY DEF CreateFolderPost
  <1>2. job[d] \in Jobs /\ Proper(job[d]) /\ job[d].at = "folder"
    BY <1>1, Before DEF Ask
  <1>3. ServerType' /\ PostsOK'
    BY <1>1, Before, TypesKept DEF ServerType
  <1>4. CASE o # "ok" /\ Go(d, "pair") /\ UNCHANGED <<table, rows>>
    <2>1. Proper([job[d] EXCEPT !.at = "pair"])
      BY <1>2 DEF Jobs, Proper, Credentialed, Configured
    <2>2. JobsType' /\ JobsOK' /\ Others(d) /\ job'[d] = [job[d] EXCEPT !.at = "pair"]
      BY <1>4, <2>1, Before, GoIs DEF Others, Requests
    <2>3. DeviceType'
      BY <1>1, <1>4, Before DEF DeviceType
    <2> QED BY <1>1, <1>3, <1>4, <2>2, <2>3, Before, RequestIs
  <1>5. CASE /\ table' = [table EXCEPT ![d] = AddWorkingDirectory(@, a, Dir, a)]
             /\ rows' = [rows EXCEPT ![d] = @ \cup {a}]
             /\ job' = [job EXCEPT ![d] = [@ EXCEPT !.at = "getroot", !.alias = a]]
    <2> DEFINE j == [job[d] EXCEPT !.at = "getroot", !.alias = a]
    <2>1. job' = [job EXCEPT ![d] = j]
      BY <1>5
    <2>2. j \in Jobs /\ j.at # "idle" /\ j # Idle /\ Proper(j)
      BY <1>2 DEF Jobs, Requests, Idle, Proper, Credentialed, Configured
    <2> HIDE DEF j
    <2>3. JobsType' /\ JobsOK' /\ job'[d] = j /\ Others(d)
      BY <2>1, <2>2, Before, JobStep DEF Others
    <2>4. \A t \in SUBSET ConfigRows : AddWorkingDirectory(t, a, Dir, a) \in SUBSET ConfigRows
      <3>1. Row(RootDir, a, a, Dir) \in ConfigRows
        BY DEF Row, ConfigRows
      <3> QED BY <3>1 DEF AddWorkingDirectory, InsertConfigValue
    <2>5. DeviceType'
      <3>1. table' \in [Devices -> SUBSET ConfigRows] /\ rows' \in [Devices -> SUBSET Aliases]
        BY <1>5, <2>4, Before DEF DeviceType
      <3> QED BY <1>1, <3>1, Before DEF DeviceType
    <2>6. IInv' /\ Asked(d, "folder", o)
      BY <1>1, <1>3, <2>3, <2>5, Before, RequestIs
    <2> QED BY <1>1, <1>5, <2>3, <2>6 DEF j
  <1> QED BY <1>1, <1>4, <1>5

LEMMA PairIs ==
    ASSUME IInv, NEW d \in Devices, NEW o \in Outcomes, RetrievePublicPrivateKeyPair(d, o)
    PROVE  /\ IInv' /\ Asked(d, "pair", o)
           /\ UNCHANGED <<server, held, table, rows, told, registered>>
           /\ IF job[d].op = "register"
              THEN /\ job'[d] = [job[d] EXCEPT !.at = "anyPublic"]
                   /\ pair' = [pair EXCEPT ![d] = Stamp(d)]
              ELSE /\ job'[d] = Idle
                   /\ pair' = [pair EXCEPT
                        ![d] = IF o = "ok" /\ privates # <<>> THEN Head(privates) ELSE None]
  <1> DEFINE key == IF o = "ok" /\ privates # <<>> THEN Head(privates) ELSE None
  <1>1. /\ Ask(d, "pair", o)
        /\ roots' = [roots EXCEPT ![d] = LoadWorkingDirectories(table[d])]
        /\ entered' = [entered EXCEPT ![d] = @ \/ IsStateInManifest(table[d], Dir)]
        /\ IF job[d].op = "register"
           THEN Go(d, "anyPublic") /\ pair' = [pair EXCEPT ![d] = Stamp(d)]
           ELSE End(d) /\ pair' = [pair EXCEPT ![d] = key]
        /\ UNCHANGED <<server, held, table, rows, told, registered>>
    BY DEF RetrievePublicPrivateKeyPair
  <1>2. job[d] \in Jobs /\ Proper(job[d]) /\ job[d].at = "pair"
    BY <1>1, Before DEF Ask
  <1>3. job[d].op = "register" => Proper([job[d] EXCEPT !.at = "anyPublic"])
    BY <1>2 DEF Jobs, Proper, Credentialed, Configured
  <1>4. /\ JobsType' /\ JobsOK' /\ Others(d)
        /\ IF job[d].op = "register" THEN job'[d] = [job[d] EXCEPT !.at = "anyPublic"]
           ELSE job'[d] = Idle
    BY <1>1, <1>3, Before, GoIs, EndIs DEF Others, Requests
  <1>5. key \in Stamps \cup {None} /\ Stamp(d) \in Stamps
    <2>1. privates # <<>> => Head(privates) \in Stamps
      BY Before, NewestIs DEF ServerType
    <2> QED BY <2>1, StampType DEF IInv
  <1>6. LoadWorkingDirectories(table[d]) \in UNION {[A -> {"", Dir}] : A \in SUBSET Aliases}
    <2> DEFINE t == table[d]
               A == {r.key : r \in RetrieveConfigType(t, RootDir)}
    <2>1. t \in SUBSET ConfigRows
      BY Before DEF DeviceType
    <2> HIDE DEF t
    <2>2. A \in SUBSET Aliases
      BY <2>1 DEF RetrieveConfigType, ConfigRows
    <2>3. ASSUME NEW a \in A
          PROVE  RetrieveConfigEntry(t, a).state \in {"", Dir}
      <3>1. \E r \in t : r.key = a
        BY DEF RetrieveConfigType
      <3>2. RetrieveConfigEntry(t, a) \in t
        BY <3>1 DEF RetrieveConfigEntry
      <3> QED BY <2>1, <3>2 DEF ConfigRows
    <2>4. LoadWorkingDirectories(t) = [a \in A |-> RetrieveConfigEntry(t, a).state]
      BY DEF LoadWorkingDirectories
    <2> HIDE DEF A
    <2>5. LoadWorkingDirectories(t) \in [A -> {"", Dir}]
      BY <2>3, <2>4
    <2> QED BY <2>2, <2>5 DEF t
  <1> HIDE DEF key
  <1>7. DeviceType'
    <2>1. pair' \in [Devices -> Stamps \cup {None}]
      BY <1>1, <1>5, Before DEF DeviceType
    <2>2. roots' \in [Devices -> UNION {[A -> {"", Dir}] : A \in SUBSET Aliases}]
      <3> DEFINE All == UNION {[A -> {"", Dir}] : A \in SUBSET Aliases}
      <3>1. roots \in [Devices -> All] /\ LoadWorkingDirectories(table[d]) \in All
        BY <1>6, Before DEF DeviceType
      <3> HIDE DEF All
      <3>2. roots' \in [Devices -> All]
        BY <1>1, <3>1
      <3> QED BY <3>2 DEF All
    <2>3. entered' \in [Devices -> BOOLEAN]
      <3> DEFINE linked == IsStateInManifest(table[d], Dir)
      <3>1. entered \in [Devices -> BOOLEAN] /\ linked \in BOOLEAN
        BY Before DEF DeviceType, IsStateInManifest
      <3>2. entered' = [entered EXCEPT ![d] = @ \/ linked]
        BY <1>1
      <3> HIDE DEF linked
      <3> QED BY <3>1, <3>2
    <2> QED BY <1>1, <2>1, <2>2, <2>3, Before DEF DeviceType
  <1> QED BY <1>1, <1>4, <1>7, Before, TypesKept, RequestIs DEF key

LEMMA KeyCountIs ==
    ASSUME IInv, NEW d \in Devices, NEW o \in Outcomes, NEW at, NEW posts, NEW post, NEW next,
           \/ at = "anyPublic" /\ post = "public" /\ next = "anyPrivate"
           \/ at = "anyPrivate" /\ post = "private" /\ next = "idle",
           GetKeyPostCount(d, at, posts, o, post, next)
    PROVE  /\ IInv' /\ Asked(d, at, o) /\ UNCHANGED <<server, device, told, registered>>
           /\ IF o = "ok" /\ posts = <<>> THEN job'[d] = [job[d] EXCEPT !.at = post]
              ELSE IF next = "idle" THEN job'[d] = Idle
              ELSE job'[d] = [job[d] EXCEPT !.at = next]
  <1>1. /\ Ask(d, at, o) /\ UNCHANGED <<server, device, told, registered>>
        /\ IF o = "ok" /\ posts = <<>> THEN Go(d, post)
           ELSE IF next = "idle" THEN End(d) ELSE Go(d, next)
    BY DEF GetKeyPostCount
  <1>2. /\ job[d] \in Jobs /\ Proper(job[d]) /\ job[d].at \in {"anyPublic", "anyPrivate"}
    BY <1>1, Before DEF Ask
  <1>3. Proper([job[d] EXCEPT !.at = post]) /\ post \in Requests
    BY <1>2 DEF Jobs, Proper, Credentialed, Configured, Requests
  <1>4. next # "idle" => Proper([job[d] EXCEPT !.at = next]) /\ next \in Requests
    BY <1>2 DEF Jobs, Proper, Credentialed, Configured, Requests
  <1>5. /\ JobsType' /\ JobsOK' /\ Others(d)
        /\ IF o = "ok" /\ posts = <<>> THEN job'[d] = [job[d] EXCEPT !.at = post]
           ELSE IF next = "idle" THEN job'[d] = Idle
           ELSE job'[d] = [job[d] EXCEPT !.at = next]
    BY <1>1, <1>3, <1>4, Before, GoIs, EndIs DEF Others
  <1> QED BY <1>1, <1>5, Before, TypesKept, RequestIs

LEMMA PublicIs ==
    ASSUME IInv, NEW d \in Devices, NEW o \in Outcomes, RegisterPublicKey(d, o)
    PROVE  /\ IInv' /\ Asked(d, "public", o) /\ job'[d] = [job[d] EXCEPT !.at = "anyPrivate"]
           /\ UNCHANGED <<creds, privates, configs, device, told, registered>>
           /\ o = "ok" => publics' = <<Stamp(d)>> \o publics
  <1>1. /\ Ask(d, "public", o) /\ Go(d, "anyPrivate")
        /\ publics' = <<Stamp(d)>> \o publics \/ (UNCHANGED publics /\ o # "ok")
        /\ UNCHANGED <<creds, privates, configs, folders, device, told, registered>>
    BY DEF RegisterPublicKey, Done
  <1>2. /\ job[d] \in Jobs /\ Proper(job[d]) /\ job[d].at = "public"
    BY <1>1, Before DEF Ask
  <1>3. Proper([job[d] EXCEPT !.at = "anyPrivate"])
    BY <1>2 DEF Jobs, Proper, Credentialed, Configured
  <1>4. JobsType' /\ JobsOK' /\ Others(d) /\ job'[d] = [job[d] EXCEPT !.at = "anyPrivate"]
    BY <1>1, <1>3, Before, GoIs DEF Others, Requests
  <1>5. publics' \in Seq(Stamps)
    <2>1. publics \in Seq(Stamps) /\ Stamp(d) \in Stamps
      BY Before, StampType DEF ServerType, IInv
    <2>2. <<Stamp(d)>> \o publics \in Seq(Stamps)
      BY <2>1, Prepended
    <2> QED BY <1>1, <2>1, <2>2
  <1>6. ServerType' /\ PostsOK' /\ DeviceType'
    BY <1>1, <1>5, Before, TypesKept DEF ServerType
  <1> QED BY <1>1, <1>4, <1>6, Before, RequestIs

LEMMA PrivateIs ==
    ASSUME IInv, NEW d \in Devices, NEW o \in Outcomes, RegisterPrivateKey(d, o)
    PROVE  /\ IInv' /\ Asked(d, "private", o) /\ job'[d] = Idle
           /\ UNCHANGED <<creds, publics, configs, device, told, registered>>
           /\ o = "ok" => privates' = <<Stamp(d)>> \o privates
  <1>1. /\ Ask(d, "private", o) /\ End(d)
        /\ privates' = <<Stamp(d)>> \o privates \/ (UNCHANGED privates /\ o # "ok")
        /\ UNCHANGED <<creds, publics, configs, folders, device, told, registered>>
    BY DEF RegisterPrivateKey, Done
  <1>2. JobsType' /\ JobsOK' /\ Others(d) /\ job'[d] = Idle
    BY <1>1, Before, EndIs DEF Others
  <1>3. privates' \in Seq(Stamps)
    <2>1. privates \in Seq(Stamps) /\ Stamp(d) \in Stamps
      BY Before, StampType DEF ServerType, IInv
    <2>2. <<Stamp(d)>> \o privates \in Seq(Stamps)
      BY <2>1, Prepended
    <2> QED BY <1>1, <2>1, <2>2
  <1>4. ServerType' /\ PostsOK' /\ DeviceType'
    BY <1>1, <1>3, Before, TypesKept DEF ServerType
  <1> QED BY <1>1, <1>2, <1>4, Before, RequestIs

(***************************************************************************)
(* What a step of a device is                                              *)
(***************************************************************************)
Reading(d, o) ==
  \/ RetrieveConfigPost(d, "config", o, "load", "recheck")
  \/ RetrieveConfigPost(d, "recheck", o, "load", "create")
  \/ RetrieveConfigPost(d, "reread", o, "load", "load")
  \/ RetrieveConfigPost(d, "getroot", o, "putroot", "pair")
Counting(d, o) ==
  \/ GetKeyPostCount(d, "anyPublic", publics, o, "public", "anyPrivate")
  \/ GetKeyPostCount(d, "anyPrivate", privates, o, "private", "idle")
Asking(d, o) ==
  \/ Open(d, o) \/ GetCredentialsPostCount(d, o) \/ RetrieveCredentialsPost(d, o)
  \/ DeleteCredentialsPost(d, o) \/ PushAtticCredentials(d, o) \/ Enter(d, o)
  \/ Reading(d, o) \/ CreateConfigPost(d, o) \/ AddRootDirToConfigPost(d, o)
  \/ (\E a \in Aliases : CreateFolderPost(d, a, o)) \/ RetrievePublicPrivateKeyPair(d, o)
  \/ Counting(d, o) \/ RegisterPublicKey(d, o) \/ RegisterPrivateKey(d, o)

LEMMA StepIs ==
    ASSUME Next
    PROVE  \E d \in Devices : Start(d) \/ Load(d) \/ \E o \in Outcomes : Asking(d, o)
  <1>1. PICK d \in Devices : Start(d) \/ Credentials(d) \/ Configure(d) \/ Keys(d)
    BY DEF Next
  <1>2. Reads \subseteq Outcomes
    BY DEF Reads
  <1>3. Credentials(d) => \E o \in Outcomes : Asking(d, o)
    BY <1>2 DEF Credentials, Asking
  <1>4. Configure(d) => Load(d) \/ \E o \in Outcomes : Asking(d, o)
    BY <1>2 DEF Configure, Asking, Reading
  <1>5. Keys(d) => \E o \in Outcomes : Asking(d, o)
    BY <1>2 DEF Keys, Asking, Counting
  <1> QED BY <1>1, <1>3, <1>4, <1>5

LEMMA AskingKept == ASSUME IInv, NEW d \in Devices, NEW o \in Outcomes, Asking(d, o) PROVE IInv'
  <1>1. Reading(d, o) => IInv'
    BY RetrieveIs DEF Reading
  <1>2. Counting(d, o) => IInv'
    BY KeyCountIs DEF Counting
  <1> QED BY <1>1, <1>2, OpenIs, CountIs, FetchIs, DeleteIs, PushIs, EnterIs, CreateIs, PutRootIs,
             FolderIs, PairIs, PublicIs, PrivateIs DEF Asking

LEMMA OpKept ==
    ASSUME NEW j \in Jobs, NEW to, NEW copy
    PROVE  [j EXCEPT !.at = to].op = j.op /\ [j EXCEPT !.at = to, !.copy = copy].op = j.op
  BY DEF Jobs

LEMMA ReadIs ==
    ASSUME IInv, NEW d \in Devices, NEW o \in Outcomes, Reading(d, o)
    PROVE  \/ Read(d, "config", o, "load", "recheck")
           \/ Read(d, "recheck", o, "load", "create")
           \/ Read(d, "reread", o, "load", "load")
           \/ Read(d, "getroot", o, "putroot", "pair")
  BY RetrieveIs DEF Reading

LEMMA ReadingIs ==
    ASSUME IInv, NEW d \in Devices, NEW o \in Outcomes, Reading(d, o)
    PROVE  \E at \in {"config", "recheck", "reread", "getroot"} :
             /\ Asked(d, at, o) /\ UNCHANGED <<server, device, told, registered>>
             /\ \E to, copy : job'[d] \in {[job[d] EXCEPT !.at = to], [job[d] EXCEPT !.at = to, !.copy = copy]}
  BY ReadIs DEF Read

LEMMA CountingIs ==
    ASSUME IInv, NEW d \in Devices, NEW o \in Outcomes, Counting(d, o)
    PROVE  \E at \in {"anyPublic", "anyPrivate"} :
             /\ Asked(d, at, o) /\ UNCHANGED <<server, device, told, registered>>
             /\ \/ job'[d] = Idle
                \/ \E to \in {"public", "anyPrivate", "private"} : job'[d] = [job[d] EXCEPT !.at = to]
  <1>1. CASE GetKeyPostCount(d, "anyPublic", publics, o, "public", "anyPrivate")
    <2>1. /\ Asked(d, "anyPublic", o) /\ UNCHANGED <<server, device, told, registered>>
          /\ IF o = "ok" /\ publics = <<>> THEN job'[d] = [job[d] EXCEPT !.at = "public"]
             ELSE job'[d] = [job[d] EXCEPT !.at = "anyPrivate"]
      BY <1>1, KeyCountIs
    <2> QED BY <2>1
  <1>2. CASE GetKeyPostCount(d, "anyPrivate", privates, o, "private", "idle")
    <2>1. /\ Asked(d, "anyPrivate", o) /\ UNCHANGED <<server, device, told, registered>>
          /\ IF o = "ok" /\ privates = <<>> THEN job'[d] = [job[d] EXCEPT !.at = "private"]
             ELSE IF "idle" = "idle" THEN job'[d] = Idle
             ELSE job'[d] = [job[d] EXCEPT !.at = "idle"]
      BY <1>2, KeyCountIs
    <2> QED BY <2>1
  <1> QED BY <1>1, <1>2 DEF Counting

\* Every request is one of the list, and leaves the other devices' jobs alone.
LEMMA AskingAsked ==
    ASSUME IInv, NEW d \in Devices, NEW o \in Outcomes, Asking(d, o)
    PROVE  \E at \in Requests : Asked(d, at, o)
  <1>1. Reading(d, o) \/ Counting(d, o) => \E at \in Requests : Asked(d, at, o)
    <2>1. CASE Reading(d, o)
      <3>1. PICK at \in {"config", "recheck", "reread", "getroot"} : Asked(d, at, o)
        BY <2>1, ReadingIs
      <3> QED BY <3>1 DEF Requests
    <2>2. CASE Counting(d, o)
      <3>1. PICK at \in {"anyPublic", "anyPrivate"} : Asked(d, at, o)
        BY <2>2, CountingIs
      <3> QED BY <3>1 DEF Requests
    <2> QED BY <2>1, <2>2
  <1>2. Open(d, o) => Asked(d, "open", o)
    BY OpenIs
  <1>3. GetCredentialsPostCount(d, o) => Asked(d, "count", o)
    BY CountIs
  <1>4. RetrieveCredentialsPost(d, o) => Asked(d, "fetch", o)
    BY FetchIs
  <1>5. DeleteCredentialsPost(d, o) => Asked(d, "delete", o)
    BY DeleteIs
  <1>6. PushAtticCredentials(d, o) => Asked(d, "push", o)
    BY PushIs
  <1>7. Enter(d, o) => Asked(d, "enter", o)
    BY EnterIs
  <1>8. CreateConfigPost(d, o) => Asked(d, "create", o)
    BY CreateIs
  <1>9. AddRootDirToConfigPost(d, o) => Asked(d, "putroot", o)
    BY PutRootIs
  <1>10. (\E a \in Aliases : CreateFolderPost(d, a, o)) => Asked(d, "folder", o)
    BY FolderIs
  <1>11. RetrievePublicPrivateKeyPair(d, o) => Asked(d, "pair", o)
    BY PairIs
  <1>12. RegisterPublicKey(d, o) => Asked(d, "public", o)
    BY PublicIs
  <1>13. RegisterPrivateKey(d, o) => Asked(d, "private", o)
    BY PrivateIs
  <1> QED BY <1>1, <1>2, <1>3, <1>4, <1>5, <1>6, <1>7, <1>8, <1>9, <1>10, <1>11, <1>12, <1>13
          DEF Asking, Requests

LEMMA InitIs == Init => IInv
  <1> SUFFICES ASSUME Init PROVE IInv
    OBVIOUS
  <1>1. \A S : <<>> \in Seq(S) /\ DOMAIN <<>> = {}
    OBVIOUS
  <1>2. ServerType /\ PostsOK
    BY <1>1 DEF Init, ServerType, PostsOK
  <1>3. JobsType /\ JobsOK
    BY IdleProper DEF Init, JobsType, JobsOK, Proper
  <1>4. DeviceType
    <2>1. <<>> \in [{} -> {"", Dir}]
      BY <1>1
    <2>2. <<>> \in UNION {[A -> {"", Dir}] : A \in SUBSET Aliases}
      BY <2>1
    <2> QED BY <2>2 DEF Init, DeviceType
  <1>5. CountsType
    <2>1. ops \in [Devices -> Nat] /\ failures \in 0 .. MaxFailures /\ registered \in Nat
      <3>1. ops = [d \in Devices |-> 0] /\ failures = 0 /\ registered = 0
        BY Zenon DEF Init
      <3>2. MaxFailures \in Nat
        BY ConstantsAssumption
      <3>3. failures \in 0 .. MaxFailures /\ registered \in Nat
        BY <3>1, <3>2
      <3>4. ops \in [Devices -> Nat]
        BY <3>1
      <3> QED BY <3>3, <3>4
    <2>2. disturbed \in BOOLEAN
      BY Zenon DEF Init
    <2> QED BY <2>1, <2>2 DEF CountsType
  <1> QED BY <1>2, <1>3, <1>4, <1>5 DEF IInv, TypeOK, ServerType, DeviceType, JobsType, CountsType

LEMMA InvariantKept == IInv /\ [Next]_vars => IInv'
  <1> SUFFICES ASSUME IInv, [Next]_vars PROVE IInv'
    OBVIOUS
  <1>1. CASE UNCHANGED vars
    <2>1. /\ UNCHANGED <<creds, publics, privates, configs, folders, job, told>>
          /\ UNCHANGED <<held, pair, table, rows, roots, entered>>
          /\ UNCHANGED <<ops, failures, registered, disturbed>>
      BY <1>1 DEF vars, server, device, counts
    <2> QED BY <2>1 DEF IInv, TypeOK, JobsOK, PostsOK
  <1>2. CASE Next
    <2>1. PICK d \in Devices : Start(d) \/ Load(d) \/ \E o \in Outcomes : Asking(d, o)
      BY <1>2, StepIs
    <2>2. CASE Start(d)
      BY <2>2, StartIs, BeginIs
    <2> QED BY <2>1, <2>2, LoadIs, AskingKept
  <1> QED BY <1>1, <1>2

\* The state is well typed, whatever requests fail and devices overlap.
THEOREM TypeCorrect == Spec => []TypeOK
  <1>1. IInv => TypeOK
    BY DEF IInv
  <1> QED BY <1>1, InitIs, InvariantKept, PTL DEF Spec

(***************************************************************************)
(* One master key                                                          *)
(***************************************************************************)
LEMMA KeptWithin ==
    ASSUME NEW d \in Devices, Others(d), NEW K, Kept \subseteq K,
           \A i \in DOMAIN creds' : creds'[i].mk \in K,
           \A e \in Devices : held'[e] # None => held'[e] \in K,
           job'[d].op \in {"change", "recover"} /\ job'[d].at # "open" => job'[d].mk \in K
    PROVE  Kept' \subseteq K
  <1>1. \A e \in Opened' : job'[e].mk \in K
    <2> SUFFICES ASSUME NEW e \in Opened', e # d PROVE job'[e].mk \in K
      BY DEF Opened
    <2>1. job'[e] = job[e] /\ e \in Opened
      BY DEF Opened, Others
    <2> QED BY <2>1 DEF Kept
  <1> QED BY <1>1 DEF Kept

\* A request that brings no credentials adds no key.
LEMMA KeptSame ==
    ASSUME IInv, NEW d \in Devices, Others(d), UNCHANGED <<creds, held>>,
           job'[d].op \in {"change", "recover"} /\ job'[d].at # "open" => job'[d].mk \in Kept
    PROVE  Kept' \subseteq Kept
  <1>1. \A i \in DOMAIN creds : creds[i].mk \in Kept
    BY DEF Kept
  <1>2. \A e \in Devices : held[e] # None => held[e] \in Kept
    BY DEF Kept
  <1> QED BY <1>1, <1>2, KeptWithin

LEMMA KeptAsked ==
    ASSUME IInv, NEW d \in Devices, NEW o \in Outcomes, Asking(d, o)
    PROVE  \/ registered' = registered /\ Kept' \subseteq Kept
           \/ registered' = registered + 1 /\ job[d].mk \in Stamps /\ Kept' \subseteq Kept \cup {job[d].mk}
  <1>1. job[d] \in Jobs /\ Credentialed(job[d])
    BY Before DEF Proper
  <1>2. /\ \A i \in DOMAIN creds : creds[i].mk \in Kept
        /\ \A e \in Devices : held[e] # None => held[e] \in Kept
        /\ d \in Opened => job[d].mk \in Kept
    BY DEF Kept
  <1>3. ASSUME Open(d, o)
        PROVE  registered' = registered /\ Kept' \subseteq Kept
    <2>1. creds # <<>> => Head(creds).mk \in Kept
      BY <1>2, NewestCredentials
    <2>2. /\ job'[d] = Idle \/ job'[d].mk \in Kept
          /\ Others(d) /\ UNCHANGED <<creds, held, registered>>
      BY <1>1, <1>3, <2>1, OpenIs DEF Asked, server, device, Jobs
    <2> QED BY <2>2, KeptSame, IdleProper
  <1>4. ASSUME GetCredentialsPostCount(d, o)
        PROVE  registered' = registered /\ Kept' \subseteq Kept
    <2>1. /\ job[d].at = "count" /\ Others(d) /\ UNCHANGED <<creds, held, registered>>
          /\ job'[d] = Idle \/ (job'[d].mk = job[d].mk /\ job'[d].op = job[d].op)
      BY <1>1, <1>4, CountIs DEF Asked, server, device, Jobs
    <2> QED BY <1>2, <2>1, KeptSame, IdleProper DEF Opened
  <1>5. ASSUME RetrieveCredentialsPost(d, o)
        PROVE  registered' = registered /\ Kept' \subseteq Kept
    <2>1. /\ job[d].at = "fetch" /\ Others(d) /\ UNCHANGED <<creds, held, registered>>
          /\ job'[d] = Idle \/ (job'[d].mk = job[d].mk /\ job'[d].op = job[d].op)
      BY <1>1, <1>5, FetchIs DEF Asked, server, device, Jobs
    <2> QED BY <1>2, <2>1, KeptSame, IdleProper DEF Opened
  <1>6. ASSUME DeleteCredentialsPost(d, o)
        PROVE  registered' = registered /\ Kept' \subseteq Kept
    <2>1. /\ job[d].at = "delete" /\ Others(d) /\ UNCHANGED <<held, registered>>
          /\ job'[d].mk = job[d].mk /\ job'[d].op = job[d].op
          /\ \A i \in DOMAIN creds' : \E k \in DOMAIN creds : creds'[i] = creds[k]
      BY <1>1, <1>6, DeleteIs DEF Asked, device, Jobs
    <2>2. \A i \in DOMAIN creds' : creds'[i].mk \in Kept
      BY <1>2, <2>1
    <2> QED BY <1>2, <2>1, <2>2, KeptWithin DEF Opened
  <1>7. ASSUME PushAtticCredentials(d, o)
        PROVE  \/ registered' = registered /\ Kept' \subseteq Kept
               \/ registered' = registered + 1 /\ job[d].mk \in Stamps /\ Kept' \subseteq Kept \cup {job[d].mk}
    <2>1. /\ job[d].at = "push" /\ Others(d) /\ UNCHANGED held
          /\ \A i \in DOMAIN creds' :
               creds'[i] = NewCredentials(d) \/ \E k \in DOMAIN creds : creds'[i] = creds[k]
          /\ IF job[d].op = "register"
             THEN job'[d] = [job[d] EXCEPT !.at = "enter"] /\ registered' = registered + 1
             ELSE job'[d] = Idle /\ registered' = registered
      BY <1>7, PushIs DEF Asked, device
    <2>2. NewCredentials(d).mk = job[d].mk
      BY DEF NewCredentials
    <2> DEFINE K == Kept \cup {job[d].mk}
    <2>3. \A i \in DOMAIN creds' : creds'[i].mk \in K
      BY <1>2, <2>1, <2>2
    <2>4. job'[d].op \in {"change", "recover"} => job'[d].mk \in K
      BY <1>1, <2>1, IdleProper DEF Jobs
    <2>5. Kept' \subseteq K
      <3>1. Kept \subseteq K /\ \A e \in Devices : held'[e] # None => held'[e] \in K
        BY <1>2, <2>1
      <3> HIDE DEF K
      <3> QED BY <2>1, <2>3, <2>4, <3>1, KeptWithin
    <2>6. job[d].op # "register" => job[d].mk \in Kept
      BY <1>1, <1>2, <2>1 DEF Credentialed, Opened, Jobs
    <2>7. job[d].op = "register" => job[d].mk \in Stamps
      BY <1>1 DEF Credentialed
    <2> QED BY <2>1, <2>5, <2>6, <2>7
  <1>8. ASSUME Enter(d, o)
        PROVE  registered' = registered /\ Kept' \subseteq Kept
    <2>1. /\ job[d].at = "enter" /\ Others(d) /\ UNCHANGED <<creds, registered>>
          /\ job'[d] = Idle \/ job'[d].op = job[d].op
          /\ \/ UNCHANGED held
             \/ creds # <<>> /\ held' = [held EXCEPT ![d] = Head(creds).mk]
      BY <1>1, <1>8, EnterIs DEF Asked, server, Jobs
    <2>2. creds # <<>> => Head(creds).mk \in Kept
      BY <1>2, NewestCredentials
    <2>3. \A e \in Devices : held'[e] # None => held'[e] \in Kept
      BY <1>2, <2>1, <2>2, Before DEF DeviceType
    <2>4. job'[d].op \notin {"change", "recover"}
      BY <1>1, <2>1, IdleProper DEF Credentialed
    <2> QED BY <1>2, <2>1, <2>3, <2>4, KeptWithin
  <1>9. ASSUME NEW at \in Requests \ {"open", "count", "fetch", "delete", "push"},
               job[d].at = at, Others(d), UNCHANGED <<creds, held, registered>>,
               job'[d] = Idle \/ job'[d].op = job[d].op
        PROVE  registered' = registered /\ Kept' \subseteq Kept
    <2>1. job'[d].op \notin {"change", "recover"}
      BY <1>1, <1>9, IdleProper DEF Credentialed
    <2> QED BY <1>9, <2>1, KeptSame
  <1>10. ASSUME Reading(d, o) \/ CreateConfigPost(d, o) \/ AddRootDirToConfigPost(d, o)
                \/ (\E a \in Aliases : CreateFolderPost(d, a, o)) \/ RetrievePublicPrivateKeyPair(d, o)
                \/ Counting(d, o) \/ RegisterPublicKey(d, o) \/ RegisterPrivateKey(d, o)
         PROVE  registered' = registered /\ Kept' \subseteq Kept
    <2> DEFINE Later(at) == /\ job[d].at = at /\ Others(d) /\ UNCHANGED <<creds, held, registered>>
                            /\ job'[d] = Idle \/ job'[d].op = job[d].op
    <2>1. Reading(d, o) => \E at \in {"config", "recheck", "reread", "getroot"} : Later(at)
      <3> SUFFICES ASSUME Reading(d, o)
                   PROVE  \E at \in {"config", "recheck", "reread", "getroot"} : Later(at)
        OBVIOUS
      <3>1. PICK at \in {"config", "recheck", "reread", "getroot"} :
              /\ Asked(d, at, o) /\ UNCHANGED <<server, device, registered>>
              /\ \E to, copy : job'[d] \in {[job[d] EXCEPT !.at = to],
                                           [job[d] EXCEPT !.at = to, !.copy = copy]}
        BY ReadingIs
      <3>2. job'[d].op = job[d].op
        <4>1. PICK to, copy : \/ job'[d] = [job[d] EXCEPT !.at = to]
                              \/ job'[d] = [job[d] EXCEPT !.at = to, !.copy = copy]
          BY <3>1
        <4>2. CASE job'[d] = [job[d] EXCEPT !.at = to]
          BY <1>1, <4>2, OpKept
        <4>3. CASE job'[d] = [job[d] EXCEPT !.at = to, !.copy = copy]
          BY <1>1, <4>3, OpKept
        <4> QED BY <4>1, <4>2, <4>3
      <3>3. Later(at)
        BY <3>1, <3>2 DEF Asked, server, device
      <3> QED BY <3>3
    <2>2. CreateConfigPost(d, o) => Later("create")
      BY <1>1, CreateIs DEF Asked, device, Jobs
    <2>3. AddRootDirToConfigPost(d, o) => Later("putroot")
      BY <1>1, PutRootIs DEF Asked, device, Jobs
    <2>4. (\E a \in Aliases : CreateFolderPost(d, a, o)) => Later("folder")
      BY <1>1, FolderIs DEF Asked, Jobs
    <2>5. RetrievePublicPrivateKeyPair(d, o) => Later("pair")
      BY <1>1, PairIs DEF Asked, server, Jobs
    <2>6. Counting(d, o) => \E at \in {"anyPublic", "anyPrivate"} : Later(at)
      <3> SUFFICES ASSUME Counting(d, o)
                   PROVE  \E at \in {"anyPublic", "anyPrivate"} : Later(at)
        OBVIOUS
      <3>1. PICK at \in {"anyPublic", "anyPrivate"} :
              /\ Asked(d, at, o) /\ UNCHANGED <<server, device, registered>>
              /\ job'[d] = Idle \/ \E to : job'[d] = [job[d] EXCEPT !.at = to]
        BY CountingIs
      <3>2. job'[d] = Idle \/ job'[d].op = job[d].op
        BY <1>1, <3>1, OpKept
      <3>3. Later(at)
        BY <3>1, <3>2 DEF Asked, server, device
      <3> QED BY <3>3
    <2>7. RegisterPublicKey(d, o) => Later("public")
      BY <1>1, PublicIs DEF Asked, device, Jobs
    <2>8. RegisterPrivateKey(d, o) => Later("private")
      BY <1>1, PrivateIs DEF Asked, device, Jobs
    <2>9. \E at \in Requests \ {"open", "count", "fetch", "delete", "push"} : Later(at)
      <3> HIDE DEF Later
      <3> QED BY <1>10, <2>1, <2>2, <2>3, <2>4, <2>5, <2>6, <2>7, <2>8 DEF Requests
    <2> QED BY <1>9, <2>9
  <1> QED BY <1>3, <1>4, <1>5, <1>6, <1>7, <1>8, <1>10 DEF Asking

LEMMA OneKeyKept == IInv /\ OneKey /\ [Next]_vars => OneKey'
  <1> SUFFICES ASSUME IInv, OneKey, [Next]_vars PROVE OneKey'
    OBVIOUS
  <1>1. registered \in Nat
    BY DEF IInv, TypeOK
  <1>2. ASSUME registered' = registered, Kept' \subseteq Kept
        PROVE  OneKey'
    BY <1>2 DEF OneKey
  <1>3. CASE UNCHANGED vars
    <2>1. UNCHANGED <<creds, held, job, registered>>
      BY <1>3 DEF vars, server, device, counts
    <2> QED BY <2>1, <1>2 DEF Kept, Opened
  <1>4. CASE Next
    <2>1. PICK d \in Devices : Start(d) \/ Load(d) \/ \E o \in Outcomes : Asking(d, o)
      BY <1>4, StepIs
    <2>2. CASE Start(d)
      <3>1. /\ Others(d) /\ UNCHANGED <<creds, held, registered>>
            /\ ~(job'[d].op \in {"change", "recover"} /\ job'[d].at # "open")
        BY <2>2, StartIs, BeginIs DEF Others, server, device, FirstRequests
      <3> QED BY <3>1, <1>2, KeptSame
    <2>3. CASE Load(d)
      <3>1. job[d] \in Jobs /\ Credentialed(job[d])
        BY Before DEF Proper
      <3>2. /\ Others(d) /\ UNCHANGED <<creds, held, registered>>
            /\ job[d].at = "load" /\ job'[d].op = job[d].op
        BY <2>3, <3>1, LoadIs DEF server, counts, Jobs
      <3> QED BY <1>2, <3>1, <3>2, KeptSame DEF Credentialed
    <2>4. CASE \E o \in Outcomes : Asking(d, o)
      <3>1. \/ registered' = registered /\ Kept' \subseteq Kept
            \/ /\ registered' = registered + 1 /\ job[d].mk \in Stamps
               /\ Kept' \subseteq Kept \cup {job[d].mk}
        BY <2>4, KeptAsked
      <3>2. CASE /\ registered' = registered + 1 /\ job[d].mk \in Stamps
                 /\ Kept' \subseteq Kept \cup {job[d].mk}
        BY <1>1, <3>2 DEF OneKey
      <3> QED BY <1>2, <3>1, <3>2
    <2> QED BY <2>1, <2>2, <2>3, <2>4
  <1> QED BY <1>3, <1>4

\* One registration, one master key: what the server keeps and what the devices
\* hold is the key of that registration, whatever passphrases are changed and
\* recovered, requests fail and devices overlap (passphrase.cpp: every other
\* operation pushes the key it took from the newest credentials).
THEOREM OneMasterKeyHolds == Spec => []OneMasterKey
  <1>1. Init => OneKey
    <2> SUFFICES ASSUME Init PROVE OneKey
      OBVIOUS
    <2>1. /\ creds = <<>> /\ registered = 0 /\ \A d \in Devices : held[d] = None /\ job[d] = Idle
      BY DEF Init
    <2>2. DOMAIN creds = {} /\ Opened = {}
      BY <2>1, IdleProper DEF Opened
    <2> QED BY <2>1, <2>2 DEF OneKey, Kept
  <1>2. IInv /\ OneKey => OneMasterKey
    <2> SUFFICES ASSUME IInv, OneKey, registered <= 1
                 PROVE  Cardinality({creds[i].mk : i \in DOMAIN creds}
                                      \cup {held[d] : d \in {d \in Devices : held[d] # None}}) <= 1
      BY DEF OneMasterKey
    <2> DEFINE kept == {creds[i].mk : i \in DOMAIN creds}
                       \cup {held[d] : d \in {d \in Devices : held[d] # None}}
    <2>1. kept \subseteq Kept
      BY DEF Kept
    <2>2. registered = 0 \/ registered = 1
      BY Types DEF IInv, CountsType
    <2> HIDE DEF kept
    <2>3. kept = {} \/ \E k : kept = {k}
      BY <2>1, <2>2 DEF OneKey
    <2>4. Cardinality(kept) = 0 \/ Cardinality(kept) = 1
      BY <2>3, FS_EmptySet, FS_Singleton
    <2> QED BY <2>4 DEF kept
  <1> QED BY <1>1, <1>2, InitIs, InvariantKept, OneKeyKept, PTL DEF Spec

(***************************************************************************)
(* The credentials stay on the server                                      *)
(***************************************************************************)
LEMMA CredentialsSame ==
    ASSUME IInv, CredentialsKept, NEW d \in Devices, Others(d), UNCHANGED <<creds, registered>>,
           failures' = 0 => failures = 0, job[d].at # "push"
    PROVE  CredentialsKept'
  BY DEF CredentialsKept, Others

LEMMA CredentialsKeptAsked ==
    ASSUME IInv, CredentialsKept, PutRevives, NEW d \in Devices, NEW o \in Outcomes, Asking(d, o)
    PROVE  CredentialsKept'
  <1>1. job[d] \in Jobs /\ Credentialed(job[d])
    BY Before DEF Proper
  <1>2. ASSUME DeleteCredentialsPost(d, o)
        PROVE  CredentialsKept'
    <2>1. job'[d].at = "push" /\ job'[d].post \in Stamps
      BY <1>1, <1>2, DeleteIs DEF Asked, Credentialed, Jobs
    <2> QED BY <2>1, StampType DEF CredentialsKept, IInv
  <1>3. ASSUME PushAtticCredentials(d, o)
        PROVE  CredentialsKept'
    BY <1>3, PushIs DEF Asked, CredentialsKept
  <1>4. ASSUME NEW at, Asked(d, at, o), at # "push", UNCHANGED <<creds, registered>>
        PROVE  CredentialsKept'
    BY <1>4, CredentialsSame DEF Asked
  <1> DEFINE Other == \E at : Asked(d, at, o) /\ at # "push" /\ UNCHANGED <<creds, registered>>
  <1>5. Open(d, o) \/ GetCredentialsPostCount(d, o) \/ RetrieveCredentialsPost(d, o) \/ Enter(d, o) => Other
    BY OpenIs, CountIs, FetchIs, EnterIs DEF server
  <1>6. CreateConfigPost(d, o) \/ AddRootDirToConfigPost(d, o) \/ RetrievePublicPrivateKeyPair(d, o) => Other
    BY CreateIs, PutRootIs, PairIs DEF server
  <1>7. (\E a \in Aliases : CreateFolderPost(d, a, o)) => Other
    BY FolderIs DEF server
  <1>8. RegisterPublicKey(d, o) \/ RegisterPrivateKey(d, o) => Other
    BY PublicIs, PrivateIs
  <1>9. Reading(d, o) => Other
    BY ReadIs DEF Read, server
  <1>10. Counting(d, o) => Other
    BY KeyCountIs DEF Counting, server
  <1> QED BY <1>2, <1>3, <1>4, <1>5, <1>6, <1>7, <1>8, <1>9, <1>10 DEF Asking

\* Without failed requests the account keeps credentials on the server, except
\* between the DELETE and the PUT of a change (passphrase.cpp:36, 56), if the
\* server takes a PUT to a deleted post.
THEOREM CredentialsKeptHolds == PutRevives => (Spec => []CredentialsKept)
  <1> SUFFICES ASSUME PutRevives PROVE Spec => []CredentialsKept
    OBVIOUS
  <1>1. Init => CredentialsKept
    <2>1. Init => registered = 0
      BY Zenon DEF Init
    <2> QED BY <2>1 DEF CredentialsKept
  <1>2. IInv /\ CredentialsKept /\ [Next]_vars => CredentialsKept'
    <2> SUFFICES ASSUME IInv, CredentialsKept, [Next]_vars PROVE CredentialsKept'
      OBVIOUS
    <2>1. CASE UNCHANGED vars
      BY <2>1 DEF vars, server, counts, CredentialsKept
    <2>2. CASE Next
      <3>1. PICK d \in Devices : Start(d) \/ Load(d) \/ \E o \in Outcomes : Asking(d, o)
        BY <2>2, StepIs
      <3>2. CASE Start(d)
        <4>1. /\ Others(d) /\ UNCHANGED <<creds, registered, failures>> /\ job[d] = Idle
          BY <3>2, StartIs, BeginIs DEF Others, server
        <4> QED BY <4>1, IdleProper, CredentialsSame
      <3>3. CASE Load(d)
        <4>1. Others(d) /\ UNCHANGED <<creds, registered, failures>> /\ job[d].at = "load"
          BY <3>3, LoadIs DEF server, counts
        <4> QED BY <4>1, CredentialsSame
      <3> QED BY <3>1, <3>2, <3>3, CredentialsKeptAsked
    <2> QED BY <2>1, <2>2
  <1> QED BY <1>1, <1>2, InitIs, InvariantKept, PTL DEF Spec

(***************************************************************************)
(* The roots in the configuration post                                     *)
(***************************************************************************)
\* The roots in the newest configuration post are lost only to a device that read
\* another version of it: the post is replaced by a copy with an entry added
\* (confighandler.cpp:205), or by a new post whose maker read none.
THEOREM RootsKeptHolds == Spec => RootsKept
  <1> DEFINE Lost ==
        configs # <<>> /\ configs'[1] # configs[1] =>
          \/ configs[1].entries \subseteq configs'[1].entries
          \/ \E d \in Devices : job[d].at \in {"create", "putroot"} /\ job[d].copy # configs[1]
  <1>1. IInv /\ [Next]_vars => [Lost]_vars
    <2> SUFFICES ASSUME IInv, Next, configs # <<>>, configs'[1] # configs[1] PROVE Lost
      OBVIOUS
    <2>1. PICK d \in Devices : Start(d) \/ Load(d) \/ \E o \in Outcomes : Asking(d, o)
      BY StepIs
    <2>2. CASE Start(d)
      BY <2>2, StartIs, BeginIs DEF server
    <2>3. CASE Load(d)
      BY <2>3, LoadIs DEF server
    <2>4. ASSUME NEW o \in Outcomes, Asking(d, o)
          PROVE  Lost
      <3>1. CASE CreateConfigPost(d, o)
        <4>1. job[d].at = "create" /\ job[d].copy = NoPost
          BY <3>1, CreateIs, Before DEF Asked, Proper, Configured
        <4>2. configs[1] \in ConfigPosts
          BY Before, NewestIs DEF ServerType
        <4>3. configs[1].id # NoPost.id
          BY <4>2, StampType DEF IInv, ConfigPosts, NoPost
        <4> QED BY <4>1, <4>3
      <3>2. CASE AddRootDirToConfigPost(d, o)
        BY <3>2, PutRootIs DEF Asked
      <3>3. Reading(d, o) \/ Counting(d, o) => UNCHANGED configs
        BY ReadIs, KeyCountIs DEF Read, Counting, server
      <3>4. CASE Open(d, o) \/ GetCredentialsPostCount(d, o) \/ RetrieveCredentialsPost(d, o)
                 \/ DeleteCredentialsPost(d, o) \/ PushAtticCredentials(d, o) \/ Enter(d, o)
        BY <3>4, OpenIs, CountIs, FetchIs, DeleteIs, PushIs, EnterIs DEF server
      <3>5. CASE (\E a \in Aliases : CreateFolderPost(d, a, o)) \/ RetrievePublicPrivateKeyPair(d, o)
                 \/ RegisterPublicKey(d, o) \/ RegisterPrivateKey(d, o)
        BY <3>5, FolderIs, PairIs, PublicIs, PrivateIs DEF server
      <3> QED BY <2>4, <3>1, <3>2, <3>3, <3>4, <3>5 DEF Asking
    <2> QED BY <2>1, <2>2, <2>3, <2>4
  <1> QED BY <1>1, InitIs, InvariantKept, PTL DEF Spec, RootsKept

(***************************************************************************)
(* One operation at a time: the key pair                                   *)
(***************************************************************************)
Still == UNCHANGED <<creds, publics, privates, held, pair>>
After(d) == IF job'[d] = Idle THEN Settled' ELSE Undertaking(d)'

ConfigRequests ==
  {"config", "recheck", "create", "reread", "load", "folder", "getroot", "putroot", "pair"}

LEMMA SettledStill == Settled /\ Still => Settled'
  BY DEF Settled, Still, Fresh, PairedBut

\* What is known of the keys does not change while a device configures itself.
LEMMA ConfigStill ==
    ASSUME IInv, NEW d \in Devices, Undertaking(d), Still, UNCHANGED ops,
           job[d].at \in ConfigRequests, job'[d].at \in ConfigRequests, job'[d].op = job[d].op
    PROVE  Undertaking(d)'
  <1>1. job[d].op \in {"register", "enter"}
    BY Before DEF Proper, Credentialed, ConfigRequests, Jobs
  <1>2. job[d].op = "register" => Registering(d)'
    BY DEF Undertaking, Registering, Still, ConfigRequests
  <1>3. job[d].op = "enter" => creds' # <<>> /\ \E k \in Stamps : PairedBut({d}, k)'
    BY DEF Undertaking, Still, PairedBut, ConfigRequests
  <1> QED BY <1>1, <1>2, <1>3 DEF Undertaking, ConfigRequests

LEMMA AfterOpen ==
    ASSUME IInv, NEW d \in Devices, Undertaking(d), Open(d, "ok"), "ok" \in Outcomes PROVE After(d)
  <1>1. job[d] \in Jobs /\ Credentialed(job[d]) /\ job[d].at = "open" /\ Still
    BY OpenIs, Before DEF Asked, Proper, Still, server, device
  <1>2. job[d].op \in {"change", "recover"} /\ Settled
    BY <1>1 DEF Credentialed, Jobs, Undertaking
  <1>3. CASE job'[d] = Idle
    BY <1>1, <1>2, <1>3, SettledStill DEF After
  <1>4. CASE job'[d] # Idle
    <2>1. /\ creds # <<>> /\ job'[d].at = "count" /\ job'[d].op = job[d].op
      BY <1>1, <1>4, OpenIs DEF Jobs
    <2>2. creds' # <<>> /\ \E k \in Stamps : PairedBut({}, k)'
      BY <1>1, <1>2, <2>1 DEF Settled, Fresh, Still, PairedBut
    <2> QED BY <1>2, <1>4, <2>1, <2>2 DEF After, Undertaking
  <1> QED BY <1>3, <1>4

LEMMA AfterCount ==
    ASSUME IInv, NEW d \in Devices, Undertaking(d), GetCredentialsPostCount(d, "ok"), "ok" \in Outcomes
    PROVE  After(d)
  <1>1. job[d] \in Jobs /\ Credentialed(job[d]) /\ job[d].at = "count" /\ Still
    BY CountIs, Before DEF Asked, Proper, Still, server, device
  <1>2. CASE job[d].op = "register"
    <2>1. Settled
      BY <1>1, <1>2 DEF Undertaking, Registering
    <2>2. CASE creds # <<>>
      BY <1>1, <1>2, <2>1, <2>2, CountIs, SettledStill DEF After
    <2>3. CASE creds = <<>>
      <3>1. job'[d].at = "push" /\ job'[d].op = "register" /\ job'[d] # Idle
        BY <1>1, <1>2, <2>3, CountIs, IdleProper DEF Jobs
      <3>2. Fresh'
        BY <1>1, <2>1, <2>3 DEF Settled, Fresh, Still
      <3> QED BY <3>1, <3>2 DEF After, Undertaking, Registering
    <2> QED BY <2>2, <2>3
  <1>3. CASE job[d].op # "register"
    <2>1. /\ job[d].op \in {"change", "recover"}
          /\ creds # <<>> /\ \E k \in Stamps : PairedBut({}, k)
      BY <1>1, <1>3 DEF Credentialed, Jobs, Undertaking
    <2>2. job'[d].at = "fetch" /\ job'[d].op = job[d].op /\ job'[d] # Idle
      BY <1>1, <1>3, <2>1, CountIs, IdleProper DEF Jobs
    <2>3. creds' # <<>> /\ \E k \in Stamps : PairedBut({}, k)'
      BY <1>1, <2>1 DEF Still, PairedBut
    <2> QED BY <2>1, <2>2, <2>3 DEF After, Undertaking
  <1> QED BY <1>2, <1>3

LEMMA AfterFetch ==
    ASSUME IInv, NEW d \in Devices, Undertaking(d), RetrieveCredentialsPost(d, "ok"), "ok" \in Outcomes
    PROVE  After(d)
  <1>1. job[d] \in Jobs /\ Credentialed(job[d]) /\ job[d].at = "fetch" /\ Still
    BY FetchIs, Before DEF Asked, Proper, Still, server, device
  <1>2. /\ job[d].op \in {"change", "recover"}
        /\ creds # <<>> /\ \E k \in Stamps : PairedBut({}, k)
    BY <1>1 DEF Credentialed, Jobs, Undertaking
  <1>3. job'[d].at = "delete" /\ job'[d].op = job[d].op /\ job'[d] # Idle
    BY <1>1, <1>2, FetchIs, IdleProper DEF Jobs
  <1>4. creds' # <<>> /\ \E k \in Stamps : PairedBut({}, k)'
    BY <1>1, <1>2 DEF Still, PairedBut
  <1> QED BY <1>2, <1>3, <1>4 DEF After, Undertaking

LEMMA AfterDelete ==
    ASSUME IInv, NEW d \in Devices, Undertaking(d), DeleteCredentialsPost(d, "ok"), "ok" \in Outcomes
    PROVE  After(d)
  <1>1. /\ job[d] \in Jobs /\ Credentialed(job[d]) /\ job[d].at = "delete"
        /\ UNCHANGED <<publics, privates, held, pair>>
    BY DeleteIs, Before DEF Asked, Proper, device
  <1>2. job[d].op \in {"change", "recover"} /\ \E k \in Stamps : PairedBut({}, k)
    BY <1>1 DEF Credentialed, Jobs, Undertaking
  <1>3. job'[d].at = "push" /\ job'[d].op = job[d].op /\ job'[d] # Idle
    BY <1>1, <1>2, DeleteIs, IdleProper DEF Jobs
  <1>4. \E k \in Stamps : PairedBut({}, k)'
    BY <1>1, <1>2 DEF PairedBut
  <1> QED BY <1>2, <1>3, <1>4 DEF After, Undertaking

LEMMA AfterPush ==
    ASSUME IInv, PutRevives, NEW d \in Devices, Undertaking(d), PushAtticCredentials(d, "ok"),
           "ok" \in Outcomes
    PROVE  After(d)
  <1>1. /\ job[d] \in Jobs /\ Credentialed(job[d]) /\ job[d].at = "push"
        /\ UNCHANGED <<publics, privates, held, pair>>
        /\ creds' # <<>> /\ Head(creds') = NewCredentials(d)
    BY PushIs, Before DEF Asked, Proper, device
  <1>2. CASE job[d].op = "register"
    <2>1. Fresh
      BY <1>1, <1>2 DEF Undertaking, Registering
    <2>2. /\ job'[d].at = "enter" /\ job'[d].op = "register" /\ job'[d] # Idle
          /\ job'[d].phrase = job[d].phrase
      BY <1>1, <1>2, PushIs, IdleProper DEF Jobs
    <2>3. Head(creds').phrase = job[d].phrase
      BY <1>1, <1>2 DEF NewCredentials, Credentialed
    <2>4. Registering(d)'
      BY <1>1, <2>1, <2>2, <2>3 DEF Registering, Fresh
    <2> QED BY <2>2, <2>4 DEF After, Undertaking
  <1>3. CASE job[d].op # "register"
    <2>1. \E k \in Stamps : PairedBut({}, k)
      BY <1>1, <1>3 DEF Credentialed, Jobs, Undertaking
    <2>2. \E k \in Stamps : PairedBut({}, k)'
      BY <1>1, <2>1 DEF PairedBut
    <2>3. job'[d] = Idle
      BY <1>3, PushIs
    <2> QED BY <1>1, <2>2, <2>3 DEF After, Settled
  <1> QED BY <1>2, <1>3

LEMMA AfterEnter ==
    ASSUME IInv, NEW d \in Devices, Undertaking(d), Enter(d, "ok"), "ok" \in Outcomes PROVE After(d)
  <1>1. /\ job[d] \in Jobs /\ Credentialed(job[d]) /\ job[d].at = "enter" /\ ops' = ops
        /\ UNCHANGED <<creds, publics, privates>> /\ held \in [Devices -> Stamps \cup {None}]
    BY EnterIs, Before DEF Asked, Proper, server, DeviceType
  <1>2. CASE job[d].op = "register"
    <2>1. /\ creds # <<>> /\ privates = <<>> /\ \A e \in Devices \ {d} : held[e] = None
          /\ publics = <<>> /\ Head(creds).phrase = job[d].phrase
      BY <1>1, <1>2 DEF Undertaking, Registering
    <2>2. /\ held' = [held EXCEPT ![d] = Head(creds).mk]
          /\ job'[d] = [job[d] EXCEPT !.at = "config"]
      BY <2>1, EnterIs
    <2>3. job'[d].at = "config" /\ job'[d].op = "register" /\ job'[d] # Idle
      BY <1>1, <1>2, <2>2 DEF Jobs, Idle
    <2>4. Registering(d)'
      BY <1>1, <2>1, <2>2, <2>3 DEF Registering
    <2> QED BY <2>3, <2>4 DEF After, Undertaking
  <1>3. CASE job[d].op # "register"
    <2>1. job[d].op = "enter" /\ Settled
      BY <1>1, <1>3 DEF Credentialed, Jobs, Undertaking
    <2>2. CASE job'[d] = Idle
      <3>1. Still
        BY <1>1, <2>1, <2>2, EnterIs, IdleProper DEF Still, Jobs
      <3> QED BY <2>1, <2>2, <3>1, SettledStill DEF After
    <2>3. CASE job'[d] # Idle
      <3>1. /\ creds # <<>> /\ held' = [held EXCEPT ![d] = Head(creds).mk] /\ UNCHANGED pair
            /\ job'[d] = [job[d] EXCEPT !.at = "config"]
        BY <2>1, <2>3, EnterIs
      <3>2. PICK k \in Stamps : PairedBut({}, k)
        BY <2>1, <3>1 DEF Settled, Fresh
      <3>3. PairedBut({d}, k)'
        BY <1>1, <3>1, <3>2 DEF PairedBut
      <3>4. job'[d].at = "config" /\ job'[d].op = "enter"
        BY <1>1, <2>1, <3>1 DEF Jobs
      <3> QED BY <1>1, <2>3, <3>1, <3>3, <3>4 DEF After, Undertaking
    <2> QED BY <2>2, <2>3
  <1> QED BY <1>2, <1>3

LEMMA AfterPair ==
    ASSUME IInv, NEW d \in Devices, Undertaking(d), RetrievePublicPrivateKeyPair(d, "ok"),
           "ok" \in Outcomes
    PROVE  After(d)
  <1>1. /\ job[d] \in Jobs /\ Credentialed(job[d]) /\ job[d].at = "pair" /\ ops' = ops
        /\ UNCHANGED <<creds, publics, privates, held>> /\ pair \in [Devices -> Stamps \cup {None}]
    BY PairIs, Before DEF Asked, Proper, server, DeviceType
  <1>2. CASE job[d].op = "register"
    <2>1. job'[d] = [job[d] EXCEPT !.at = "anyPublic"] /\ pair' = [pair EXCEPT ![d] = Stamp(d)]
      BY <1>2, PairIs
    <2>2. job'[d].at = "anyPublic" /\ job'[d].op = "register" /\ job'[d] # Idle
      BY <1>1, <1>2, <2>1 DEF Jobs, Idle
    <2>3. pair'[d] = Stamp(d) /\ Stamp(d)' = Stamp(d)
      BY <1>1, <2>1 DEF Stamp
    <2>4. Registering(d)'
      BY <1>1, <1>2, <2>2, <2>3 DEF Registering, Undertaking
    <2> QED BY <2>2, <2>4 DEF After, Undertaking
  <1>3. CASE job[d].op # "register"
    <2>1. job[d].op = "enter"
      BY <1>1, <1>3 DEF Credentialed, Jobs
    <2>2. PICK k \in Stamps : creds # <<>> /\ PairedBut({d}, k)
      BY <1>1, <2>1 DEF Undertaking
    <2>3. privates # <<>> /\ Head(privates) = k
      BY <2>2 DEF PairedBut
    <2>4. job'[d] = Idle /\ pair' = [pair EXCEPT ![d] = k]
      BY <1>3, <2>3, PairIs
    <2>5. PairedBut({}, k)'
      BY <1>1, <2>2, <2>4 DEF PairedBut
    <2> QED BY <1>1, <2>2, <2>4, <2>5 DEF After, Settled
  <1> QED BY <1>2, <1>3

LEMMA AfterKeyCount ==
    ASSUME IInv, NEW d \in Devices, Undertaking(d), Counting(d, "ok"), "ok" \in Outcomes PROVE After(d)
  <1>1. job[d] \in Jobs /\ Credentialed(job[d])
    BY Before DEF Proper
  <1>2. CASE GetKeyPostCount(d, "anyPublic", publics, "ok", "public", "anyPrivate")
    <2>1. /\ job[d].at = "anyPublic" /\ ops' = ops /\ Still
          /\ publics = <<>> => job'[d] = [job[d] EXCEPT !.at = "public"]
      BY <1>2, KeyCountIs DEF Asked, Still, server, device
    <2>2. job[d].op = "register" /\ Registering(d)
      BY <1>1, <2>1 DEF Credentialed, Jobs, Undertaking
    <2>3. job'[d].at = "public" /\ job'[d].op = "register" /\ job'[d] # Idle
      BY <1>1, <2>1, <2>2, IdleProper DEF Jobs, Registering
    <2>4. Registering(d)'
      BY <2>1, <2>2, <2>3 DEF Registering, Still, Stamp
    <2> QED BY <2>3, <2>4 DEF After, Undertaking
  <1>3. CASE GetKeyPostCount(d, "anyPrivate", privates, "ok", "private", "idle")
    <2>1. /\ job[d].at = "anyPrivate" /\ ops' = ops /\ Still
          /\ privates = <<>> => job'[d] = [job[d] EXCEPT !.at = "private"]
      BY <1>3, KeyCountIs DEF Asked, Still, server, device
    <2>2. job[d].op = "register" /\ Registering(d)
      BY <1>1, <2>1 DEF Credentialed, Jobs, Undertaking
    <2>3. job'[d].at = "private" /\ job'[d].op = "register" /\ job'[d] # Idle
      BY <1>1, <2>1, <2>2, IdleProper DEF Jobs, Registering
    <2>4. Registering(d)'
      BY <2>1, <2>2, <2>3 DEF Registering, Still, Stamp
    <2> QED BY <2>3, <2>4 DEF After, Undertaking
  <1> QED BY <1>2, <1>3 DEF Counting

LEMMA AfterPublic ==
    ASSUME IInv, NEW d \in Devices, Undertaking(d), RegisterPublicKey(d, "ok"), "ok" \in Outcomes
    PROVE  After(d)
  <1>1. /\ job[d] \in Jobs /\ Credentialed(job[d]) /\ job[d].at = "public" /\ ops' = ops
        /\ UNCHANGED <<creds, privates, held, pair>> /\ publics' = <<Stamp(d)>> \o publics
        /\ job'[d] = [job[d] EXCEPT !.at = "anyPrivate"]
    BY PublicIs, Before DEF Asked, Proper, device
  <1>2. job[d].op = "register" /\ Registering(d)
    BY <1>1 DEF Credentialed, Jobs, Undertaking
  <1>3. job'[d].at = "anyPrivate" /\ job'[d].op = "register" /\ job'[d] # Idle
    BY <1>1, <1>2, IdleProper DEF Jobs
  <1>4. publics' = <<Stamp(d)>> /\ Stamp(d)' = Stamp(d)
    BY <1>1, <1>2 DEF Registering, Stamp
  <1>5. Registering(d)'
    BY <1>1, <1>2, <1>3, <1>4 DEF Registering
  <1> QED BY <1>3, <1>5 DEF After, Undertaking

LEMMA AfterPrivate ==
    ASSUME IInv, NEW d \in Devices, Undertaking(d), RegisterPrivateKey(d, "ok"), "ok" \in Outcomes
    PROVE  After(d)
  <1>1. /\ job[d] \in Jobs /\ Credentialed(job[d]) /\ job[d].at = "private"
        /\ UNCHANGED <<creds, publics, held, pair>> /\ privates' = <<Stamp(d)>> \o privates
        /\ job'[d] = Idle
    BY PrivateIs, Before DEF Asked, Proper, device
  <1>2. job[d].op = "register" /\ Registering(d)
    BY <1>1 DEF Credentialed, Jobs, Undertaking
  <1>3. privates' = <<Stamp(d)>> /\ publics' = <<Stamp(d)>> /\ pair'[d] = Stamp(d) /\ creds' # <<>>
    BY <1>1, <1>2 DEF Registering
  <1>4. \A e \in Devices : held'[e] # None => pair'[e] = Stamp(d)
    BY <1>1, <1>2, <1>3 DEF Registering
  <1>5. Stamp(d) \in Stamps
    BY StampType DEF IInv
  <1>6. PICK k \in Stamps : k = Stamp(d)
    BY <1>5
  <1>7. PairedBut({}, k)'
    BY <1>3, <1>4, <1>6 DEF PairedBut
  <1> QED BY <1>1, <1>3, <1>7 DEF After, Settled

LEMMA AfterConfig ==
    ASSUME IInv, NEW d \in Devices, Undertaking(d), "ok" \in Outcomes,
           \/ Reading(d, "ok") \/ CreateConfigPost(d, "ok") \/ AddRootDirToConfigPost(d, "ok")
           \/ \E a \in Aliases : CreateFolderPost(d, a, "ok")
    PROVE  After(d)
  <1> DEFINE Moves == /\ Still /\ UNCHANGED ops /\ job[d].at \in ConfigRequests
                      /\ job'[d].at \in ConfigRequests /\ job'[d].op = job[d].op
  <1>1. job[d] \in Jobs
    BY Before
  <1>2. CreateConfigPost(d, "ok") => Moves
    BY <1>1, CreateIs DEF Asked, Still, device, Jobs, ConfigRequests
  <1>3. AddRootDirToConfigPost(d, "ok") => Moves
    BY <1>1, PutRootIs DEF Asked, Still, device, Jobs, ConfigRequests
  <1>4. (\E a \in Aliases : CreateFolderPost(d, a, "ok")) => Moves
    BY <1>1, FolderIs DEF Asked, Still, Jobs, ConfigRequests
  <1>5. Read(d, "config", "ok", "load", "recheck") => Moves
    BY <1>1 DEF Read, Asked, Still, server, device, Jobs, ConfigRequests
  <1>6. Read(d, "recheck", "ok", "load", "create") => Moves
    BY <1>1 DEF Read, Asked, Still, server, device, Jobs, ConfigRequests
  <1>7. Read(d, "reread", "ok", "load", "load") => Moves
    BY <1>1 DEF Read, Asked, Still, server, device, Jobs, ConfigRequests
  <1>8. Read(d, "getroot", "ok", "putroot", "pair") => Moves
    BY <1>1 DEF Read, Asked, Still, server, device, Jobs, ConfigRequests
  <1> HIDE DEF Moves
  <1>9. Moves
    BY <1>2, <1>3, <1>4, <1>5, <1>6, <1>7, <1>8, ReadIs
  <1>10. Undertaking(d)' /\ job'[d] # Idle
    BY <1>9, ConfigStill, IdleProper DEF Moves, ConfigRequests
  <1> QED BY <1>10 DEF After

LEMMA PairedKept == PutRevives /\ IInv /\ Paired /\ [Next]_vars => Paired'
  <1> SUFFICES ASSUME PutRevives, IInv, Paired, [Next]_vars, ~disturbed' PROVE Paired'
    BY DEF Paired
  <1>1. CASE UNCHANGED vars
    <2>1. /\ UNCHANGED <<creds, publics, privates, job, held, pair, ops, disturbed>>
      BY <1>1 DEF vars, server, device, counts
    <2>2. \A d \in Devices : Undertaking(d) => Undertaking(d)'
      BY <2>1 DEF Undertaking, Registering, Settled, Fresh, PairedBut, Stamp
    <2>3. Settled => Settled'
      BY <2>1, SettledStill DEF Still
    <2> QED BY <2>1, <2>2, <2>3 DEF Paired, Alone
  <1>2. ASSUME NEW d \in Devices, Others(d), \A e \in Devices : e # d => job[e] = Idle, After(d)
        PROVE  Paired'
    BY <1>2 DEF Others, After, Paired, Alone
  <1>3. CASE Next
    <2>1. PICK d \in Devices : Start(d) \/ Load(d) \/ \E o \in Outcomes : Asking(d, o)
      BY <1>3, StepIs
    <2>2. CASE Start(d)
      <3>1. PICK j \in Jobs : /\ Begin(d, j) /\ Proper(j) /\ j.at # "idle"
                              /\ <<j.op, j.at>> \in FirstRequests
        BY <2>2, StartIs
      <3>2. /\ job'[d] = j /\ Others(d) /\ Still /\ ~disturbed
            /\ \A e \in Devices : job[e] = Idle
        BY <3>1, BeginIs DEF Others, Still, server, device
      <3>3. Settled'
        BY <3>2, SettledStill DEF Paired
      <3>4. After(d)
        BY <3>1, <3>2, <3>3, IdleProper DEF After, Undertaking, Registering, FirstRequests
      <3> QED BY <1>2, <3>2, <3>4
    <2>3. CASE Load(d)
      <3>1. /\ Others(d) /\ Still /\ UNCHANGED ops /\ ~disturbed /\ job[d].at = "load"
            /\ job'[d].at \in {"pair", "folder"} /\ job'[d].op = job[d].op
        BY <2>3, Before, LoadIs DEF Still, server, counts, Jobs
      <3>2. job[d] # Idle /\ job'[d] # Idle /\ \A e \in Devices : e # d => job[e] = Idle
        BY <3>1, IdleProper DEF Paired, Alone
      <3>3. Undertaking(d)
        BY <3>1, <3>2 DEF Paired
      <3>4. After(d)
        BY <3>1, <3>2, <3>3, ConfigStill DEF After, ConfigRequests
      <3> QED BY <1>2, <3>1, <3>2, <3>4
    <2>4. ASSUME NEW o \in Outcomes, Asking(d, o)
          PROVE  Paired'
      <3>1. \E at \in Requests : Asked(d, at, o)
        BY <2>4, AskingAsked
      <3>2. o = "ok" /\ Others(d) /\ ~disturbed /\ job[d] # Idle
        BY <3>1, IdleProper DEF Asked, Requests
      <3>3. (\A e \in Devices : e # d => job[e] = Idle) /\ Undertaking(d)
        BY <3>2 DEF Paired, Alone
      <3>4. After(d)
        BY <2>4, <3>2, <3>3, AfterOpen, AfterCount, AfterFetch, AfterDelete, AfterPush, AfterEnter,
           AfterPair, AfterKeyCount, AfterPublic, AfterPrivate, AfterConfig DEF Asking
      <3> QED BY <1>2, <3>2, <3>3, <3>4
    <2> QED BY <2>1, <2>2, <2>3, <2>4
  <1> QED BY <1>1, <1>3

\* One after another, without failures, the devices hold the key pair the server
\* has, the private key that belongs to the public one (passphrase.cpp:67), if
\* the server takes a PUT to a deleted post.
THEOREM KeysPairedHolds == PutRevives => (Spec => []KeysPaired)
  <1> SUFFICES ASSUME PutRevives PROVE Spec => []KeysPaired
    OBVIOUS
  <1>1. Init => Paired
    <2> SUFFICES ASSUME Init PROVE Paired
      OBVIOUS
    <2>1. /\ creds = <<>> /\ publics = <<>> /\ privates = <<>>
          /\ \A e \in Devices : held[e] = None /\ job[e] = Idle
      BY DEF Init
    <2> QED BY <2>1 DEF Paired, Alone, Settled, Fresh
  <1>2. Paired => KeysPaired
    <2> SUFFICES ASSUME Settled
                 PROVE  /\ publics = privates /\ Len(privates) <= 1
                        /\ \A d \in Devices :
                             held[d] # None => privates # <<>> /\ pair[d] = Head(privates)
      BY DEF Paired, KeysPaired
    <2>1. CASE Fresh
      BY <2>1 DEF Fresh
    <2>2. CASE \E k \in Stamps : PairedBut({}, k)
      BY <2>2 DEF PairedBut
    <2> QED BY <2>1, <2>2 DEF Settled
  <1> QED BY <1>1, <1>2, InitIs, InvariantKept, PairedKept, PTL DEF Spec

(***************************************************************************)
(* One operation at a time: the working directory                          *)
(***************************************************************************)
AfterConfiguring(d) == IF job'[d] = Idle THEN Common' ELSE Configuring(d)'

LEMMA CommonStill == Common /\ UNCHANGED <<configs, table>> => Common'
  BY DEF Common, Bare, Shared

\* The requests that are not about the configuration.
LEMMA AfterOthers ==
    ASSUME NEW d \in Devices, Common, UNCHANGED <<configs, table>>, job'[d].at \notin Apart
    PROVE  AfterConfiguring(d)
  BY CommonStill DEF AfterConfiguring, Configuring, Apart

LEMMA OthersApart ==
    ASSUME IInv, NEW d \in Devices, Configuring(d), "ok" \in Outcomes,
           \/ Open(d, "ok") \/ GetCredentialsPostCount(d, "ok") \/ RetrieveCredentialsPost(d, "ok")
           \/ DeleteCredentialsPost(d, "ok") \/ PushAtticCredentials(d, "ok") \/ Enter(d, "ok")
           \/ RetrievePublicPrivateKeyPair(d, "ok") \/ Counting(d, "ok")
           \/ RegisterPublicKey(d, "ok") \/ RegisterPrivateKey(d, "ok")
    PROVE  AfterConfiguring(d)
  <1> DEFINE Quiet == /\ UNCHANGED <<configs, table>>
                      /\ job[d].at \notin Apart /\ job'[d].at \notin Apart
  <1>1. job[d] \in Jobs /\ Idle.at \notin Apart
    BY Before, IdleProper DEF Apart
  <1>2. Open(d, "ok") => Quiet
    BY <1>1, OpenIs DEF Asked, server, device, Jobs, Apart
  <1>3. GetCredentialsPostCount(d, "ok") => Quiet
    BY <1>1, CountIs DEF Asked, server, device, Jobs, Apart
  <1>4. RetrieveCredentialsPost(d, "ok") => Quiet
    BY <1>1, FetchIs DEF Asked, server, device, Jobs, Apart
  <1>5. DeleteCredentialsPost(d, "ok") => Quiet
    BY <1>1, DeleteIs DEF Asked, device, Jobs, Apart
  <1>6. PushAtticCredentials(d, "ok") => Quiet
    BY <1>1, PushIs DEF Asked, device, Jobs, Apart
  <1>7. Enter(d, "ok") => Quiet
    BY <1>1, EnterIs DEF Asked, server, Jobs, Apart
  <1>8. RetrievePublicPrivateKeyPair(d, "ok") => Quiet
    BY <1>1, PairIs DEF Asked, server, Jobs, Apart
  <1>9. Counting(d, "ok") => Quiet
    <2>1. ASSUME Counting(d, "ok") PROVE Quiet
      <3>1. PICK at \in {"anyPublic", "anyPrivate"} :
              /\ Asked(d, at, "ok") /\ UNCHANGED <<server, device>>
              /\ \/ job'[d] = Idle
                 \/ \E to \in {"public", "anyPrivate", "private"} : job'[d] = [job[d] EXCEPT !.at = to]
        BY <2>1, CountingIs
      <3> QED BY <1>1, <3>1 DEF Asked, server, device, Jobs, Apart
    <2> QED BY <2>1
  <1>10. RegisterPublicKey(d, "ok") => Quiet
    BY <1>1, PublicIs DEF Asked, device, Jobs, Apart
  <1>11. RegisterPrivateKey(d, "ok") => Quiet
    BY <1>1, PrivateIs DEF Asked, device, Jobs, Apart
  <1> HIDE DEF Quiet
  <1>12. Quiet
    BY <1>2, <1>3, <1>4, <1>5, <1>6, <1>7, <1>8, <1>9, <1>10, <1>11
  <1>13. Common
    BY <1>12 DEF Quiet, Configuring, Apart
  <1> QED BY <1>12, <1>13, AfterOthers DEF Quiet

\* A device whose configuration post was found goes on to load it.
LEMMA FoundLoads ==
    ASSUME IInv, NEW d \in Devices, Common, UNCHANGED <<configs, table>>, configs # <<>>,
           job'[d] = [job[d] EXCEPT !.at = "load", !.copy = Head(configs)]
    PROVE  AfterConfiguring(d)
  <1>1. job'[d].at = "load" /\ job'[d].copy = Head(configs)
    BY Before DEF Jobs
  <1>2. Head(configs) = configs[1]
    BY Before, NewestIs DEF ServerType
  <1>3. job'[d] # Idle
    BY <1>1, IdleProper
  <1> QED BY <1>1, <1>2, <1>3, CommonStill DEF AfterConfiguring, Configuring

LEMMA AfterReading ==
    ASSUME IInv, NEW d \in Devices, Configuring(d), Reading(d, "ok"), "ok" \in Outcomes
    PROVE  AfterConfiguring(d)
  <1>1. job[d] \in Jobs /\ UNCHANGED <<configs, table>>
    BY Before, ReadIs DEF Read, server, device
  <1>2. CASE Read(d, "config", "ok", "load", "recheck")
    <2>1. Common
      BY <1>2 DEF Read, Asked, Configuring, Apart
    <2>2. CASE job'[d] = [job[d] EXCEPT !.at = "recheck"]
      <3>1. job'[d].at \notin Apart
        BY <1>1, <2>2 DEF Jobs, Apart
      <3> QED BY <1>1, <2>1, <3>1, AfterOthers
    <2> QED BY <1>1, <1>2, <2>1, <2>2, FoundLoads DEF Read
  <1>3. CASE Read(d, "recheck", "ok", "load", "create")
    <2>1. Common
      BY <1>3 DEF Read, Asked, Configuring, Apart
    <2>2. CASE configs = <<>> /\ job'[d] = [job[d] EXCEPT !.at = "create"]
      <3>1. job'[d].at = "create" /\ job'[d] # Idle
        BY <1>1, <2>2, IdleProper DEF Jobs
      <3>2. configs' = <<>> /\ Bare'
        BY <1>1, <2>1, <2>2 DEF Common, Bare, Shared
      <3> QED BY <3>1, <3>2 DEF AfterConfiguring, Configuring, Apart
    <2> QED BY <1>1, <1>3, <2>1, <2>2, FoundLoads DEF Read
  <1>4. CASE Read(d, "reread", "ok", "load", "load")
    <2>1. Common /\ configs # <<>>
      BY <1>4 DEF Read, Asked, Configuring, Common
    <2> QED BY <1>1, <1>4, <2>1, FoundLoads DEF Read
  <1>5. CASE Read(d, "getroot", "ok", "putroot", "pair")
    <2>1. Making(d) /\ configs # <<>>
      BY <1>5 DEF Read, Asked, Configuring, Making
    <2>2. job'[d] = [job[d] EXCEPT !.at = "putroot", !.copy = Head(configs)]
      BY <1>5, <2>1 DEF Read
    <2>3. /\ job'[d].at = "putroot" /\ job'[d].copy = Head(configs) /\ job'[d] # Idle
          /\ job'[d].alias = job[d].alias
      BY <1>1, <2>2, IdleProper DEF Jobs
    <2>4. Head(configs) = configs[1]
      BY <2>1, Before, NewestIs DEF ServerType
    <2>5. Making(d)'
      BY <1>1, <2>1, <2>3 DEF Making
    <2> QED BY <1>1, <2>3, <2>4, <2>5 DEF AfterConfiguring, Configuring, Apart
  <1> QED BY <1>2, <1>3, <1>4, <1>5, ReadIs

LEMMA AfterCreate ==
    ASSUME IInv, NEW d \in Devices, Configuring(d), CreateConfigPost(d, "ok"), "ok" \in Outcomes
    PROVE  AfterConfiguring(d)
  <1>1. /\ job[d] \in Jobs /\ job[d].at = "create" /\ UNCHANGED table
        /\ configs' # <<>> /\ configs'[1].entries = {}
        /\ job'[d] = [job[d] EXCEPT !.at = "reread"]
    BY Before, CreateIs DEF Asked, device
  <1>2. job'[d].at = "reread" /\ job'[d] # Idle
    BY <1>1, IdleProper DEF Jobs
  <1>3. Bare'
    BY <1>1 DEF Configuring, Bare
  <1> QED BY <1>1, <1>2, <1>3 DEF AfterConfiguring, Configuring, Apart

LEMMA AfterFolder ==
    ASSUME IInv, NEW d \in Devices, NEW a \in Aliases, Configuring(d),
           CreateFolderPost(d, a, "ok"), "ok" \in Outcomes
    PROVE  AfterConfiguring(d)
  <1>1. /\ job[d] \in Jobs /\ job[d].at = "folder" /\ UNCHANGED configs
        /\ table \in [Devices -> SUBSET ConfigRows]
        /\ table' = [table EXCEPT ![d] = AddWorkingDirectory(@, a, Dir, a)]
        /\ job'[d] = [job[d] EXCEPT !.at = "getroot", !.alias = a]
    BY Before, FolderIs DEF Asked, DeviceType
  <1>2. job'[d].at = "getroot" /\ job'[d].alias = a /\ job'[d] # Idle
    BY <1>1, IdleProper DEF Jobs
  <1>3. Bare /\ configs # <<>>
    BY <1>1 DEF Configuring
  <1>4. AddWorkingDirectory({}, a, Dir, a) = Mapping(a)
    BY DEF AddWorkingDirectory, IsStateInManifest, InsertConfigValue, Mapping
  <1>5. Making(d)'
    BY <1>1, <1>2, <1>3, <1>4 DEF Making, Bare
  <1> QED BY <1>2, <1>5 DEF AfterConfiguring, Configuring, Apart

LEMMA AfterPutRoot ==
    ASSUME IInv, NEW d \in Devices, Configuring(d), AddRootDirToConfigPost(d, "ok"), "ok" \in Outcomes
    PROVE  AfterConfiguring(d)
  <1> DEFINE a == job[d].alias
  <1>1. /\ job[d] \in Jobs /\ job[d].at = "putroot" /\ UNCHANGED table /\ Proper(job[d])
        /\ job'[d] = [job[d] EXCEPT !.at = "pair"]
    BY Before, PutRootIs DEF Asked, device
  <1>2. a \in Aliases
    BY <1>1 DEF Proper, Configured
  <1>3. Making(d) /\ configs # <<>> /\ configs[1].entries = {} /\ job[d].copy = configs[1]
    BY <1>1 DEF Configuring, Making
  <1>4. HasPost(configs, job[d].copy.id)
    BY <1>3, Before, NewestIs DEF HasPost, ServerType
  <1>5. configs' # <<>> /\ configs'[1].entries = PushBackConfigValue(job[d].copy.entries, a, a)
    BY <1>4, PutRootIs
  <1>6. configs'[1].entries = {Entry(a)}
    BY <1>3, <1>5 DEF PushBackConfigValue, Entry
  <1> HIDE DEF a
  <1>7. \A e \in Devices : table'[e] \in {{}, Mapping(a)}
    BY <1>1, <1>3 DEF Making, a
  <1>8. PICK b \in Aliases : b = a
    BY <1>2
  <1>9. Shared(b)'
    BY <1>5, <1>6, <1>7, <1>8 DEF Shared
  <1>10. Common'
    BY <1>9 DEF Common
  <1>11. job'[d].at = "pair"
    BY <1>1 DEF Jobs
  <1> QED BY <1>10, <1>11 DEF AfterConfiguring, Configuring

\* A table with one root maps it to the working directory.
LEMMA OneRow ==
    ASSUME NEW a \in Aliases, NEW s
    PROVE  LET t == {Row(RootDir, a, a, s)} IN
           /\ RetrieveConfigType(t, RootDir) = t
           /\ FirstOfType(t, RootDir).key = a
           /\ LinkWorkingDirectory(t, a, Dir) = Mapping(a)
  <1> DEFINE row == Row(RootDir, a, a, s)
  <1>1. /\ row.type = RootDir /\ row.key = a
        /\ [row EXCEPT !.state = Dir] = Row(RootDir, a, a, Dir)
    BY DEF Row
  <1>2. a <= a
    <2>1. a \in Nat
      BY ConstantsAssumption
    <2> QED BY <2>1
  <1> HIDE DEF row
  <1>3. RetrieveConfigType({row}, RootDir) = {row}
    BY <1>1 DEF RetrieveConfigType
  <1>4. FirstOfType({row}, RootDir) = row
    <2>1. \A r : r \in {row} /\ (\A s2 \in {row} : r.key <= s2.key) <=> r = row
      BY <1>1, <1>2
    <2>2. (CHOOSE r \in {row} : \A s2 \in {row} : r.key <= s2.key) = row
      BY <2>1
    <2> QED BY <1>3, <2>2 DEF FirstOfType
  <1>5. LinkWorkingDirectory({row}, a, Dir) = {[row EXCEPT !.state = Dir]}
    BY <1>1 DEF LinkWorkingDirectory, IsKeyInManifest, set_state_for_key
  <1> QED BY <1>1, <1>3, <1>4, <1>5 DEF row, Mapping

LEMMA LoadedOne ==
    ASSUME NEW a \in Aliases, NEW t \in {{}, Mapping(a)}, NEW entries, entries = {Entry(a)}
    PROVE  \E s : LoadConfigPost(t, entries) = {Row(RootDir, a, a, s)}
  <1>1. entries \in SUBSET ConfigEntries /\ t \in SUBSET ConfigRows
    <2>1. Entry(a) \in ConfigEntries /\ Row(RootDir, a, a, Dir) \in ConfigRows
      BY DEF Entry, ConfigEntries, Row, ConfigRows
    <2> QED BY <2>1 DEF Mapping
  <1> DEFINE E == {e \in entries : ~IsValueInManifest(t, e.value) /\ ~IsKeyInManifest(t, e.key)}
  <1>2. LoadConfigPost(t, entries) = t \cup {Row(e.type, e.key, e.value, "") : e \in E}
    BY <1>1, LoadedIs
  <1>3. CASE t = {}
    <2>1. E = {Entry(a)}
      BY <1>3 DEF IsValueInManifest, IsKeyInManifest
    <2>2. {Row(e.type, e.key, e.value, "") : e \in {Entry(a)}} = {Row(RootDir, a, a, "")}
      <3>1. Row(Entry(a).type, Entry(a).key, Entry(a).value, "") = Row(RootDir, a, a, "")
        BY DEF Entry
      <3> QED BY <3>1
    <2> QED BY <1>2, <1>3, <2>1, <2>2
  <1>4. CASE t = Mapping(a)
    <2>1. E = {}
      BY <1>4 DEF IsValueInManifest, Mapping, Row, Entry
    <2>2. LoadConfigPost(t, entries) = t
      BY <1>2, <2>1
    <2> QED BY <1>4, <2>2 DEF Mapping
  <1> QED BY <1>3, <1>4

LEMMA AfterLoad ==
    ASSUME IInv, NEW d \in Devices, Configuring(d), Load(d) PROVE AfterConfiguring(d)
  <1> DEFINE t == LoadConfigPost(table[d], job[d].copy.entries)
  <1>1. /\ job[d] \in Jobs /\ job[d].at = "load" /\ UNCHANGED configs
        /\ table \in [Devices -> SUBSET ConfigRows]
    BY Before, LoadIs DEF server, DeviceType
  <1>2. Common /\ configs # <<>> /\ job[d].copy.entries = configs[1].entries
    BY <1>1 DEF Configuring
  <1>3. PICK at \in {"pair", "folder"} : job'[d] = [job[d] EXCEPT !.at = at]
    BY LoadIs
  <1>4. job'[d].at = at /\ job'[d] # Idle
    BY <1>1, <1>3, IdleProper DEF Jobs
  <1>5. CASE Bare
    <2>1. job[d].copy.entries = {} /\ table[d] = {}
      BY <1>2, <1>5 DEF Bare
    <2>2. LoadConfigPost({}, {}) = {}
      BY DEF LoadConfigPost
    <2>3. t = {} /\ RetrieveConfigType(t, RootDir) = {}
      BY <2>1, <2>2 DEF RetrieveConfigType
    <2> HIDE DEF t
    <2>4. table' = [table EXCEPT ![d] = t]
      BY <2>3, LoadIs DEF t
    <2>5. Bare'
      BY <1>1, <1>5, <2>3, <2>4 DEF Bare
    <2> QED BY <1>1, <1>2, <1>3, <1>4, <2>5 DEF AfterConfiguring, Configuring, Common
  <1>6. CASE ~Bare
    <2>1. PICK a \in Aliases : Shared(a)
      BY <1>2, <1>6 DEF Common
    <2>2. job[d].copy.entries = {Entry(a)} /\ table[d] \in {{}, Mapping(a)}
      BY <1>2, <2>1 DEF Shared
    <2>3. \E s : t = {Row(RootDir, a, a, s)}
      <3>1. \A old \in {{}, Mapping(a)} : \A new : new = {Entry(a)} =>
              \E s : LoadConfigPost(old, new) = {Row(RootDir, a, a, s)}
        BY LoadedOne
      <3> QED BY <2>2, <3>1
    <2> HIDE DEF t
    <2>4. /\ RetrieveConfigType(t, RootDir) # {} /\ FirstOfType(t, RootDir).key = a
          /\ LinkWorkingDirectory(t, a, Dir) = Mapping(a)
      <3>1. PICK s : t = {Row(RootDir, a, a, s)}
        BY <2>3
      <3>2. RetrieveConfigType(t, RootDir) = t /\ t # {}
        BY <3>1, OneRow
      <3> QED BY <3>1, <3>2, OneRow
    <2>5. /\ table' = [table EXCEPT ![d] = LinkWorkingDirectory(t, FirstOfType(t, RootDir).key, Dir)]
          /\ job'[d] = [job[d] EXCEPT !.at = "pair"]
      BY <2>4, LoadIs DEF t
    <2>6. Shared(a)'
      BY <1>1, <2>1, <2>4, <2>5 DEF Shared
    <2>7. job'[d].at = "pair"
      BY <1>1, <2>5 DEF Jobs
    <2> QED BY <2>6, <2>7 DEF AfterConfiguring, Configuring, Common
  <1> QED BY <1>5, <1>6

LEMMA OneRootKept == IInv /\ OneRoot /\ [Next]_vars => OneRoot'
  <1> SUFFICES ASSUME IInv, OneRoot, [Next]_vars, ~disturbed' PROVE OneRoot'
    BY DEF OneRoot
  <1>1. CASE UNCHANGED vars
    <2>1. UNCHANGED <<configs, table, job, disturbed>>
      BY <1>1 DEF vars, server, device, counts
    <2>2. \A d \in Devices : Configuring(d) => Configuring(d)'
      BY <2>1, CommonStill DEF Configuring, Bare, Making
    <2> QED BY <2>1, <2>2, CommonStill DEF OneRoot, Alone
  <1>2. ASSUME NEW d \in Devices, Others(d), \A e \in Devices : e # d => job[e] = Idle,
               AfterConfiguring(d)
        PROVE  OneRoot'
    BY <1>2 DEF Others, AfterConfiguring, OneRoot, Alone
  <1>3. CASE Next
    <2>1. PICK d \in Devices : Start(d) \/ Load(d) \/ \E o \in Outcomes : Asking(d, o)
      BY <1>3, StepIs
    <2>2. CASE Start(d)
      <3>1. PICK j \in Jobs : /\ Begin(d, j) /\ Proper(j) /\ j.at # "idle"
                              /\ <<j.op, j.at>> \in FirstRequests
        BY <2>2, StartIs
      <3>2. /\ job'[d] = j /\ Others(d) /\ UNCHANGED <<configs, table>> /\ ~disturbed
            /\ \A e \in Devices : job[e] = Idle
        BY <3>1, BeginIs DEF Others, server, device
      <3>3. Common /\ job'[d].at \notin Apart
        BY <3>1, <3>2 DEF OneRoot, Apart, FirstRequests
      <3>4. AfterConfiguring(d)
        BY <3>2, <3>3, AfterOthers
      <3> QED BY <1>2, <3>2, <3>4
    <2>3. CASE Load(d)
      <3>1. Others(d) /\ job[d] # Idle /\ ~disturbed
        BY <2>3, LoadIs, IdleProper DEF counts
      <3>2. Configuring(d) /\ \A e \in Devices : e # d => job[e] = Idle
        BY <3>1 DEF OneRoot, Alone
      <3> QED BY <1>2, <2>3, <3>1, <3>2, AfterLoad
    <2>4. ASSUME NEW o \in Outcomes, Asking(d, o)
          PROVE  OneRoot'
      <3>1. \E at \in Requests : Asked(d, at, o)
        BY <2>4, AskingAsked
      <3>2. o = "ok" /\ Others(d) /\ ~disturbed /\ job[d] # Idle
        BY <3>1, IdleProper DEF Asked, Requests
      <3>3. (\A e \in Devices : e # d => job[e] = Idle) /\ Configuring(d)
        BY <3>2 DEF OneRoot, Alone
      <3>4. AfterConfiguring(d)
        BY <2>4, <3>2, <3>3, OthersApart, AfterReading, AfterCreate, AfterFolder, AfterPutRoot
           DEF Asking
      <3> QED BY <1>2, <3>2, <3>3, <3>4
    <2> QED BY <2>1, <2>2, <2>3, <2>4
  <1> QED BY <1>1, <1>3

\* Devices that enter one after another, without failures, work in one root: the
\* first makes it and adds it to the configuration post, the others link the
\* entry they load (atticservice.cpp, LoadIntoFirstDirectory).
THEOREM SharedDirectoryHolds == Spec => []SharedDirectory
  <1>1. Init => OneRoot
    <2> SUFFICES ASSUME Init PROVE OneRoot
      OBVIOUS
    <2>1. configs = <<>> /\ \A e \in Devices : table[e] = {} /\ job[e] = Idle
      BY DEF Init
    <2> QED BY <2>1 DEF OneRoot, Alone, Common, Bare
  <1>2. OneRoot => SharedDirectory
    <2> SUFFICES ASSUME OneRoot, ~disturbed, NEW d \in Devices, NEW e \in Devices,
                        Mapped(d) # {}, Mapped(e) # {}
                 PROVE  Mapped(d) = Mapped(e)
      BY DEF SharedDirectory
    <2>1. \A c \in Devices : table[c] = {} => Mapped(c) = {}
      BY DEF Mapped
    <2>2. ASSUME NEW c \in Devices, NEW a, table[c] = Mapping(a)
          PROVE  Mapped(c) = {a}
      <3>1. Row(RootDir, a, a, Dir).state = Dir /\ Row(RootDir, a, a, Dir).key = a
        BY DEF Row
      <3> QED BY <2>2, <3>1 DEF Mapped, Mapping
    <2>3. Common \/ \E c \in Devices : Making(c)
      BY DEF OneRoot, Configuring, Common, Apart
    <2>4. CASE Common
      BY <2>1, <2>2, <2>4 DEF Common, Bare, Shared
    <2>5. CASE \E c \in Devices : Making(c)
      BY <2>1, <2>2, <2>5 DEF Making
    <2> QED BY <2>3, <2>4, <2>5
  <1> QED BY <1>1, <1>2, InitIs, InvariantKept, OneRootKept, PTL DEF Spec
=============================================================================
