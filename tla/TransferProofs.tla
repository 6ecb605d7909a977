--------------------------- MODULE TransferProofs ---------------------------
(***************************************************************************)
(* Proofs about Transfer.  Two invariants, each with a lemma per action:   *)
(*   Inv    the types; what an upload needs of its file and of what it has *)
(*          read of it (Ready); of every row there is, in the file post,   *)
(*          the manifests, the polled posts and the jobs, that its chunks  *)
(*          are stored and that one group's are at their positions         *)
(*          (Sound); and that what a download put together is in order;    *)
(*   Agree  which device's manifest has the hash of the file post, and     *)
(*          where the difference is under way.                             *)
(* Before them, lemmas about the operators: the greatest of a finite set   *)
(* of numbers, what is left of a sequence, chunk maps and rows.            *)
(***************************************************************************)
EXTENDS Transfer, FiniteSetTheorems, NaturalsInduction, WellFoundedInduction, TLAPS

(***************************************************************************)
(* Numbers and sequences                                                   *)
(***************************************************************************)
\* A set of numbers has a least one.
LEMMA LeastIs ==
    ASSUME NEW T, T \subseteq Nat, T # {}
    PROVE  \E x \in T : \A y \in T : x <= y
  <1>1. IsWellFoundedOn(OpToRel(<, Nat), Nat)
    BY NatLessThanWellFounded
  <1>2. PICK x \in T : \A y \in T : <<y, x>> \notin OpToRel(<, Nat)
    BY <1>1, WFMin
  <1>3. \A y \in T : ~(y < x)
    BY <1>2 DEF OpToRel
  <1>4. \A y \in T : y \in Nat /\ x \in Nat /\ ~(y < x)
    BY <1>3
  <1> QED BY <1>4

\* A finite set of numbers has an upper bound: the numbers of the first k
\* elements of a list of it have one for every k.
LEMMA BoundIs ==
    ASSUME NEW S, S \subseteq Nat, IsFiniteSet(S)
    PROVE  \E b \in Nat : \A x \in S : x <= b
  <1> DEFINE n == Cardinality(S)
  <1>1. n \in Nat /\ ExistsBijection(1 .. n, S)
    BY FS_CardinalityType
  <1>2. PICK f \in [1 .. n -> S] : \A x \in S : \E i \in 1 .. n : f[i] = x
    BY <1>1 DEF ExistsBijection, Bijection, Injection, Surjection
  <1> HIDE DEF n
  <1> DEFINE Bounds(k) == {b \in Nat : \A i \in 1 .. k : f[i] <= b}
  <1> DEFINE T == {k \in 0 .. n : Bounds(k) = {}}
  <1>3. ASSUME T # {} PROVE FALSE
    <2>1. T \subseteq Nat
      BY <1>1
    <2>2. PICK k \in T : \A y \in T : k <= y
      BY <2>1, <1>3, LeastIs
    <2>3. k \in 0 .. n /\ k \in Nat
      BY <2>2, <1>1
    <2>4. 0 \in Bounds(0)
      OBVIOUS
    <2>5. k # 0
      BY <2>2, <2>4
    <2>6. k - 1 \in 0 .. n /\ ~(k <= k - 1)
      BY <2>3, <2>5, <1>1
    <2>7. k - 1 \notin T
      BY <2>6, <2>2
    <2>8. Bounds(k - 1) # {}
      BY <2>6, <2>7
    <2>9. PICK b \in Bounds(k - 1) : TRUE
      BY <2>8
    <2>10. b \in Nat /\ \A i \in 1 .. k - 1 : f[i] <= b
      BY <2>9
    <2>11. f[k] \in Nat
      <3>1. k \in 1 .. n
        BY <2>3, <2>5, <1>1
      <3>2. f[k] \in S
        BY <3>1, <1>2
      <3> QED BY <3>2
    <2>12. PICK c \in Nat : b <= c /\ f[k] <= c
      <3>1. CASE b <= f[k]
        BY <3>1, <2>10, <2>11
      <3>2. CASE ~(b <= f[k])
        BY <3>2, <2>10, <2>11
      <3> QED BY <3>1, <3>2
    <2>13. ASSUME NEW i \in 1 .. k PROVE f[i] <= c
      <3>1. CASE i = k
        BY <3>1, <2>12
      <3>2. CASE i # k
        <4>1. i \in 1 .. k - 1 /\ i \in 1 .. n
          BY <3>2, <2>3, <1>1
        <4>2. f[i] \in Nat /\ f[i] <= b
          BY <4>1, <2>10, <1>2
        <4> QED BY <4>2, <2>10, <2>12
      <3> QED BY <3>1, <3>2
    <2>14. c \in Bounds(k)
      BY <2>12, <2>13
    <2> QED BY <2>14, <2>2
  <1>4. n \notin T
    BY <1>3
  <1>5. Bounds(n) # {}
    BY <1>4, <1>1
  <1>6. PICK b \in Bounds(n) : TRUE
    BY <1>5
  <1>7. b \in Nat /\ \A i \in 1 .. n : f[i] <= b
    BY <1>6
  <1> QED BY <1>7, <1>2

\* It has a greatest: the least upper bound.
LEMMA GreatestIs ==
    ASSUME NEW S, S \subseteq Nat, IsFiniteSet(S), S # {}
    PROVE  \E m \in S : \A x \in S : x <= m
  <1> DEFINE B == {b \in Nat : \A x \in S : x <= b}
  <1>1. B # {} /\ B \subseteq Nat
    BY BoundIs
  <1>2. PICK b \in B : \A y \in B : b <= y
    BY <1>1, LeastIs
  <1>3. b \in Nat /\ \A x \in S : x <= b
    BY <1>2
  <1>4. ASSUME b \notin S PROVE FALSE
    <2>1. \A x \in S : x \in Nat /\ x <= b /\ x # b
      BY <1>3, <1>4
    <2>2. PICK x \in S : TRUE
      OBVIOUS
    <2>3. b # 0
      BY <2>1, <2>2, <1>3
    <2>4. b - 1 \in Nat /\ \A y \in S : y <= b - 1
      BY <2>1, <2>3, <1>3
    <2>5. b - 1 \in B
      BY <2>4
    <2>6. b <= b - 1
      BY <2>5, <1>2
    <2> QED BY <2>6, <1>3
  <1> QED BY <1>3, <1>4

\* Max0 is the greatest, and 0 of nothing.
LEMMA Max0Is ==
    ASSUME NEW S, S \subseteq Nat, IsFiniteSet(S)
    PROVE  /\ Max0(S) \in Nat
           /\ S # {} => Max0(S) \in S
           /\ \A x \in S : x <= Max0(S)
  <1>1. CASE S = {}
    BY <1>1 DEF Max0
  <1>2. CASE S # {}
    <2>1. \E m \in S : \A x \in S : x <= m
      BY <1>2, GreatestIs
    <2> DEFINE m == CHOOSE m \in S : \A x \in S : x <= m
    <2>2. m \in S /\ \A x \in S : x <= m
      BY <2>1
    <2>3. Max0(S) = m
      BY <1>2 DEF Max0
    <2> HIDE DEF m
    <2> QED BY <2>2, <2>3
  <1> QED BY <1>1, <1>2

\* The number of kept positions up to i takes every value, so that Without
\* chooses a position for each place.
LEMMA RankIs ==
    ASSUME NEW n \in Nat, NEW keep \in SUBSET (1 .. n), NEW m \in 1 .. Cardinality(keep)
    PROVE  \E i \in keep : Cardinality({k \in keep : k <= i}) = m
  <1> DEFINE Upto(i) == {k \in keep : k <= i}
  <1>1. IsFiniteSet(keep)
    <2>1. IsFiniteSet(1 .. n)
      BY FS_Interval
    <2> QED BY <2>1, FS_Subset
  <1>2. \A i : Upto(i) \in SUBSET keep
    OBVIOUS
  <1>3. \A i : IsFiniteSet(Upto(i)) /\ Cardinality(Upto(i)) \in Nat
    BY <1>1, <1>2, FS_Subset, FS_CardinalityType
  <1>4. Cardinality(keep) \in Nat
    BY <1>1, FS_CardinalityType
  <1>5. m \in Nat /\ 1 <= m /\ m <= Cardinality(keep)
    BY <1>4
  <1> DEFINE T == {j \in Nat : m <= Cardinality(Upto(j))}
  <1>6. n \in T
    <2>1. \A k \in keep : k \in 1 .. n /\ k <= n
      OBVIOUS
    <2>2. Upto(n) = keep
      BY <2>1
    <2> QED BY <2>2, <1>5
  <1>7. T \subseteq Nat /\ T # {}
    BY <1>6
  <1> HIDE DEF T
  <1>8. PICK j \in T : \A y \in T : j <= y
    BY <1>7, LeastIs
  <1>9. j \in Nat /\ m <= Cardinality(Upto(j))
    BY <1>8 DEF T
  <1>10. j # 0
    <2>1. \A k \in keep : k \in 1 .. n /\ ~(k <= 0)
      OBVIOUS
    <2>2. Upto(0) = {}
      BY <2>1
    <2>3. Cardinality(Upto(0)) = 0
      BY <2>2, FS_EmptySet
    <2> QED BY <2>3, <1>9, <1>5
  <1>11. j - 1 \in Nat /\ ~(j <= j - 1)
    BY <1>9, <1>10
  <1>12. j - 1 \notin T
    BY <1>8, <1>11
  <1>13. Cardinality(Upto(j - 1)) < m
    <2>1. ~(m <= Cardinality(Upto(j - 1)))
      BY <1>11, <1>12 DEF T
    <2>2. Cardinality(Upto(j - 1)) \in Nat
      BY <1>3
    <2> HIDE DEF Upto
    <2> QED BY <2>1, <2>2, <1>5
  <1>14. j \in keep
    <2> SUFFICES ASSUME j \notin keep PROVE FALSE
      OBVIOUS
    <2>1. Upto(j) = Upto(j - 1)
      <3>1. ASSUME NEW k \in keep PROVE k <= j <=> k <= j - 1
        BY <1>9
      <3> QED BY <3>1
    <2>2. Cardinality(Upto(j - 1)) \in Nat
      BY <1>3
    <2> HIDE DEF Upto
    <2> QED BY <2>1, <2>2, <1>9, <1>13, <1>5
  <1>15. Upto(j) = Upto(j - 1) \cup {j} /\ j \notin Upto(j - 1)
    <2>1. ASSUME NEW k \in keep PROVE k <= j <=> k <= j - 1 \/ k = j
      BY <1>9
    <2> QED BY <2>1, <1>14, <1>11
  <1>16. Cardinality(Upto(j)) = Cardinality(Upto(j - 1)) + 1
    <2>1. IsFiniteSet(Upto(j - 1))
      BY <1>3
    <2>2. Cardinality(Upto(j - 1) \cup {j}) = Cardinality(Upto(j - 1)) + 1
      <3> HIDE DEF Upto
      <3> QED BY <2>1, <1>15, FS_AddElement
    <2> HIDE DEF Upto
    <2> QED BY <2>2, <1>15
  <1>17. Cardinality(Upto(j - 1)) \in Nat
    BY <1>3
  <1>18. Cardinality(Upto(j)) = m
    <2> HIDE DEF Upto
    <2> QED BY <1>16, <1>17, <1>13, <1>9, <1>5
  <1> QED BY <1>14, <1>18

\* What is left of a sequence holds some of its values ...
LEMMA WithoutType ==
    ASSUME NEW T, NEW seq \in Seq(T), NEW drop
    PROVE  Without(seq, drop) \in Seq(T)
  <1> DEFINE keep == DOMAIN seq \ drop
  <1> DEFINE at(m) == CHOOSE i \in keep : Cardinality({k \in keep : k <= i}) = m
  <1>1. Len(seq) \in Nat /\ DOMAIN seq = 1 .. Len(seq)
    OBVIOUS
  <1>2. keep \in SUBSET (1 .. Len(seq))
    BY <1>1
  <1>3. IsFiniteSet(keep)
    <2> HIDE DEF keep
    <2>1. IsFiniteSet(1 .. Len(seq))
      BY <1>1, FS_Interval
    <2> QED BY <2>1, <1>2, FS_Subset
  <1>4. Cardinality(keep) \in Nat
    BY <1>3, FS_CardinalityType
  <1>5. ASSUME NEW m \in 1 .. Cardinality(keep) PROVE seq[at(m)] \in T
    <2>1. \E i \in keep : Cardinality({k \in keep : k <= i}) = m
      <3> HIDE DEF keep
      <3> QED BY <1>1, <1>2, RankIs
    <2>2. at(m) \in keep
      BY <2>1
    <2>3. at(m) \in DOMAIN seq
      BY <2>2
    <2> HIDE DEF at
    <2> QED BY <2>3, <1>1
  <1>6. Without(seq, drop) = [m \in 1 .. Cardinality(keep) |-> seq[at(m)]]
    BY DEF Without
  <1> HIDE DEF keep, at
  <1>7. [m \in 1 .. Cardinality(keep) |-> seq[at(m)]] \in Seq(T)
    BY <1>4, <1>5
  <1> QED BY <1>6, <1>7

\* ... and all of them if nothing is dropped.
LEMMA WithoutNothing ==
    ASSUME NEW T, NEW seq \in Seq(T)
    PROVE  Without(seq, {}) = seq
  <1> DEFINE n == Len(seq)
  <1> DEFINE keep == DOMAIN seq \ {}
  <1> DEFINE at(m) == CHOOSE i \in keep : Cardinality({k \in keep : k <= i}) = m
  <1>1. n \in Nat /\ keep = 1 .. n
    OBVIOUS
  <1>2. Cardinality(keep) = n
    <2> HIDE DEF n, keep
    <2>1. Cardinality(1 .. n) = n
      BY <1>1, FS_Interval
    <2> QED BY <2>1, <1>1
  <1>3. ASSUME NEW i \in 1 .. n PROVE Cardinality({k \in keep : k <= i}) = i
    <2> HIDE DEF n, keep
    <2>1. {k \in keep : k <= i} = 1 .. i
      BY <1>1
    <2>2. Cardinality(1 .. i) = i
      BY <1>1, FS_Interval
    <2> QED BY <2>1, <2>2
  <1>4. ASSUME NEW m \in 1 .. n PROVE at(m) = m
    <2>1. m \in keep /\ Cardinality({k \in keep : k <= m}) = m
      BY <1>1, <1>3
    <2>2. at(m) \in keep /\ Cardinality({k \in keep : k <= at(m)}) = m
      BY <2>1
    <2> HIDE DEF at
    <2>3. Cardinality({k \in keep : k <= at(m)}) = at(m)
      BY <2>2, <1>1, <1>3
    <2> QED BY <2>2, <2>3
  <1>5. Without(seq, {}) = [m \in 1 .. Cardinality(keep) |-> seq[at(m)]]
    BY DEF Without
  <1>6. \A m \in 1 .. n : seq[at(m)] = seq[m]
    BY <1>4
  <1> HIDE DEF keep, at
  <1>7. Without(seq, {}) = [m \in 1 .. n |-> seq[m]]
    BY <1>5, <1>2, <1>6
  <1> QED BY <1>7

-----------------------------------------------------------------------------
(***************************************************************************)
(* The values                                                              *)
(***************************************************************************)
Infos == [pos : 0 .. GroupSize - 1, up : 0 .. MaxUploads]

\* What follows from the assumptions for chunks and contents.
LEMMA ChunksAre ==
    /\ Chunks \subseteq Nat /\ 0 \notin Chunks /\ Junk \in Chunks /\ IsFiniteSet(Chunks)
    /\ Contents \subseteq Seq(Chunks) /\ NoFile \notin Seq(Chunks) /\ <<>> \in Seq(Chunks)
  <1>1. \A c \in Contents : c \in Seq(Nat \ {0})
    BY TransferAssumption
  <1>2. \A c \in Contents : Names(c) \subseteq Nat \ {0}
    BY <1>1 DEF Names
  <1>3. Chunks \subseteq Nat /\ 0 \notin Chunks /\ Junk \in Chunks
    <2>1. 99 \in Nat \ {0}
      OBVIOUS
    <2>2. ASSUME NEW x \in UNION {Names(c) : c \in Contents} PROVE x \in Nat \ {0}
      <3>1. PICK c \in Contents : x \in Names(c)
        OBVIOUS
      <3> QED BY <3>1, <1>2
    <2>3. \A x \in Chunks : x \in Nat \ {0}
      BY <2>1, <2>2 DEF Chunks, Junk
    <2>4. Junk \in Chunks
      BY DEF Chunks
    <2> QED BY <2>3, <2>4
  <1>4. ASSUME NEW c \in Contents PROVE c \in Seq(Chunks)
    <2>1. Names(c) \subseteq Chunks
      BY DEF Chunks
    <2>2. \A i \in 1 .. Len(c) : c[i] \in Chunks
      BY <1>1, <2>1 DEF Names
    <2> QED BY <1>1, <2>2
  <1>5. NoFile \notin Seq(Chunks)
    <2> SUFFICES ASSUME NoFile \in Seq(Chunks) PROVE FALSE
      OBVIOUS
    <2>1. Len(NoFile) = 1 /\ NoFile[1] = 0
      BY DEF NoFile
    <2>2. NoFile[1] \in Chunks
      BY <2>1
    <2> QED BY <2>1, <2>2, <1>3
  <1> QED BY <1>3, <1>4, <1>5, TransferAssumption

\* A map of chunks, said of the map itself.
LEMMA MapIs ==
    ASSUME NEW f
    PROVE  f \in ChunkMaps <=> DOMAIN f \subseteq Chunks /\ f \in [DOMAIN f -> Infos]
  <1>1. ASSUME f \in ChunkMaps PROVE DOMAIN f \subseteq Chunks /\ f \in [DOMAIN f -> Infos]
    <2>1. PICK S \in SUBSET Chunks : f \in [S -> Infos]
      BY <1>1 DEF ChunkMaps, Infos
    <2> QED BY <2>1
  <1>2. ASSUME DOMAIN f \subseteq Chunks, f \in [DOMAIN f -> Infos] PROVE f \in ChunkMaps
    <2>1. DOMAIN f \in SUBSET Chunks
      BY <1>2
    <2> QED BY <2>1, <1>2 DEF ChunkMaps, Infos
  <1> QED BY <1>1, <1>2

\* What a map of chunks has.
LEMMA MapOf ==
    ASSUME NEW f \in ChunkMaps
    PROVE  /\ DOMAIN f \subseteq Chunks /\ IsFiniteSet(DOMAIN f)
           /\ \A x \in DOMAIN f : f[x] \in Infos
  <1>1. DOMAIN f \subseteq Chunks /\ f \in [DOMAIN f -> Infos]
    BY MapIs
  <1>2. IsFiniteSet(DOMAIN f)
    BY <1>1, ChunksAre, FS_Subset
  <1> QED BY <1>1, <1>2

\* No chunk has the number zero.
LEMMA NoZero == 0 \notin Chunks
  <1>1. \A c \in Contents : \A i \in DOMAIN c : c[i] # 0
    BY TransferAssumption
  <1> QED BY <1>1 DEF Chunks, Names, Junk

\* Rows are made of, and consist of, their parts.
LEMMA RowType ==
    ASSUME NEW c \in Files, NEW chunks \in ChunkMaps, NEW read \in Seq(Chunks),
           NEW lossy \in SUBSET Losses
    PROVE  Row(c, chunks, read, lossy) \in Rows
  BY DEF Row, Rows

LEMMA RowOf ==
    ASSUME NEW row \in Rows
    PROVE  /\ row.hash \in Files /\ row.chunks \in ChunkMaps /\ row.read \in Seq(Chunks)
           /\ row.lossy \in SUBSET Losses
           /\ row = Row(row.hash, row.chunks, row.read, row.lossy)
  BY DEF Row, Rows

\* No row, no post and no job are a row, a post and a job.
LEMMA NothingIs ==
    /\ NoChunks \in ChunkMaps /\ DOMAIN NoChunks = {}
    /\ NoRow \in Rows /\ NoPost \in Posts /\ NoJob \in Jobs
  <1>1. NoChunks \in ChunkMaps /\ DOMAIN NoChunks = {}
    <2>1. DOMAIN NoChunks = {} /\ NoChunks \in [DOMAIN NoChunks -> Infos]
      BY DEF NoChunks
    <2> QED BY <2>1, MapIs
  <1>2. NoRow \in Rows
    BY <1>1, ChunksAre, RowType DEF NoRow, Files
  <1>3. NoPost \in Posts
    BY <1>2 DEF NoPost, Posts
  <1>4. NoJob \in Jobs
    BY <1>2, <1>3, ChunksAre, TransferAssumption DEF NoJob, Jobs, Steps
  <1> QED BY <1>1, <1>2, <1>3, <1>4

\* Over takes the new map where there is one.
LEMMA OverType ==
    ASSUME NEW f \in ChunkMaps, NEW g \in ChunkMaps
    PROVE  /\ Over(f, g) \in ChunkMaps
           /\ DOMAIN Over(f, g) = DOMAIN f \cup DOMAIN g
           /\ \A x \in DOMAIN f : Over(f, g)[x] = f[x]
           /\ \A x \in DOMAIN g \ DOMAIN f : Over(f, g)[x] = g[x]
  <1> DEFINE h == Over(f, g)
  <1>1. DOMAIN f \subseteq Chunks /\ \A x \in DOMAIN f : f[x] \in Infos
    BY MapOf
  <1>2. DOMAIN g \subseteq Chunks /\ \A x \in DOMAIN g : g[x] \in Infos
    BY MapOf
  <1>3. /\ DOMAIN h = DOMAIN f \cup DOMAIN g
        /\ \A x \in DOMAIN f : h[x] = f[x]
        /\ \A x \in DOMAIN g \ DOMAIN f : h[x] = g[x]
    BY DEF Over
  <1>4. h \in [DOMAIN h -> Infos]
    <2>1. \A x \in DOMAIN f \cup DOMAIN g :
            (IF x \in DOMAIN f THEN f[x] ELSE g[x]) \in Infos
      BY <1>1, <1>2
    <2> QED BY <2>1, <1>3 DEF Over
  <1>5. DOMAIN h \subseteq Chunks
    BY <1>1, <1>2, <1>3
  <1>6. h \in ChunkMaps
    <2> HIDE DEF h
    <2> QED BY <1>4, <1>5, MapIs
  <1> QED BY <1>3, <1>6

\* The names of a sequence of chunks.
LEMMA NamesOf ==
    ASSUME NEW part \in Seq(Chunks)
    PROVE  /\ Names(part) \subseteq Chunks /\ IsFiniteSet(Names(part))
           /\ Len(part) \in Nat /\ DOMAIN part = 1 .. Len(part)
  <1>1. Names(part) \subseteq Chunks
    BY DEF Names
  <1> QED BY <1>1, ChunksAre, FS_Subset

\* The position of a chunk is one less than the last place it was read at.
LEMMA PlaceIs ==
    ASSUME NEW part \in Seq(Chunks), NEW x \in Names(part)
    PROVE  LET m == Max0({i \in DOMAIN part : part[i] = x})
           IN  m \in DOMAIN part /\ part[m] = x
  <1> DEFINE S == {i \in DOMAIN part : part[i] = x}
  <1>1. DOMAIN part = 1 .. Len(part) /\ Len(part) \in Nat
    BY NamesOf
  <1>2. S \in SUBSET (1 .. Len(part)) /\ S # {}
    BY <1>1 DEF Names
  <1>3. IsFiniteSet(1 .. Len(part))
    BY <1>1, FS_Interval
  <1>4. IsFiniteSet(S)
    <2> HIDE DEF S
    <2> QED BY <1>2, <1>3, FS_Subset
  <1>5. S \subseteq Nat
    BY <1>1
  <1>6. Max0(S) \in S
    <2> HIDE DEF S
    <2> QED BY <1>2, <1>4, <1>5, Max0Is
  <1> QED BY <1>6

\* ProcessTransform gives each chunk of a group the upload and a place it was read at.
LEMMA TransformIs ==
    ASSUME NEW part \in Seq(Chunks), Len(part) <= GroupSize, NEW up \in 0 .. MaxUploads
    PROVE  LET f == ProcessTransform(part, up) IN
           /\ f \in ChunkMaps /\ DOMAIN f = Names(part)
           /\ \A x \in DOMAIN f : f[x].up = up /\ f[x].pos + 1 \in DOMAIN part
                                  /\ part[f[x].pos + 1] = x
  <1> DEFINE f == ProcessTransform(part, up)
  <1> DEFINE m(x) == Max0({i \in DOMAIN part : part[i] = x})
  <1>1. DOMAIN f = Names(part) /\ \A x \in Names(part) : f[x] = [pos |-> m(x) - 1, up |-> up]
    BY DEF ProcessTransform
  <1>2. \A x \in Names(part) : m(x) \in DOMAIN part /\ part[m(x)] = x
    BY PlaceIs
  <1>3. Len(part) \in Nat /\ DOMAIN part = 1 .. Len(part) /\ Names(part) \subseteq Chunks
    BY NamesOf
  <1>4. \A x \in Names(part) : m(x) - 1 \in 0 .. GroupSize - 1 /\ (m(x) - 1) + 1 = m(x)
    <2> HIDE DEF m
    <2> QED BY <1>2, <1>3, TransferAssumption
  <1> HIDE DEF m
  <1>5. \A x \in Names(part) : [pos |-> m(x) - 1, up |-> up] \in Infos
    BY <1>4 DEF Infos
  <1>6. f \in [DOMAIN f -> Infos]
    <2>1. f = [x \in Names(part) |-> [pos |-> m(x) - 1, up |-> up]]
      BY DEF ProcessTransform, m
    <2> HIDE DEF f
    <2> QED BY <1>1, <1>5, <2>1
  <1>7. f \in ChunkMaps
    <2> HIDE DEF f
    <2> QED BY <1>1, <1>3, <1>6, MapIs
  <1>8. \A x \in DOMAIN f : f[x].up = up /\ f[x].pos = m(x) - 1
    <2> HIDE DEF f
    <2> QED BY <1>1
  <1> HIDE DEF f
  <1>9. \A x \in DOMAIN f : f[x].pos + 1 = m(x)
    BY <1>1, <1>4, <1>8
  <1>10. /\ f \in ChunkMaps /\ DOMAIN f = Names(part)
         /\ \A x \in DOMAIN f : f[x].up = up /\ f[x].pos + 1 \in DOMAIN part
                                /\ part[f[x].pos + 1] = x
    BY <1>1, <1>2, <1>7, <1>8, <1>9
  <1> QED BY <1>10 DEF f

GroupRows == [group : Nat, chunks : ChunkMaps]

\* What is taken from chunk posts is a map of chunks.
LEMMA ExtractType ==
    ASSUME groups \in Seq(GroupRows), NEW parents \in SUBSET DOMAIN groups
    PROVE  ExtractChunkInfo(parents) \in ChunkMaps
  <1> DEFINE listed(x) == {i \in parents : x \in DOMAIN groups[i].chunks}
  <1> DEFINE last(x) == CHOOSE i \in listed(x) :
                          \A k \in listed(x) : groups[k].group <= groups[i].group
  <1> DEFINE D == UNION {DOMAIN groups[i].chunks : i \in parents}
  <1> DEFINE f == ExtractChunkInfo(parents)
  <1>1. DOMAIN groups = 1 .. Len(groups) /\ Len(groups) \in Nat
    OBVIOUS
  <1>2. \A i \in parents : groups[i].group \in Nat /\ groups[i].chunks \in ChunkMaps
    <2>1. \A i \in DOMAIN groups : groups[i] \in GroupRows
      BY <1>1
    <2> QED BY <2>1 DEF GroupRows
  <1>3. ASSUME NEW x \in D PROVE last(x) \in parents /\ x \in DOMAIN groups[last(x)].chunks
    <2> DEFINE S == {groups[i].group : i \in listed(x)}
    <2>1. listed(x) # {} /\ listed(x) \in SUBSET (1 .. Len(groups))
      BY <1>1
    <2>2. S # {} /\ S \subseteq Nat
      BY <2>1, <1>2
    <2>3. IsFiniteSet(S)
      <3>1. IsFiniteSet(1 .. Len(groups))
        <4>1. \A n \in Nat : IsFiniteSet(1 .. n)
          BY FS_Interval
        <4> QED BY <4>1, <1>1
      <3>2. IsFiniteSet(listed(x))
        <4> HIDE DEF listed
        <4> QED BY <3>1, <2>1, FS_Subset
      <3> DEFINE h == [i \in listed(x) |-> groups[i].group]
      <3>3. h \in Surjection(listed(x), S)
        BY DEF Surjection
      <3> HIDE DEF h, listed, S
      <3> QED BY <3>2, <3>3, FS_Surjection
    <2>4. PICK n \in S : \A y \in S : y <= n
      <3> HIDE DEF S
      <3> QED BY <2>2, <2>3, GreatestIs
    <2>5. PICK i \in listed(x) : groups[i].group = n
      BY <2>4
    <2>6. \A k \in listed(x) : groups[k].group <= groups[i].group
      BY <2>4, <2>5
    <2>7. last(x) \in listed(x)
      <3> HIDE DEF listed
      <3> QED BY <2>5, <2>6
    <2> HIDE DEF last
    <2> QED BY <2>7
  <1>4. f = [x \in D |-> groups[last(x)].chunks[x]]
    BY DEF ExtractChunkInfo
  <1>5. \A i \in parents : /\ DOMAIN groups[i].chunks \subseteq Chunks
                           /\ \A x \in DOMAIN groups[i].chunks : groups[i].chunks[x] \in Infos
    BY <1>2, MapOf
  <1>6. \A x \in D : groups[last(x)].chunks[x] \in Infos
    <2> HIDE DEF last, D
    <2> QED BY <1>3, <1>5
  <1>7. D \subseteq Chunks
    BY <1>5
  <1> HIDE DEF D, last, f
  <1>8. DOMAIN f = D /\ f \in [DOMAIN f -> Infos]
    BY <1>4, <1>6
  <1>9. f \in ChunkMaps
    BY <1>7, <1>8, MapIs
  <1> QED BY <1>9 DEF f

\* The place of a chunk in the list is its position.
LEMMA ListIs ==
    ASSUME NEW chunks \in ChunkMaps
    PROVE  LET list == ChunkList(chunks) IN
           /\ DOMAIN list = {chunks[x].pos : x \in DOMAIN chunks}
           /\ DOMAIN list \subseteq 0 .. GroupSize - 1
           /\ IsFiniteSet(DOMAIN list) /\ Cardinality(DOMAIN list) \in Nat
           /\ \A p \in DOMAIN list : list[p] \in DOMAIN chunks /\ chunks[list[p]].pos = p
  <1> DEFINE list == ChunkList(chunks)
  <1> DEFINE at(p) == {x \in DOMAIN chunks : chunks[x].pos = p}
  <1>1. /\ DOMAIN chunks \subseteq Chunks /\ IsFiniteSet(DOMAIN chunks)
        /\ \A x \in DOMAIN chunks : chunks[x].pos \in 0 .. GroupSize - 1
    BY MapOf DEF Infos
  <1>2. DOMAIN list = {chunks[x].pos : x \in DOMAIN chunks}
    BY DEF ChunkList
  <1>3. \A p \in DOMAIN list : list[p] = Max0(at(p))
    BY DEF ChunkList
  <1>4. ASSUME NEW p \in DOMAIN list PROVE list[p] \in at(p)
    <2>1. at(p) # {}
      BY <1>2
    <2>2. IsFiniteSet(at(p))
      <3>1. at(p) \in SUBSET DOMAIN chunks
        OBVIOUS
      <3> HIDE DEF at
      <3> QED BY <3>1, <1>1, FS_Subset
    <2>3. at(p) \subseteq Nat
      BY <1>1, ChunksAre
    <2>4. Max0(at(p)) \in at(p)
      <3> HIDE DEF at
      <3> QED BY <2>1, <2>2, <2>3, Max0Is
    <2> HIDE DEF at, list
    <2> QED BY <2>4, <1>3
  <1>5. DOMAIN list \in SUBSET (0 .. GroupSize - 1)
    <2> HIDE DEF list
    <2> QED BY <1>1, <1>2
  <1>6. IsFiniteSet(0 .. GroupSize - 1)
    BY TransferAssumption, FS_Interval
  <1>7. IsFiniteSet(DOMAIN list)
    <2> HIDE DEF list
    <2> QED BY <1>5, <1>6, FS_Subset
  <1>8. Cardinality(DOMAIN list) \in Nat
    <2> HIDE DEF list
    <2> QED BY <1>7, FS_CardinalityType
  <1>9. \A p \in DOMAIN list : list[p] \in DOMAIN chunks /\ chunks[list[p]].pos = p
    <2> HIDE DEF list
    <2> QED BY <1>4
  <1> HIDE DEF list
  <1>10. /\ DOMAIN list = {chunks[x].pos : x \in DOMAIN chunks}
         /\ DOMAIN list \subseteq 0 .. GroupSize - 1
         /\ IsFiniteSet(DOMAIN list) /\ Cardinality(DOMAIN list) \in Nat
         /\ \A p \in DOMAIN list : list[p] \in DOMAIN chunks /\ chunks[list[p]].pos = p
    BY <1>2, <1>5, <1>7, <1>8, <1>9
  <1> QED BY <1>10 DEF list

-----------------------------------------------------------------------------
(***************************************************************************)
(* The invariant                                                           *)
(***************************************************************************)
Sending == {"on_get", "on_put", "posts", "group", "roll"}

\* A file that is to be sent is there; what was read of it is a whole number of
\* groups until the last group was read.
Ready(d) ==
  /\ ("upload" \in want[d] \/ job[d].step \in Sending) => disk[d] # NoFile
  /\ job[d].step = "group" =>
       /\ Len(job[d].fi.read) <= job[d].size
       /\ Len(job[d].fi.read) = 0 \/ Len(job[d].fi.read) >= GroupSize

\* The chunks of a row are stored, unless the server lost some of them ...
Backed(row, attachments) == row.lossy = {} => Attachments(row) \subseteq attachments

\* ... and if it names just the chunks of one group that was read, each has its
\* position in it.
Placed(row) ==
  DOMAIN row.chunks = Names(row.read) /\ Len(row.read) <= GroupSize =>
    \A x \in DOMAIN row.chunks :
      row.chunks[x].pos + 1 \in DOMAIN row.read /\ row.read[row.chunks[x].pos + 1] = x

Sound(row, attachments) == Backed(row, attachments) /\ Placed(row)

\* Every row there is: in the file post, the manifests, the polled posts, and
\* what an upload has of its file and of the file post.
RowsHeld ==
  {post.row} \cup {info[d] : d \in Devices} \cup {inbox[d].row : d \in Devices}
  \cup {job[d].fi : d \in Devices} \cup {job[d].got.row : d \in Devices}

RowsSound == \A row \in RowsHeld : Sound(row, stored)

Ordered(j) == j.step = "move" /\ Exact(j.fi) /\ ~j.lost => j.out = j.fi.read

Inv ==
  /\ TypeOK
  /\ \A d \in Devices : Ready(d)
  /\ RowsSound
  /\ \A d \in Devices : Ordered(job[d])

\* The parts of TypeOK by device.
LEMMA TypesAre ==
    ASSUME TypeOK
    PROVE  /\ post \in Posts /\ post.row \in Rows /\ groups \in Seq(GroupRows)
           /\ uploads \in Nat /\ failures \in Nat /\ edits \in Nat
           /\ \A d \in Devices : /\ disk[d] \in Files /\ info[d] \in Rows /\ job[d] \in Jobs
                                 /\ inbox[d] \in Posts /\ inbox[d].row \in Rows
                                 /\ want[d] \subseteq {"upload", "pull"}
  BY TransferAssumption DEF TypeOK, Posts, GroupRows

LEMMA JobOf ==
    ASSUME NEW j \in Jobs
    PROVE  /\ j.step \in Steps /\ j.up \in 0 .. MaxUploads /\ j.fi \in Rows
           /\ j.got \in Posts /\ j.got.row \in Rows /\ j.parents \subseteq Nat
           /\ j.size \in Nat /\ j.out \in Seq(Chunks) /\ j.lost \in BOOLEAN
  BY DEF Jobs, Posts

LEMMA JobIs ==
    ASSUME TypeOK, NEW d \in Devices, NEW j \in Jobs, Goes(d, j)
    PROVE  /\ job' \in [Devices -> Jobs] /\ job'[d] = j
           /\ \A e \in Devices \ {d} : job'[e] = job[e]
  BY DEF TypeOK, Goes

\* The rows there are.
LEMMA HeldAre ==
    /\ post.row \in RowsHeld
    /\ \A d \in Devices : /\ info[d] \in RowsHeld /\ inbox[d].row \in RowsHeld
                          /\ job[d].fi \in RowsHeld /\ job[d].got.row \in RowsHeld
  BY DEF RowsHeld

\* Attachments are only added.
LEMMA SoundGrows ==
    ASSUME NEW row, NEW S, NEW T, Sound(row, S), S \subseteq T
    PROVE  Sound(row, T)
  BY DEF Sound, Backed

\* A row without a list of chunks.
LEMMA EmptySound ==
    ASSUME NEW row, row.chunks = NoChunks, NEW S
    PROVE  Sound(row, S)
  BY NothingIs DEF Sound, Backed, Placed, Attachments

\* A step keeps RowsSound if what rows it makes are sound.
LEMMA RowsKept ==
    ASSUME RowsSound, stored \subseteq stored',
           NEW S, \A row \in S : Sound(row, stored'),
           post'.row \in RowsHeld \cup S,
           \A e \in Devices : /\ info'[e] \in RowsHeld \cup S
                              /\ inbox'[e].row \in RowsHeld \cup S
                              /\ job'[e].fi \in RowsHeld \cup S
                              /\ job'[e].got.row \in RowsHeld \cup S
    PROVE  RowsSound'
  <1>1. RowsHeld' \subseteq RowsHeld \cup S
    BY DEF RowsHeld
  <1>2. \A row \in RowsHeld : Sound(row, stored')
    BY SoundGrows DEF RowsSound
  <1> QED BY <1>1, <1>2 DEF RowsSound

\* What NoJob, NoPost and NoRow are.
LEMMA FreeJob ==
    /\ NoJob \in Jobs /\ NoJob.step = "idle" /\ NoJob.fi = NoRow /\ NoJob.got = NoPost
    /\ NoPost.row = NoRow /\ NoRow.chunks = NoChunks /\ NoRow.hash = NoFile
    /\ \A S : Sound(NoRow, S)
  <1>1. NoRow.chunks = NoChunks /\ NoRow.hash = NoFile
    BY DEF NoRow, Row
  <1> QED BY <1>1, NothingIs, EmptySound DEF NoJob, NoPost

LEMMA InitInv == Init => Inv
  <1> SUFFICES ASSUME Init PROVE Inv
    OBVIOUS
  <1>1. /\ job = [d \in Devices |-> NoJob] /\ want = [d \in Devices |-> {}]
        /\ inbox = [d \in Devices |-> NoPost] /\ news = {}
        /\ edits = 0 /\ uploads = 0 /\ failures = 0
    BY DEF Init, NoInbox
  <1>2. /\ disk \in [Devices -> Files] /\ info \in [Devices -> Rows] /\ post \in Posts
        /\ groups \in Seq(GroupRows) /\ stored \subseteq Chunks \X (0 .. MaxUploads)
        /\ \E row \in Rows :
             Sound(row, stored) /\ post.row = row /\ \A d \in Devices : info[d] = row
    <2>1. CASE New
      <3>1. disk \in [Devices -> Files]
        <4>1. Contents \cup {NoFile} \subseteq Files
          BY ChunksAre DEF Files
        <4> QED BY <2>1, <4>1 DEF New
      <3> QED BY <3>1, <2>1, NothingIs, FreeJob DEF New
    <2>2. CASE Known
      <3> DEFINE chunks(c) ==
            [x \in Names(c) |-> [pos |-> Max0({i \in DOMAIN c : c[i] = x}) - 1, up |-> 0]]
      <3>1. PICK c \in Contents :
              LET row == Row(c, chunks(c), c, {}) IN
              /\ 0 < Len(c) /\ Len(c) <= GroupSize
              /\ disk = [d \in Devices |-> c] /\ info = [d \in Devices |-> row]
              /\ post = [row |-> row, transit |-> FALSE]
              /\ groups = <<[group |-> 0, chunks |-> chunks(c)]>>
              /\ stored = {<<x, 0>> : x \in Names(c)}
        BY <2>2 DEF Known
      <3> DEFINE m == chunks(c)
      <3> DEFINE row == Row(c, m, c, {})
      <3>2. c \in Seq(Chunks) /\ Len(c) <= GroupSize /\ 0 \in 0 .. MaxUploads
        BY <3>1, ChunksAre, TransferAssumption
      <3>3. m = ProcessTransform(c, 0)
        BY DEF ProcessTransform
      <3>4. /\ m \in ChunkMaps /\ DOMAIN m = Names(c)
            /\ \A x \in DOMAIN m : m[x].up = 0 /\ m[x].pos + 1 \in DOMAIN c
                                   /\ c[m[x].pos + 1] = x
        <4> HIDE DEF m, chunks
        <4> QED BY <3>2, <3>3, TransformIs
      <3>5. /\ info = [d \in Devices |-> row] /\ post = [row |-> row, transit |-> FALSE]
            /\ groups = <<[group |-> 0, chunks |-> m]>>
            /\ disk = [d \in Devices |-> c] /\ stored = {<<x, 0>> : x \in Names(c)}
        BY <3>1
      <3> HIDE DEF m, chunks
      <3>6. row \in Rows /\ row.chunks = m /\ row.read = c /\ row.lossy = {}
        BY <3>2, <3>4, RowType DEF Row, Files
      <3> HIDE DEF row
      <3>7. Backed(row, stored)
        BY <3>4, <3>5, <3>6 DEF Backed, Attachments
      <3>8. Placed(row)
        BY <3>4, <3>6 DEF Placed
      <3>9. Names(c) \subseteq Chunks
        BY <3>2, NamesOf
      <3>10. groups \in Seq(GroupRows)
        <4>1. [group |-> 0, chunks |-> m] \in GroupRows
          BY <3>4 DEF GroupRows
        <4> QED BY <4>1, <3>5
      <3>11. stored \subseteq Chunks \X (0 .. MaxUploads)
        BY <3>2, <3>5, <3>9
      <3>12. disk \in [Devices -> Files]
        BY <3>2, <3>5 DEF Files
      <3>13. info \in [Devices -> Rows] /\ post \in Posts
        BY <3>5, <3>6 DEF Posts
      <3>14. post.row = row /\ \A d \in Devices : info[d] = row
        BY <3>5
      <3>15. Sound(row, stored)
        BY <3>7, <3>8 DEF Sound
      <3> QED BY <3>6, <3>10, <3>11, <3>12, <3>13, <3>14, <3>15
    <2> QED BY <2>1, <2>2 DEF Init
  <1>3. TypeOK
    <2>1. /\ job \in [Devices -> Jobs] /\ inbox \in [Devices -> Posts]
          /\ want \in [Devices -> SUBSET {"upload", "pull"}]
      BY <1>1, NothingIs
    <2>2. uploads \in 0 .. MaxUploads /\ failures \in 0 .. MaxFailures /\ edits \in 0 .. MaxEdits
      BY <1>1, TransferAssumption
    <2> QED BY <1>1, <1>2, <2>1, <2>2 DEF TypeOK, GroupRows
  <1>4. \A d \in Devices : Ready(d) /\ Ordered(job[d])
    BY <1>1, FreeJob DEF Ready, Ordered, Sending
  <1>5. RowsSound
    <2>1. PICK row \in Rows :
            Sound(row, stored) /\ post.row = row /\ \A d \in Devices : info[d] = row
      BY <1>2
    <2>2. \A r \in RowsHeld : r = row \/ r = NoRow
      BY <1>1, <2>1, FreeJob DEF RowsHeld
    <2> QED BY <2>1, <2>2, FreeJob DEF RowsSound
  <1> QED BY <1>3, <1>4, <1>5 DEF Inv

-----------------------------------------------------------------------------
(***************************************************************************)
(* The steps                                                               *)
(***************************************************************************)
LEMMA InvStep ==
    ASSUME Inv, NEW d \in Devices, TypeOK', RowsSound', Ready(d)', Ordered(job'[d]),
           \A e \in Devices \ {d} :
             disk'[e] = disk[e] /\ want'[e] = want[e] /\ job'[e] = job[e]
    PROVE  Inv'
  <1>1. ASSUME NEW e \in Devices PROVE Ready(e)'
    <2>1. CASE e = d
      BY <2>1
    <2>2. CASE e # d
      <3>1. Ready(e)
        BY DEF Inv
      <3> QED BY <2>2, <3>1 DEF Ready
    <2> QED BY <2>1, <2>2
  <1>2. ASSUME NEW e \in Devices PROVE Ordered(job'[e])
    <2>1. Ordered(job[e])
      BY DEF Inv
    <2> QED BY <2>1
  <1>3. \A e \in Devices : Ordered(job[e])'
    BY <1>2 DEF Ordered, Exact, Names
  <1> QED BY <1>1, <1>3 DEF Inv

LEMMA InvIs ==
    ASSUME Inv
    PROVE  TypeOK /\ RowsSound /\ \A d \in Devices : Ready(d) /\ Ordered(job[d])
  BY DEF Inv

\* No row is new.
LEMMA RowsSame ==
    ASSUME RowsSound, stored \subseteq stored',
           post'.row \in RowsHeld \cup {NoRow},
           \A e \in Devices : /\ info'[e] \in RowsHeld \cup {NoRow}
                              /\ inbox'[e].row \in RowsHeld \cup {NoRow}
                              /\ job'[e].fi \in RowsHeld \cup {NoRow}
                              /\ job'[e].got.row \in RowsHeld \cup {NoRow}
    PROVE  RowsSound'
  <1>1. \A row \in {NoRow} : Sound(row, stored')
    BY FreeJob
  <1> QED BY <1>1, RowsKept

LEMMA EditInv ==
    ASSUME Inv, NEW d \in Devices, Edit(d)
    PROVE  Inv'
  <1>1. TypeOK /\ RowsSound /\ Ready(d) /\ Ordered(job[d])
    BY InvIs
  <1>2. PICK c \in Contents : disk' = [disk EXCEPT ![d] = c]
    BY DEF Edit
  <1>3. /\ edits' = edits + 1 /\ edits < MaxEdits
        /\ UNCHANGED <<info, want, job, inbox, post, groups, stored, news, uploads, failures>>
    BY DEF Edit, device, server
  <1>4. c \in Files /\ c # NoFile
    BY ChunksAre DEF Files
  <1>5. /\ disk' \in [Devices -> Files] /\ disk'[d] = c
        /\ \A e \in Devices \ {d} : disk'[e] = disk[e]
    BY <1>1, <1>2, <1>4 DEF TypeOK
  <1>6. edits' \in 0 .. MaxEdits
    BY <1>1, <1>3, TransferAssumption DEF TypeOK
  <1>7. TypeOK'
    BY <1>1, <1>3, <1>5, <1>6 DEF TypeOK
  <1>8. RowsSound'
    BY <1>1, <1>3, HeldAre, RowsSame
  <1>9. Ready(d)'
    BY <1>1, <1>3, <1>4, <1>5 DEF Ready
  <1>10. Ordered(job'[d])
    BY <1>1, <1>3
  <1> QED BY <1>3, <1>5, <1>7, <1>8, <1>9, <1>10, InvStep

LEMMA PushFileInv ==
    ASSUME Inv, NEW d \in Devices, PushFile(d)
    PROVE  Inv'
  <1>1. TypeOK /\ RowsSound /\ Ready(d) /\ Ordered(job[d])
    BY InvIs
  <1>2. /\ disk[d] # NoFile
        /\ want' = want \/ want' = [want EXCEPT ![d] = @ \cup {"upload"}]
        /\ UNCHANGED <<disk, job, inbox, groups, stored, edits, uploads>>
    BY DEF PushFile, CreateNewFile
  <1>3. /\ want' \in [Devices -> SUBSET {"upload", "pull"}]
        /\ \A e \in Devices \ {d} : want'[e] = want[e]
    BY <1>1, <1>2 DEF TypeOK
  <1>4. Ready(d)' /\ Ordered(job'[d])
    BY <1>1, <1>2 DEF Ready
  <1>5. failures' \in 0 .. MaxFailures
    <2>1. Works \/ Fails
      BY DEF PushFile, CreateNewFile
    <2> QED BY <1>1, <2>1, TransferAssumption DEF TypeOK, Works, Fails
  <1>6. CASE UNCHANGED <<post, news, info>>
    <2>1. TypeOK'
      BY <1>1, <1>2, <1>3, <1>5, <1>6 DEF TypeOK
    <2>2. RowsSound'
      BY <1>1, <1>2, <1>6, HeldAre, RowsSame
    <2> QED BY <1>2, <1>3, <1>4, <2>1, <2>2, InvStep
  <1> DEFINE new == Row(disk[d], NoChunks, disk[d], {})
  <1>7. CASE /\ post' = [row |-> new, transit |-> TRUE] /\ news' = Devices
             /\ info' = [info EXCEPT ![d] = new] \/ info' = info
    <2>1. PICK row : row = new
      OBVIOUS
    <2>2. disk[d] \in Files /\ disk[d] \in Seq(Chunks)
      BY <1>1, <1>2, TypesAre DEF Files
    <2>3. row \in Rows /\ row.chunks = NoChunks
      BY <2>1, <2>2, NothingIs, RowType DEF Row
    <2> HIDE DEF new
    <2>4. /\ post' \in Posts /\ info' \in [Devices -> Rows]
          /\ post'.row = row /\ info'[d] \in {row, info[d]}
          /\ \A e \in Devices \ {d} : info'[e] = info[e]
      BY <1>1, <1>7, <2>1, <2>3 DEF TypeOK, Posts
    <2>5. TypeOK'
      BY <1>1, <1>2, <1>3, <1>5, <1>7, <2>4 DEF TypeOK
    <2>6. \A r \in {row} : Sound(r, stored')
      BY <2>3, EmptySound
    <2>7. /\ post'.row \in RowsHeld \cup {row} /\ stored \subseteq stored'
          /\ \A e \in Devices : /\ info'[e] \in RowsHeld \cup {row}
                                /\ inbox'[e].row \in RowsHeld \cup {row}
                                /\ job'[e].fi \in RowsHeld \cup {row}
                                /\ job'[e].got.row \in RowsHeld \cup {row}
      BY <1>2, <2>4, HeldAre
    <2>8. RowsSound'
      BY <1>1, <2>6, <2>7, RowsKept
    <2> QED BY <1>2, <1>3, <1>4, <2>5, <2>8, InvStep
  <1> HIDE DEF new
  <1> QED BY <1>6, <1>7 DEF PushFile, CreateNewFile, new

LEMMA FileInUseInv ==
    ASSUME Inv, NEW d \in Devices, NEW kind, FileInUse(d, kind)
    PROVE  Inv'
  <1>1. TypeOK /\ RowsSound /\ Ready(d) /\ Ordered(job[d])
    BY InvIs
  <1>2. /\ want' = [want EXCEPT ![d] = @ \ {kind}]
        /\ UNCHANGED <<disk, info, job, inbox, post, groups, stored, news, edits, uploads, failures>>
    BY DEF FileInUse, server
  <1>3. /\ want' \in [Devices -> SUBSET {"upload", "pull"}] /\ want'[d] \subseteq want[d]
        /\ \A e \in Devices \ {d} : want'[e] = want[e]
    BY <1>1, <1>2 DEF TypeOK
  <1>4. TypeOK'
    BY <1>1, <1>2, <1>3 DEF TypeOK
  <1>5. RowsSound'
    BY <1>1, <1>2, HeldAre, RowsSame
  <1>6. Ready(d)' /\ Ordered(job'[d])
    BY <1>1, <1>2, <1>3 DEF Ready
  <1> QED BY <1>2, <1>3, <1>4, <1>5, <1>6, InvStep

\* A request of an upload that fails ends it.
LEMMA FailsInv ==
    ASSUME Inv, NEW d \in Devices, Fails, Idle(d), stored \subseteq stored', want' = want, disk' = disk,
           info' = info, inbox' = inbox, groups' = groups, stored' = stored, edits' = edits,
           uploads' = uploads, post' \in Posts, post'.row \in RowsHeld, news' \subseteq Devices
    PROVE  Inv'
  <1>1. TypeOK /\ RowsSound /\ Ready(d) /\ Ordered(job[d])
    BY InvIs
  <1>2. /\ job' \in [Devices -> Jobs] /\ job'[d] = NoJob
        /\ \A e \in Devices \ {d} : job'[e] = job[e]
    BY <1>1, FreeJob, JobIs DEF Idle
  <1>3. failures' \in 0 .. MaxFailures
    BY <1>1, TransferAssumption DEF TypeOK, Fails
  <1>4. TypeOK'
    BY <1>1, <1>2, <1>3 DEF TypeOK
  <1>5. RowsSound'
    BY <1>1, <1>2, HeldAre, FreeJob, RowsSame
  <1>6. Ready(d)' /\ Ordered(job'[d])
    BY <1>1, <1>2, FreeJob DEF Ready, Ordered, Sending
  <1> QED BY <1>2, <1>4, <1>5, <1>6, InvStep

LEMMA GetFilePostInv ==
    ASSUME Inv, NEW d \in Devices, NEW at, NEW next \in Steps \ {"group", "move"},
           next \in Sending => at \in Sending, GetFilePost(d, at, next)
    PROVE  Inv'
  <1>1. TypeOK /\ RowsSound /\ Ready(d) /\ Ordered(job[d])
    BY InvIs
  <1>2. /\ job[d].step = at
        /\ UNCHANGED <<disk, info, want, inbox, post, groups, stored, news, edits, uploads>>
    BY DEF GetFilePost, server
  <1>3. CASE Fails /\ Idle(d)
    BY <1>1, <1>2, <1>3, FailsInv, TypesAre, HeldAre DEF TypeOK
  <1>4. CASE Works /\ Goes(d, [job[d] EXCEPT !.step = next, !.got = post])
    <2>1. PICK j : j = [job[d] EXCEPT !.step = next, !.got = post]
      OBVIOUS
    <2>2. job[d] \in Jobs /\ post \in Posts
      BY <1>1, TypesAre
    <2>3. j \in Jobs /\ j.step = next /\ j.got = post /\ j.fi = job[d].fi
      BY <2>1, <2>2 DEF Jobs
    <2>4. /\ job' \in [Devices -> Jobs] /\ job'[d] = j
          /\ \A e \in Devices \ {d} : job'[e] = job[e]
      BY <1>1, <1>4, <2>1, <2>3, JobIs
    <2>5. TypeOK'
      BY <1>1, <1>2, <1>4, <2>4 DEF TypeOK, Works
    <2>6. RowsSound'
      BY <1>1, <1>2, <2>3, <2>4, HeldAre, RowsSame
    <2>7. Ready(d)' /\ Ordered(job'[d])
      BY <1>1, <1>2, <2>3, <2>4 DEF Ready, Ordered
    <2> QED BY <1>2, <2>4, <2>5, <2>6, <2>7, InvStep
  <1> QED BY <1>3, <1>4 DEF GetFilePost

LEMMA PutFilePostInv ==
    ASSUME Inv, NEW d \in Devices, NEW at, NEW next \in Steps \ {"group", "move"}, NEW value \in Posts,
           next \in Sending => at \in Sending, value.row \in RowsHeld,
           PutFilePost(d, at, next, value)
    PROVE  Inv'
  <1>1. TypeOK /\ RowsSound /\ Ready(d) /\ Ordered(job[d])
    BY InvIs
  <1>2. /\ job[d].step = at
        /\ UNCHANGED <<disk, info, want, inbox, groups, stored, edits, uploads>>
    BY DEF PutFilePost
  <1>3. CASE Fails /\ Idle(d) /\ UNCHANGED <<post, news>>
    BY <1>1, <1>2, <1>3, FailsInv, TypesAre, HeldAre DEF TypeOK
  <1>4. CASE Fails /\ Idle(d) /\ post' = value /\ news' = Devices
    BY <1>1, <1>2, <1>4, FailsInv
  <1>5. CASE /\ Works /\ post' = value /\ news' = Devices
             /\ IF next = "idle" THEN Idle(d) ELSE Step(d, next)
    <2>1. PICK j : j = IF next = "idle" THEN NoJob ELSE [job[d] EXCEPT !.step = next]
      OBVIOUS
    <2>2. job[d] \in Jobs
      BY <1>1, TypesAre
    <2>3. /\ j \in Jobs /\ j.step = next
          /\ j = NoJob \/ (j.got = job[d].got /\ j.fi = job[d].fi)
      <3>1. CASE next = "idle"
        BY <3>1, <2>1, FreeJob
      <3>2. CASE next # "idle"
        BY <3>2, <2>1, <2>2 DEF Jobs
      <3> QED BY <3>1, <3>2
    <2>4. Goes(d, j)
      BY <1>5, <2>1 DEF Idle, Step
    <2>5. /\ job' \in [Devices -> Jobs] /\ job'[d] = j
          /\ \A e \in Devices \ {d} : job'[e] = job[e]
      BY <1>1, <2>3, <2>4, JobIs
    <2>6. TypeOK'
      BY <1>1, <1>2, <1>5, <2>5 DEF TypeOK, Works
    <2>7. /\ job'[d].fi \in RowsHeld \cup {NoRow} /\ job'[d].got.row \in RowsHeld \cup {NoRow}
      BY <2>3, <2>5, HeldAre, FreeJob
    <2>8. RowsSound'
      BY <1>1, <1>2, <1>5, <2>5, <2>7, HeldAre, RowsSame
    <2>9. Ready(d)' /\ Ordered(job'[d])
      BY <1>1, <1>2, <2>3, <2>5 DEF Ready, Ordered
    <2> QED BY <1>2, <2>5, <2>6, <2>8, <2>9, InvStep
  <1> QED BY <1>3, <1>4, <1>5 DEF PutFilePost

\* The three updates of the file post.
LEMMA UpdatesInv ==
    ASSUME Inv, NEW d \in Devices,
           BeginTransit(d) \/ UpdateFilePost(d) \/ EndTransit(d)
    PROVE  Inv'
  <1>1. job[d] \in Jobs /\ job[d].got \in Posts /\ job[d].fi \in Rows
    BY InvIs, TypesAre, JobOf
  <1>2. job[d].got.row \in RowsHeld /\ job[d].fi \in RowsHeld
    BY HeldAre
  <1>3. /\ [job[d].got EXCEPT !.transit = TRUE] \in Posts
        /\ [job[d].got EXCEPT !.transit = FALSE] \in Posts
        /\ [job[d].got EXCEPT !.row = job[d].fi] \in Posts
    BY <1>1 DEF Posts
  <1>4. /\ [job[d].got EXCEPT !.transit = TRUE].row \in RowsHeld
        /\ [job[d].got EXCEPT !.transit = FALSE].row \in RowsHeld
        /\ [job[d].got EXCEPT !.row = job[d].fi].row \in RowsHeld
    BY <1>1, <1>2 DEF Posts
  <1>5. /\ {"on_put", "file_put", "off_put", "posts", "off_get", "idle"} \subseteq Steps \ {"group", "move"}
        /\ {"on_get", "on_put", "posts"} \subseteq Sending
        /\ "file_put" \notin Sending /\ "off_get" \notin Sending /\ "off_put" \notin Sending
        /\ "idle" \notin Sending
    BY DEF Steps, Sending
  <1>6. CASE GetFilePost(d, "on_get", "on_put")
    BY <1>5, <1>6, GetFilePostInv
  <1>7. CASE PutFilePost(d, "on_put", "posts", [job[d].got EXCEPT !.transit = TRUE])
    BY <1>3, <1>4, <1>5, <1>7, PutFilePostInv
  <1>8. CASE GetFilePost(d, "file_get", "file_put")
    BY <1>5, <1>8, GetFilePostInv
  <1>9. CASE PutFilePost(d, "file_put", "off_get", [job[d].got EXCEPT !.row = job[d].fi])
    BY <1>3, <1>4, <1>5, <1>9, PutFilePostInv
  <1>10. CASE GetFilePost(d, "off_get", "off_put")
    BY <1>5, <1>10, GetFilePostInv
  <1>11. CASE PutFilePost(d, "off_put", "idle", [job[d].got EXCEPT !.transit = FALSE])
    BY <1>3, <1>4, <1>5, <1>11, PutFilePostInv
  <1> QED BY <1>6, <1>7, <1>8, <1>9, <1>10, <1>11 DEF BeginTransit, UpdateFilePost, EndTransit

LEMMA BeginUploadInv ==
    ASSUME Inv, NEW d \in Devices, BeginUpload(d)
    PROVE  Inv'
  <1>1. TypeOK /\ RowsSound /\ Ready(d) /\ Ordered(job[d])
    BY InvIs
  <1>2. PICK j : j = [NoJob EXCEPT !.step = "on_get", !.up = uploads + 1, !.fi = info[d]]
    OBVIOUS
  <1>3. /\ "upload" \in want[d] /\ uploads < MaxUploads /\ uploads' = uploads + 1
        /\ want' = [want EXCEPT ![d] = @ \ {"upload"}] /\ Goes(d, j)
        /\ UNCHANGED <<disk, info, inbox, post, groups, stored, news, edits, failures>>
    BY <1>2 DEF BeginUpload, server
  <1>4. uploads' \in 0 .. MaxUploads
    BY <1>1, <1>3, TransferAssumption DEF TypeOK
  <1>5. j \in Jobs /\ j.step = "on_get" /\ j.fi = info[d] /\ j.got = NoPost
    <2>1. info[d] \in Rows /\ uploads + 1 \in 0 .. MaxUploads /\ "on_get" \in Steps
      BY <1>1, <1>3, <1>4, TypesAre DEF Steps
    <2>2. j = [step |-> "on_get", up |-> uploads + 1, fi |-> info[d], got |-> NoPost,
               parents |-> {}, size |-> 0, out |-> <<>>, lost |-> FALSE]
      BY <1>2 DEF NoJob
    <2> QED BY <2>1, <2>2, NothingIs, ChunksAre DEF Jobs
  <1>6. /\ job' \in [Devices -> Jobs] /\ job'[d] = j
        /\ \A e \in Devices \ {d} : job'[e] = job[e]
    BY <1>1, <1>3, <1>5, JobIs
  <1>7. /\ want' \in [Devices -> SUBSET {"upload", "pull"}]
        /\ \A e \in Devices \ {d} : want'[e] = want[e]
    BY <1>1, <1>3 DEF TypeOK
  <1>8. TypeOK'
    BY <1>1, <1>3, <1>4, <1>6, <1>7 DEF TypeOK
  <1>9. RowsSound'
    BY <1>1, <1>3, <1>5, <1>6, HeldAre, FreeJob, RowsSame
  <1>10. Ready(d)' /\ Ordered(job'[d])
    BY <1>1, <1>3, <1>5, <1>6 DEF Ready, Ordered
  <1> QED BY <1>3, <1>6, <1>7, <1>8, <1>9, <1>10, InvStep

LEMMA RetrieveChunkPostsInv ==
    ASSUME Inv, NEW d \in Devices, RetrieveChunkPosts(d)
    PROVE  Inv'
  <1>1. TypeOK /\ RowsSound /\ Ready(d) /\ Ordered(job[d])
    BY InvIs
  <1>2. PICK parents \in {GroupPosts, {}} :
          /\ IF parents = GroupPosts THEN Works ELSE Fails
          /\ Goes(d, [job[d] EXCEPT
               !.step = IF disk[d] = <<>> THEN "roll" ELSE "group",
               !.parents = parents, !.size = Len(disk[d]),
               !.fi = Row(@.hash, ExtractChunkInfo(parents), <<>>, {})])
    BY DEF RetrieveChunkPosts
  <1>3. /\ job[d].step = "posts"
        /\ UNCHANGED <<disk, info, want, inbox, post, groups, stored, news, edits, uploads>>
    BY DEF RetrieveChunkPosts, server
  <1>4. groups \in Seq(GroupRows) /\ job[d] \in Jobs /\ disk[d] \in Files
    BY <1>1, TypesAre
  <1>5. disk[d] \in Seq(Chunks)
    BY <1>1, <1>3, <1>4 DEF Ready, Sending, Files
  <1>6. parents \subseteq DOMAIN groups /\ DOMAIN groups \subseteq Nat
    BY <1>2, <1>4 DEF GroupPosts
  <1>7. PICK row : row = Row(job[d].fi.hash, ExtractChunkInfo(parents), <<>>, {})
    OBVIOUS
  <1>8. row \in Rows /\ row.read = <<>> /\ row.chunks = ExtractChunkInfo(parents)
    <2>1. ExtractChunkInfo(parents) \in ChunkMaps
      BY <1>4, <1>6, ExtractType
    <2>2. job[d].fi.hash \in Files
      BY <1>4, JobOf, RowOf
    <2>3. row \in Rows
      BY <1>7, <2>1, <2>2, ChunksAre, RowType
    <2> QED BY <1>7, <2>3 DEF Row
  <1>9. Names(<<>>) = {} /\ Names(row.read) = {}
    BY <1>8 DEF Names
  <1>10. Sound(row, stored)
    <2>1. Attachments(row) = {}
      BY <1>9 DEF Attachments
    <2>2. Placed(row)
      BY <1>9 DEF Placed
    <2> QED BY <2>1, <2>2 DEF Sound, Backed
  <1>11. PICK j : j = [job[d] EXCEPT !.step = IF disk[d] = <<>> THEN "roll" ELSE "group",
               !.parents = parents, !.size = Len(disk[d]), !.fi = row]
    OBVIOUS
  <1>12. Goes(d, j)
    <2>1. [job[d] EXCEPT !.step = IF disk[d] = <<>> THEN "roll" ELSE "group",
               !.parents = parents, !.size = Len(disk[d]),
               !.fi = Row(@.hash, ExtractChunkInfo(parents), <<>>, {})] = j
      BY <1>7, <1>11, <1>4 DEF Jobs
    <2> QED BY <1>2, <2>1
  <1>13. /\ j \in Jobs /\ j.fi = row /\ j.got = job[d].got /\ j.size = Len(disk[d])
         /\ j.step \in {"roll", "group"} /\ j.step # "move"
    <2>1. Len(disk[d]) \in Nat /\ "roll" \in Steps /\ "group" \in Steps
      BY <1>5 DEF Steps
    <2> QED BY <1>4, <1>6, <1>8, <1>11, <2>1 DEF Jobs
  <1>14. /\ job' \in [Devices -> Jobs] /\ job'[d] = j
         /\ \A e \in Devices \ {d} : job'[e] = job[e]
    BY <1>1, <1>12, <1>13, JobIs
  <1>15. failures' \in 0 .. MaxFailures
    <2>1. Works \/ Fails
      BY <1>2
    <2> QED BY <1>1, <2>1, TransferAssumption DEF TypeOK, Works, Fails
  <1>16. TypeOK'
    BY <1>1, <1>3, <1>14, <1>15 DEF TypeOK
  <1>17. RowsSound'
    <2>1. \A r \in {row} : Sound(r, stored')
      BY <1>3, <1>10
    <2>2. /\ post'.row \in RowsHeld \cup {row} /\ stored \subseteq stored'
          /\ \A e \in Devices : /\ info'[e] \in RowsHeld \cup {row}
                                /\ inbox'[e].row \in RowsHeld \cup {row}
                                /\ job'[e].fi \in RowsHeld \cup {row}
                                /\ job'[e].got.row \in RowsHeld \cup {row}
      BY <1>3, <1>13, <1>14, HeldAre
    <2> QED BY <1>1, <2>1, <2>2, RowsKept
  <1>18. Ready(d)'
    <2>1. disk'[d] # NoFile
      BY <1>1, <1>3 DEF Ready, Sending
    <2>2. Len(j.fi.read) = 0 /\ Len(j.fi.read) <= j.size
      BY <1>5, <1>8, <1>13
    <2> QED BY <2>1, <2>2, <1>14 DEF Ready
  <1>19. Ordered(job'[d])
    BY <1>13, <1>14 DEF Ordered
  <1> QED BY <1>3, <1>14, <1>16, <1>17, <1>18, <1>19, InvStep

LEMMA UpdateFileInfoInv ==
    ASSUME Inv, NEW d \in Devices, UpdateFileInfo(d)
    PROVE  Inv'
  <1>1. TypeOK /\ RowsSound /\ Ready(d) /\ Ordered(job[d])
    BY InvIs
  <1>2. PICK row : row = [job[d].fi EXCEPT !.hash = disk[d]]
    OBVIOUS
  <1>3. PICK j : j = [job[d] EXCEPT !.step = "file_get", !.fi = row]
    OBVIOUS
  <1>4. /\ info' = [info EXCEPT ![d] = row] /\ Goes(d, j)
        /\ UNCHANGED <<disk, want, inbox, post, groups, stored, news, edits, uploads, failures>>
    BY <1>2, <1>3 DEF UpdateFileInfo, server
  <1>5. job[d] \in Jobs /\ job[d].fi \in Rows /\ disk[d] \in Files
    BY <1>1, TypesAre, JobOf
  <1>6. /\ row \in Rows /\ row.chunks = job[d].fi.chunks /\ row.read = job[d].fi.read
        /\ row.lossy = job[d].fi.lossy
    BY <1>2, <1>5 DEF Rows
  <1>7. Sound(row, stored)
    <2>1. Sound(job[d].fi, stored)
      BY <1>1, HeldAre DEF RowsSound
    <2> QED BY <1>6, <2>1 DEF Sound, Backed, Placed, Attachments
  <1>8. j \in Jobs /\ j.step = "file_get" /\ j.fi = row /\ j.got = job[d].got
    BY <1>3, <1>5, <1>6 DEF Jobs, Steps
  <1>9. /\ job' \in [Devices -> Jobs] /\ job'[d] = j
        /\ \A e \in Devices \ {d} : job'[e] = job[e]
    BY <1>1, <1>4, <1>8, JobIs
  <1>10. /\ info' \in [Devices -> Rows] /\ info'[d] = row
         /\ \A e \in Devices \ {d} : info'[e] = info[e]
    BY <1>1, <1>4, <1>6 DEF TypeOK
  <1>11. TypeOK'
    BY <1>1, <1>4, <1>9, <1>10 DEF TypeOK
  <1>12. RowsSound'
    <2>1. \A r \in {row} : Sound(r, stored')
      BY <1>4, <1>7
    <2>2. /\ post'.row \in RowsHeld \cup {row} /\ stored \subseteq stored'
          /\ \A e \in Devices : /\ info'[e] \in RowsHeld \cup {row}
                                /\ inbox'[e].row \in RowsHeld \cup {row}
                                /\ job'[e].fi \in RowsHeld \cup {row}
                                /\ job'[e].got.row \in RowsHeld \cup {row}
      BY <1>4, <1>8, <1>9, <1>10, HeldAre
    <2> QED BY <1>1, <2>1, <2>2, RowsKept
  <1>13. Ready(d)' /\ Ordered(job'[d])
    BY <1>1, <1>4, <1>8, <1>9 DEF Ready, Ordered, Sending, UpdateFileInfo
  <1> QED BY <1>4, <1>9, <1>11, <1>12, <1>13, InvStep

LEMMA CrashInv ==
    ASSUME Inv, NEW d \in Devices, Crash(d)
    PROVE  Inv'
  <1>1. TypeOK /\ RowsSound /\ Ready(d) /\ Ordered(job[d])
    BY InvIs
  <1>2. /\ Fails /\ Idle(d) /\ want' = [want EXCEPT ![d] = {}]
        /\ inbox' = [inbox EXCEPT ![d] = NoPost] /\ news' = news \cup {d}
        /\ UNCHANGED <<disk, info, post, groups, stored, edits, uploads>>
    BY DEF Crash, NoInbox
  <1>3. /\ job' \in [Devices -> Jobs] /\ job'[d] = NoJob
        /\ \A e \in Devices \ {d} : job'[e] = job[e]
    BY <1>1, <1>2, FreeJob, JobIs DEF Idle
  <1>4. failures' \in 0 .. MaxFailures
    BY <1>1, <1>2, TransferAssumption DEF TypeOK, Fails
  <1>5. /\ want' \in [Devices -> SUBSET {"upload", "pull"}] /\ want'[d] = {}
        /\ \A e \in Devices \ {d} : want'[e] = want[e]
    BY <1>1, <1>2 DEF TypeOK
  <1>6. /\ inbox' \in [Devices -> Posts] /\ inbox'[d] = NoPost
        /\ \A e \in Devices \ {d} : inbox'[e] = inbox[e]
    BY <1>1, <1>2, NothingIs DEF TypeOK
  <1>7. TypeOK'
    BY <1>1, <1>2, <1>3, <1>4, <1>5, <1>6 DEF TypeOK
  <1>8. RowsSound'
    BY <1>1, <1>2, <1>3, <1>6, HeldAre, FreeJob, RowsSame
  <1>9. Ready(d)' /\ Ordered(job'[d])
    BY <1>3, <1>5, FreeJob DEF Ready, Ordered, Sending
  <1> QED BY <1>2, <1>3, <1>5, <1>7, <1>8, <1>9, InvStep

LEMMA PollFilePostsInv ==
    ASSUME Inv, NEW d \in Devices, PollFilePosts(d)
    PROVE  Inv'
  <1>1. TypeOK /\ RowsSound /\ Ready(d) /\ Ordered(job[d])
    BY InvIs
  <1>2. /\ news' = news \ {d} /\ inbox' = [inbox EXCEPT ![d] = post]
        /\ UNCHANGED <<disk, info, want, job, post, groups, stored, edits, uploads, failures>>
    BY DEF PollFilePosts
  <1>3. /\ inbox' \in [Devices -> Posts] /\ inbox'[d] = post
        /\ \A e \in Devices \ {d} : inbox'[e] = inbox[e]
    BY <1>1, <1>2 DEF TypeOK
  <1>4. TypeOK'
    BY <1>1, <1>2, <1>3 DEF TypeOK
  <1>5. RowsSound'
    BY <1>1, <1>2, <1>3, HeldAre, RowsSame
  <1>6. Ready(d)' /\ Ordered(job'[d])
    BY <1>1, <1>2 DEF Ready
  <1> QED BY <1>2, <1>4, <1>5, <1>6, InvStep

LEMMA ProcessFilePostInv ==
    ASSUME Inv, NEW d \in Devices, ProcessFilePost(d)
    PROVE  Inv'
  <1>1. TypeOK /\ RowsSound /\ Ready(d) /\ Ordered(job[d])
    BY InvIs
  <1>2. PICK row : row = inbox[d].row
    OBVIOUS
  <1>3. /\ inbox' = [inbox EXCEPT ![d] = NoPost]
        /\ info' = info \/ info' = [info EXCEPT ![d] = row]
        /\ want' = want \/ want' = [want EXCEPT ![d] = @ \cup {"pull"}]
        /\ UNCHANGED <<disk, job, post, groups, stored, news, edits, uploads, failures>>
    BY <1>2 DEF ProcessFilePost, NoInbox, server
  <1>4. row \in Rows
    BY <1>1, <1>2, TypesAre
  <1>5. /\ inbox' \in [Devices -> Posts] /\ inbox'[d] = NoPost
        /\ \A e \in Devices \ {d} : inbox'[e] = inbox[e]
    BY <1>1, <1>3, NothingIs DEF TypeOK
  <1>6. /\ info' \in [Devices -> Rows] /\ info'[d] \in {info[d], row}
        /\ \A e \in Devices \ {d} : info'[e] = info[e]
    BY <1>1, <1>3, <1>4 DEF TypeOK
  <1>7. /\ want' \in [Devices -> SUBSET {"upload", "pull"}]
        /\ "upload" \in want'[d] => "upload" \in want[d]
        /\ \A e \in Devices \ {d} : want'[e] = want[e]
    BY <1>1, <1>3 DEF TypeOK
  <1>8. TypeOK'
    BY <1>1, <1>3, <1>5, <1>6, <1>7 DEF TypeOK
  <1>9. RowsSound'
    BY <1>1, <1>2, <1>3, <1>5, <1>6, HeldAre, FreeJob, RowsSame
  <1>10. Ready(d)' /\ Ordered(job'[d])
    BY <1>1, <1>3, <1>7 DEF Ready
  <1> QED BY <1>3, <1>7, <1>8, <1>9, <1>10, InvStep

LEMMA SyncFileInv ==
    ASSUME Inv, NEW d \in Devices, SyncFile(d)
    PROVE  Inv'
  <1>1. TypeOK /\ RowsSound /\ Ready(d) /\ Ordered(job[d])
    BY InvIs
  <1>2. PICK j : j = [NoJob EXCEPT !.step = "fetch", !.fi = info[d]]
    OBVIOUS
  <1>3. /\ want' = [want EXCEPT ![d] = @ \ {"pull"}] /\ job[d] = NoJob
        /\ (Works /\ Goes(d, j)) \/ (Fails /\ job' = job)
        /\ UNCHANGED <<disk, info, inbox, post, groups, stored, news, edits, uploads>>
    BY <1>2 DEF SyncFile, server
  <1>4. j \in Jobs /\ j.step = "fetch" /\ j.fi = info[d] /\ j.got = NoPost
    <2>1. info[d] \in Rows /\ "fetch" \in Steps
      BY <1>1, TypesAre DEF Steps
    <2>2. j = [step |-> "fetch", up |-> 0, fi |-> info[d], got |-> NoPost,
               parents |-> {}, size |-> 0, out |-> <<>>, lost |-> FALSE]
      BY <1>2 DEF NoJob
    <2> QED BY <2>1, <2>2, NothingIs, ChunksAre, TransferAssumption DEF Jobs
  <1>5. /\ job' \in [Devices -> Jobs] /\ job'[d] \in {j, NoJob}
        /\ \A e \in Devices \ {d} : job'[e] = job[e]
    <2>1. CASE Goes(d, j)
      BY <1>1, <1>4, <2>1, JobIs
    <2>2. CASE job' = job
      BY <1>1, <1>3, <2>2 DEF TypeOK
    <2> QED BY <2>1, <2>2, <1>3
  <1>6. /\ want' \in [Devices -> SUBSET {"upload", "pull"}] /\ want'[d] \subseteq want[d]
        /\ \A e \in Devices \ {d} : want'[e] = want[e]
    BY <1>1, <1>3 DEF TypeOK
  <1>7. failures' \in 0 .. MaxFailures
    BY <1>1, <1>3, TransferAssumption DEF TypeOK, Works, Fails
  <1>8. TypeOK'
    BY <1>1, <1>3, <1>5, <1>6, <1>7 DEF TypeOK
  <1>9. RowsSound'
    BY <1>1, <1>3, <1>4, <1>5, HeldAre, FreeJob, RowsSame
  <1>10. Ready(d)' /\ Ordered(job'[d])
    BY <1>1, <1>3, <1>4, <1>5, <1>6, FreeJob DEF Ready, Ordered, Sending
  <1> QED BY <1>3, <1>5, <1>6, <1>8, <1>9, <1>10, InvStep

LEMMA MoveFileInv ==
    ASSUME Inv, NEW d \in Devices, MoveFile(d)
    PROVE  Inv'
  <1>1. TypeOK /\ RowsSound /\ Ready(d) /\ Ordered(job[d])
    BY InvIs
  <1>2. /\ Idle(d) /\ (disk' = [disk EXCEPT ![d] = job[d].out] \/ disk' = disk)
        /\ UNCHANGED <<info, want, inbox, post, groups, stored, news, edits, uploads>>
    BY DEF MoveFile, server
  <1>3. job[d].out \in Seq(Chunks) /\ job[d].out \in Files /\ job[d].out # NoFile
    BY <1>1, TypesAre, JobOf, ChunksAre DEF Files
  <1>4. /\ disk' \in [Devices -> Files] /\ (disk'[d] # NoFile \/ disk' = disk)
        /\ \A e \in Devices \ {d} : disk'[e] = disk[e]
    BY <1>1, <1>2, <1>3 DEF TypeOK
  <1>5. /\ job' \in [Devices -> Jobs] /\ job'[d] = NoJob
        /\ \A e \in Devices \ {d} : job'[e] = job[e]
    BY <1>1, <1>2, FreeJob, JobIs DEF Idle
  <1>6. TypeOK'
    <2>1. failures' \in 0 .. MaxFailures
      BY <1>1, TransferAssumption DEF MoveFile, Works, Fails, TypeOK
    <2> QED BY <1>1, <1>2, <1>4, <1>5, <2>1 DEF TypeOK
  <1>7. RowsSound'
    BY <1>1, <1>2, <1>5, HeldAre, FreeJob, RowsSame
  <1>8. Ready(d)' /\ Ordered(job'[d])
    BY <1>1, <1>2, <1>4, <1>5, FreeJob DEF Ready, Ordered, Sending
  <1> QED BY <1>2, <1>4, <1>5, <1>6, <1>7, <1>8, InvStep

\* What an upload reads is a whole group, or what is left.
LEMMA ReadIs ==
    ASSUME TypeOK, NEW d \in Devices, Ready(d), job[d].step = "group"
    PROVE  /\ ReadChunks(d) \in Seq(Chunks)
           /\ Len(job[d].fi.read) \in Nat /\ Len(ReadChunks(d)) \in Nat
           /\ Len(ReadChunks(d)) <= GroupSize
           /\ Len(job[d].fi.read) + Len(ReadChunks(d)) <= job[d].size
           /\ \/ Len(job[d].fi.read) + Len(ReadChunks(d)) = job[d].size
              \/ Len(ReadChunks(d)) = GroupSize
  <1> DEFINE k == Len(job[d].fi.read)
  <1> DEFINE size == job[d].size
  <1> DEFINE n == IF size - k < GroupSize THEN size - k ELSE GroupSize
  <1> DEFINE r(i) == IF k + i <= Len(disk[d]) THEN disk[d][k + i] ELSE Junk
  <1>1. job[d] \in Jobs /\ disk[d] \in Seq(Chunks)
    BY TypesAre DEF Ready, Sending, Files
  <1>2. k \in Nat /\ size \in Nat /\ k <= size
    <2>1. job[d].fi.read \in Seq(Chunks) /\ size \in Nat
      BY <1>1, JobOf, RowOf
    <2> QED BY <2>1 DEF Ready
  <1>3. n \in Nat /\ n <= GroupSize /\ k + n <= size /\ (k + n = size \/ n = GroupSize)
    <2> HIDE DEF k, size
    <2> QED BY <1>2, TransferAssumption
  <1>4. ReadChunks(d) = [i \in 1 .. n |-> r(i)]
    BY DEF ReadChunks
  <1> HIDE DEF k, size, n
  <1>5. ASSUME NEW i \in 1 .. n PROVE r(i) \in Chunks
    <2>1. CASE k + i <= Len(disk[d])
      <3>1. k + i \in 1 .. Len(disk[d])
        BY <2>1, <1>2, <1>3
      <3> QED BY <3>1, <2>1, <1>1
    <2>2. CASE ~(k + i <= Len(disk[d]))
      BY <2>2, ChunksAre
    <2> QED BY <2>1, <2>2
  <1> HIDE DEF r
  <1>6. ReadChunks(d) \in Seq(Chunks) /\ Len(ReadChunks(d)) = n
    BY <1>3, <1>4, <1>5
  <1>7. /\ k + Len(ReadChunks(d)) <= size /\ Len(ReadChunks(d)) <= GroupSize
        /\ k + Len(ReadChunks(d)) = size \/ Len(ReadChunks(d)) = GroupSize
        /\ Len(ReadChunks(d)) \in Nat
    BY <1>3, <1>6
  <1> QED BY <1>2, <1>6, <1>7 DEF k, size

\* The row an upload has after a group: its chunks are stored if the group's are.
WithGroup(fi, part, up, lossy) ==
  Row(fi.hash, Over(ProcessTransform(part, up), fi.chunks), fi.read \o part, fi.lossy \cup lossy)

LEMMA GroupSound ==
    ASSUME NEW fi \in Rows, NEW part \in Seq(Chunks), Len(part) <= GroupSize,
           NEW up \in 0 .. MaxUploads, NEW S, NEW T, S \subseteq T, Sound(fi, S),
           NEW lossy \in SUBSET Losses,
           lossy = {} => {<<x, up>> : x \in Names(part)} \subseteq T,
           Len(fi.read) = 0 \/ Len(fi.read) >= GroupSize
    PROVE  /\ WithGroup(fi, part, up, lossy) \in Rows
           /\ Sound(WithGroup(fi, part, up, lossy), T)
           /\ WithGroup(fi, part, up, lossy).read = fi.read \o part
  <1> DEFINE row == WithGroup(fi, part, up, lossy)
  <1> DEFINE f == ProcessTransform(part, up)
  <1> DEFINE m == Over(f, fi.chunks)
  <1>1. /\ fi.hash \in Files /\ fi.chunks \in ChunkMaps /\ fi.read \in Seq(Chunks)
        /\ fi.lossy \in SUBSET Losses
    BY RowOf
  <1>2. /\ f \in ChunkMaps /\ DOMAIN f = Names(part)
        /\ \A x \in DOMAIN f : f[x].up = up /\ f[x].pos + 1 \in DOMAIN part
                               /\ part[f[x].pos + 1] = x
    BY TransformIs
  <1>3. row = Row(fi.hash, m, fi.read \o part, fi.lossy \cup lossy)
    BY DEF WithGroup
  <1> HIDE DEF f, row
  <1>4. /\ m \in ChunkMaps /\ DOMAIN m = DOMAIN f \cup DOMAIN fi.chunks
        /\ \A x \in DOMAIN f : m[x] = f[x]
        /\ \A x \in DOMAIN fi.chunks \ DOMAIN f : m[x] = fi.chunks[x]
    BY <1>1, <1>2, OverType
  <1> HIDE DEF m
  <1>5. /\ row \in Rows /\ row.chunks = m /\ row.read = fi.read \o part
        /\ row.lossy = (fi.lossy \cup lossy)
    <2>1. fi.read \o part \in Seq(Chunks) /\ (fi.lossy \cup lossy) \in SUBSET Losses
      BY <1>1
    <2>2. row \in Rows
      BY <1>1, <1>3, <1>4, <2>1, RowType
    <2> QED BY <1>3, <2>2 DEF Row
  <1>6. Names(row.read) = Names(fi.read) \cup Names(part)
    <2>1. /\ DOMAIN fi.read = 1 .. Len(fi.read) /\ DOMAIN part = 1 .. Len(part)
          /\ Len(fi.read) \in Nat /\ Len(part) \in Nat
      BY <1>1
    <2>2. DOMAIN row.read = 1 .. Len(fi.read) + Len(part)
      BY <1>1, <1>5
    <2>3. \A i \in 1 .. Len(fi.read) : i \in DOMAIN row.read /\ row.read[i] = fi.read[i]
      BY <1>1, <1>5, <2>1
    <2>4. \A i \in 1 .. Len(part) : /\ Len(fi.read) + i \in DOMAIN row.read
                                    /\ row.read[Len(fi.read) + i] = part[i]
      BY <1>1, <1>5, <2>1
    <2>5. ASSUME NEW i \in DOMAIN row.read
          PROVE  row.read[i] \in Names(fi.read) \cup Names(part)
      <3>1. CASE i <= Len(fi.read)
        <4>1. i \in 1 .. Len(fi.read)
          BY <3>1, <2>1, <2>2
        <4> QED BY <4>1, <2>1, <2>3 DEF Names
      <3>2. CASE ~(i <= Len(fi.read))
        <4>1. PICK p \in 1 .. Len(part) : i = Len(fi.read) + p
          <5>1. i - Len(fi.read) \in 1 .. Len(part) /\ i = Len(fi.read) + (i - Len(fi.read))
            BY <3>2, <2>1, <2>2
          <5> QED BY <5>1
        <4> QED BY <4>1, <2>1, <2>4 DEF Names
      <3> QED BY <3>1, <3>2
    <2>6. Names(row.read) \subseteq Names(fi.read) \cup Names(part)
      BY <2>5 DEF Names
    <2>7. Names(fi.read) \subseteq Names(row.read)
      BY <2>1, <2>3 DEF Names
    <2>8. Names(part) \subseteq Names(row.read)
      BY <2>1, <2>4 DEF Names
    <2> QED BY <2>6, <2>7, <2>8
  <1>7. Backed(row, T)
    <2> SUFFICES ASSUME row.lossy = {}, NEW x \in Names(row.read) \cap DOMAIN row.chunks
                 PROVE  <<x, row.chunks[x].up>> \in T
      BY DEF Backed, Attachments
    <2>1. fi.lossy = {} /\ lossy = {}
      BY <1>5
    <2>2. CASE x \in Names(part)
      <3>1. row.chunks[x].up = up
        BY <2>2, <1>2, <1>4, <1>5
      <3> QED BY <3>1, <2>1, <2>2
    <2>3. CASE x \notin Names(part)
      <3>1. x \in Names(fi.read) \cap DOMAIN fi.chunks /\ row.chunks[x] = fi.chunks[x]
        BY <2>3, <1>2, <1>4, <1>5, <1>6
      <3>2. Attachments(fi) \subseteq S
        BY <2>1 DEF Sound, Backed
      <3> QED BY <3>1, <3>2 DEF Attachments
    <2> QED BY <2>2, <2>3
  <1>8. Placed(row)
    <2> SUFFICES ASSUME DOMAIN row.chunks = Names(row.read), Len(row.read) <= GroupSize
                 PROVE  \A x \in DOMAIN row.chunks :
                          /\ row.chunks[x].pos + 1 \in DOMAIN row.read
                          /\ row.read[row.chunks[x].pos + 1] = x
      BY DEF Placed
    <2>1. Len(fi.read) \in Nat /\ Len(part) \in Nat
          /\ Len(row.read) = Len(fi.read) + Len(part)
      BY <1>1, <1>5
    <2>2. CASE Len(fi.read) = 0
      <3>1. fi.read = <<>> /\ Names(fi.read) = {}
        BY <1>1, <2>2 DEF Names
      <3>2. row.read = part
        BY <3>1, <1>5
      <3>3. DOMAIN row.chunks = DOMAIN f
        BY <3>1, <1>2, <1>6
      <3>4. ASSUME NEW x \in DOMAIN row.chunks
            PROVE  row.chunks[x].pos + 1 \in DOMAIN part /\ part[row.chunks[x].pos + 1] = x
        <4>1. x \in DOMAIN f /\ row.chunks[x] = f[x]
          BY <3>3, <1>4, <1>5
        <4> QED BY <4>1, <1>2
      <3> QED BY <3>2, <3>4
    <2>3. CASE Len(fi.read) >= GroupSize
      <3>1. Len(part) = 0 /\ Len(fi.read) <= GroupSize
        BY <2>1, <2>3, TransferAssumption
      <3>2. part = <<>> /\ Names(part) = {}
        BY <3>1 DEF Names
      <3>3. row.read = fi.read
        BY <3>2, <1>1, <1>5
      <3>4. DOMAIN f = {} /\ DOMAIN row.chunks = DOMAIN fi.chunks
            /\ \A x \in DOMAIN fi.chunks : row.chunks[x] = fi.chunks[x]
        BY <3>2, <1>2, <1>4, <1>5
      <3>5. Placed(fi)
        BY DEF Sound
      <3>6. DOMAIN fi.chunks = Names(fi.read)
        BY <3>3, <3>4
      <3>7. \A x \in DOMAIN fi.chunks :
              fi.chunks[x].pos + 1 \in DOMAIN fi.read /\ fi.read[fi.chunks[x].pos + 1] = x
        BY <3>1, <3>5, <3>6 DEF Placed
      <3> QED BY <3>3, <3>4, <3>7
    <2> QED BY <2>2, <2>3
  <1> QED BY <1>5, <1>7, <1>8 DEF Sound, row

\* The chunk posts after a group was sent.
LEMMA PushGroupType ==
    ASSUME groups \in Seq(GroupRows), NEW d \in Devices, NEW g \in Nat, NEW chunks \in ChunkMaps,
           PushGroup(d, g, chunks)
    PROVE  groups' \in Seq(GroupRows)
  <1> DEFINE new == [group |-> g, chunks |-> chunks]
  <1> DEFINE old == {i \in job[d].parents : groups[i].group = g}
  <1>1. new \in GroupRows
    BY DEF GroupRows
  <1>2. groups' = IF old = {} THEN Append(groups, new)
                  ELSE [i \in DOMAIN groups |-> IF i \in old THEN new ELSE groups[i]]
    BY DEF PushGroup
  <1> HIDE DEF new, old
  <1>3. CASE old = {}
    BY <1>1, <1>2, <1>3
  <1>4. CASE old # {}
    <2>1. DOMAIN groups = 1 .. Len(groups) /\ Len(groups) \in Nat
          /\ \A i \in 1 .. Len(groups) : groups[i] \in GroupRows
      OBVIOUS
    <2>2. groups' = [i \in 1 .. Len(groups) |-> IF i \in old THEN new ELSE groups[i]]
      BY <1>2, <1>4, <2>1
    <2>3. \A i \in 1 .. Len(groups) : (IF i \in old THEN new ELSE groups[i]) \in GroupRows
      BY <1>1, <2>1
    <2> QED BY <2>1, <2>2, <2>3
  <1> QED BY <1>3, <1>4

LEMMA UploadGroupInv ==
    ASSUME Inv, NEW d \in Devices, UploadGroup(d)
    PROVE  Inv'
  <1> DEFINE part == ReadChunks(d)
  <1> DEFINE up == job[d].up
  <1> DEFINE chunks == ProcessTransform(part, up)
  <1> DEFINE read == job[d].fi.read \o part
  <1> DEFINE g == Len(job[d].fi.read) \div GroupSize
  <1> DEFINE sent == {<<x, up>> : x \in Names(part)}
  <1> DEFINE row(lossy) ==
        Row(job[d].fi.hash, Over(chunks, job[d].fi.chunks), read, job[d].fi.lossy \cup lossy)
  <1> DEFINE next(lossy) ==
        [job[d] EXCEPT !.step = IF Len(read) = job[d].size THEN "roll" ELSE "group",
                       !.fi = Row(@.hash, Over(chunks, @.chunks), read, @.lossy \cup lossy)]
  <1>1. TypeOK /\ RowsSound /\ Ready(d) /\ Ordered(job[d])
    BY InvIs
  <1>2. /\ job[d].step = "group"
        /\ UNCHANGED <<disk, info, want, inbox, post, news, edits, uploads>>
    BY DEF UploadGroup
  <1>3. \/ /\ PushGroup(d, g, chunks) /\ (Works \/ Fails)
           /\ \E kept \in SUBSET Names(part), foreign \in {{}, {<<x, up>> : x \in {0}}} :
                /\ stored' = stored \cup {<<x, up>> : x \in kept}
                /\ IF {<<x, up>> : x \in kept} \cup foreign \subseteq {<<x, up>> : x \in Names(read)}
                   THEN Goes(d, next(IF kept # Names(part) /\ foreign = {} THEN {"short"} ELSE {}))
                   ELSE Idle(d)
        \/ Fails /\ Goes(d, next({"refused"})) /\ UNCHANGED <<groups, stored>>
        \/ Fails /\ Goes(d, next({"refused"})) /\ PushGroup(d, g, chunks) /\ stored' = stored \cup sent
    BY DEF UploadGroup, VerifyChunks
  <1>4. /\ job[d] \in Jobs /\ job[d].fi \in Rows /\ up \in 0 .. MaxUploads
        /\ groups \in Seq(GroupRows)
    BY <1>1, TypesAre, JobOf
  <1>5. /\ part \in Seq(Chunks) /\ Len(part) \in Nat /\ Len(part) <= GroupSize
        /\ Len(job[d].fi.read) \in Nat
        /\ Len(job[d].fi.read) + Len(part) <= job[d].size
        /\ Len(job[d].fi.read) + Len(part) = job[d].size \/ Len(part) = GroupSize
    BY <1>1, <1>2, ReadIs
  <1>6. chunks \in ChunkMaps
    BY <1>4, <1>5, TransformIs
  <1>7. g \in Nat
    <2>1. \A a \in Nat : \A b \in Nat \ {0} : a \div b \in Nat
      OBVIOUS
    <2> QED BY <2>1, <1>5, TransferAssumption
  <1>8. sent \subseteq Chunks \X (0 .. MaxUploads)
    BY <1>4, <1>5, NamesOf
  <1>9. Len(job[d].fi.read) = 0 \/ Len(job[d].fi.read) >= GroupSize
    BY <1>1, <1>2 DEF Ready
  <1>10. Sound(job[d].fi, stored)
    BY <1>1, HeldAre DEF RowsSound
  <1>11. read \in Seq(Chunks) /\ Len(read) = Len(job[d].fi.read) + Len(part)
    BY <1>4, <1>5, RowOf
  <1>12. \A lossy \in SUBSET Losses :
           /\ next(lossy).fi = row(lossy) /\ next(lossy).got = job[d].got
           /\ next(lossy).size = job[d].size
           /\ next(lossy).step \in {"roll", "group"}
           /\ next(lossy).step = "group" => Len(read) # job[d].size
    BY <1>4 DEF Jobs
  <1>13. \A lossy \in SUBSET Losses : row(lossy) \in Rows => next(lossy) \in Jobs
    BY <1>4 DEF Jobs, Steps
  <1> HIDE DEF next
  <1>14. ASSUME NEW lossy \in SUBSET Losses, Goes(d, next(lossy)), stored \subseteq stored',
                lossy = {} => sent \subseteq stored', stored' \subseteq stored \cup sent,
                groups' \in Seq(GroupRows), failures' \in 0 .. MaxFailures
         PROVE  Inv'
    <2>1. PICK r : r = row(lossy)
      OBVIOUS
    <2>2. r \in Rows /\ Sound(r, stored') /\ r.read = read
      <3> DEFINE fi == job[d].fi
      <3>1. r = WithGroup(fi, part, up, lossy)
        BY <2>1 DEF WithGroup
      <3>2. lossy = {} => {<<x, up>> : x \in Names(part)} \subseteq stored'
        BY <1>14
      <3>3. fi \in Rows /\ Sound(fi, stored) /\ (Len(fi.read) = 0 \/ Len(fi.read) >= GroupSize)
        BY <1>4, <1>9, <1>10
      <3>4. read = fi.read \o part
        OBVIOUS
      <3> HIDE DEF fi, part, up, row, read
      <3> QED BY <3>1, <3>2, <3>3, <3>4, <1>4, <1>5, <1>14, GroupSound
    <2>3. next(lossy) \in Jobs
      BY <2>1, <2>2, <1>13
    <2>4. /\ job' \in [Devices -> Jobs] /\ job'[d] = next(lossy)
          /\ \A e \in Devices \ {d} : job'[e] = job[e]
      BY <1>1, <1>14, <2>3, JobIs
    <2>5. next(lossy).fi = r /\ next(lossy).got = job[d].got
          /\ next(lossy).size = job[d].size /\ next(lossy).step \in {"roll", "group"}
          /\ (next(lossy).step = "group" => Len(read) # job[d].size)
      BY <2>1, <1>12
    <2>6. TypeOK'
      <3>1. stored' \subseteq Chunks \X (0 .. MaxUploads)
        BY <1>1, <1>8, <1>14 DEF TypeOK
      <3> QED BY <1>1, <1>2, <1>14, <2>4, <3>1 DEF TypeOK, GroupRows
    <2>7. RowsSound'
      <3>1. \A q \in {r} : Sound(q, stored')
        BY <2>2
      <3>2. /\ post'.row \in RowsHeld \cup {r}
            /\ \A e \in Devices : /\ info'[e] \in RowsHeld \cup {r}
                                  /\ inbox'[e].row \in RowsHeld \cup {r}
                                  /\ job'[e].fi \in RowsHeld \cup {r}
                                  /\ job'[e].got.row \in RowsHeld \cup {r}
        BY <1>2, <2>4, <2>5, HeldAre
      <3> QED BY <1>1, <1>14, <3>1, <3>2, RowsKept
    <2>8. Ready(d)'
      <3>1. disk'[d] # NoFile
        BY <1>1, <1>2 DEF Ready, Sending
      <3>2. ASSUME next(lossy).step = "group"
            PROVE  Len(r.read) <= job[d].size /\ Len(r.read) >= GroupSize
        BY <2>2, <2>5, <3>2, <1>5, <1>11, TransferAssumption
      <3> QED BY <2>4, <2>5, <3>1, <3>2 DEF Ready
    <2>9. Ordered(job'[d])
      BY <2>4, <2>5 DEF Ordered
    <2> QED BY <1>2, <2>4, <2>6, <2>7, <2>8, <2>9, InvStep
  <1>15. PushGroup(d, g, chunks) => groups' \in Seq(GroupRows)
    <2> HIDE DEF g, chunks
    <2> QED BY <1>4, <1>6, <1>7, PushGroupType
  <1>16. Works \/ Fails => failures' \in 0 .. MaxFailures
    BY <1>1, TransferAssumption DEF TypeOK, Works, Fails
  <1>17. \A kept \in SUBSET Names(part) : {<<x, up>> : x \in kept} \subseteq sent
    OBVIOUS
  <1>18. <<0, up>> \notin {<<x, up>> : x \in Names(read)}
    <2>1. 0 \notin Names(read)
      BY <1>11, NamesOf, ChunksAre, NoZero
    <2> QED BY <2>1
  <1> HIDE DEF sent, chunks, g
  <1>19. ASSUME NEW kept \in SUBSET Names(part), NEW foreign \in {{}, {<<x, up>> : x \in {0}}},
                stored' = stored \cup {<<x, up>> : x \in kept},
                PushGroup(d, g, chunks), Works \/ Fails,
                IF {<<x, up>> : x \in kept} \cup foreign \subseteq {<<x, up>> : x \in Names(read)}
                THEN Goes(d, next(IF kept # Names(part) /\ foreign = {} THEN {"short"} ELSE {}))
                ELSE Idle(d)
         PROVE  Inv'
    <2>1. stored \subseteq stored' /\ stored' \subseteq stored \cup sent
      BY <1>17, <1>19
    <2>2. CASE Idle(d)
      <3>1. /\ job' \in [Devices -> Jobs] /\ job'[d] = NoJob
            /\ \A e \in Devices \ {d} : job'[e] = job[e]
        BY <1>1, <2>2, FreeJob, JobIs DEF Idle
      <3>2. stored' \subseteq Chunks \X (0 .. MaxUploads)
        BY <1>1, <1>8, <2>1 DEF TypeOK
      <3>3. TypeOK'
        BY <1>1, <1>2, <1>15, <1>16, <1>19, <3>1, <3>2 DEF TypeOK, GroupRows
      <3>4. RowsSound'
        BY <1>1, <1>2, <2>1, <3>1, HeldAre, FreeJob, RowsSame
      <3>5. Ready(d)' /\ Ordered(job'[d])
        BY <1>1, <1>2, <3>1, FreeJob DEF Ready, Ordered, Sending
      <3> QED BY <1>2, <3>1, <3>3, <3>4, <3>5, InvStep
    <2>3. CASE Goes(d, next({"short"}))
      <3>1. {"short"} \in SUBSET Losses /\ {"short"} # {}
        BY DEF Losses
      <3> QED BY <1>14, <1>15, <1>16, <1>19, <2>1, <2>3, <3>1
    <2>4. CASE Goes(d, next({})) /\ kept = Names(part)
      <3>1. sent \subseteq stored'
        BY <1>19, <2>4 DEF sent
      <3>2. {} \in SUBSET Losses
        OBVIOUS
      <3> QED BY <1>14, <1>15, <1>16, <1>19, <2>1, <2>4, <3>1, <3>2
    <2>5. foreign # {} => <<0, up>> \in foreign
      OBVIOUS
    <2>6. foreign # {} => Idle(d)
      <3> HIDE DEF read, up
      <3> QED BY <1>18, <1>19, <2>5
    <2> QED BY <1>19, <2>2, <2>3, <2>4, <2>6
  <1>20. {"refused"} \in SUBSET Losses /\ {"refused"} # {}
    BY DEF Losses
  <1>21. CASE Fails /\ Goes(d, next({"refused"})) /\ UNCHANGED <<groups, stored>>
    BY <1>4, <1>14, <1>16, <1>20, <1>21
  <1>22. CASE /\ Fails /\ Goes(d, next({"refused"})) /\ PushGroup(d, g, chunks)
              /\ stored' = stored \cup sent
    BY <1>14, <1>15, <1>16, <1>20, <1>22
  <1> HIDE DEF up, part, read
  <1> QED BY <1>3, <1>19, <1>21, <1>22

\* If the chunk map of a row is exact and leaves no gap, the list of chunks is
\* what was read: no more chunks were read than there are positions, so each
\* has its position in what was read.
LEMMA ListIsRead ==
    ASSUME NEW row \in Rows, Exact(row), Placed(row), NEW list, list = ChunkList(row.chunks),
           NEW n, n = Cardinality(DOMAIN list), \A p \in 0 .. n - 1 : p \in DOMAIN list
    PROVE  [i \in 1 .. n |-> list[i - 1]] = row.read
  <1> DEFINE m == row.chunks
  <1> DEFINE pos == [x \in DOMAIN m |-> m[x].pos]
  <1>1. m \in ChunkMaps /\ row.read \in Seq(Chunks)
    BY RowOf
  <1>2. /\ DOMAIN m = Names(row.read) /\ Len(row.read) = Cardinality(Names(row.read))
        /\ \A x, y \in DOMAIN m : m[x].pos = m[y].pos => x = y
    BY DEF Exact
  <1>3. /\ DOMAIN list = {m[x].pos : x \in DOMAIN m} /\ DOMAIN list \subseteq 0 .. GroupSize - 1
        /\ IsFiniteSet(DOMAIN list) /\ n \in Nat
        /\ \A p \in DOMAIN list : list[p] \in DOMAIN m /\ m[list[p]].pos = p
    BY <1>1, ListIs
  <1>4. IsFiniteSet(DOMAIN m)
    BY <1>1, MapOf
  <1> HIDE DEF m
  <1>5. pos \in Surjection(DOMAIN m, DOMAIN list)
    BY <1>3 DEF Surjection
  <1>6. pos \in Injection(DOMAIN m, DOMAIN list)
    <2>1. \A x, y \in DOMAIN m : pos[x] = pos[y] => x = y
      BY <1>2
    <2> QED BY <2>1, <1>5 DEF Injection, IsInjective, Surjection
  <1> HIDE DEF pos
  <1>7. Cardinality(DOMAIN m) = n
    BY <1>4, <1>5, <1>6, FS_Surjection
  <1>8. Len(row.read) = n
    BY <1>2, <1>7
  <1>9. n <= GroupSize
    <2>1. IsFiniteSet(0 .. GroupSize - 1) /\ Cardinality(0 .. GroupSize - 1) = GroupSize
      BY TransferAssumption, FS_Interval
    <2>2. Cardinality(DOMAIN list) <= Cardinality(0 .. GroupSize - 1)
      BY <1>3, <2>1, FS_Subset
    <2> QED BY <2>1, <2>2
  <1>10. \A x \in DOMAIN m : m[x].pos + 1 \in DOMAIN row.read /\ row.read[m[x].pos + 1] = x
    BY <1>2, <1>8, <1>9 DEF Placed, m
  <1>11. ASSUME NEW i \in 1 .. n PROVE list[i - 1] = row.read[i]
    <2>1. i - 1 \in DOMAIN list /\ (i - 1) + 1 = i
      BY <1>3
    <2>2. list[i - 1] \in DOMAIN m /\ m[list[i - 1]].pos = i - 1
      BY <2>1, <1>3
    <2>3. row.read[m[list[i - 1]].pos + 1] = list[i - 1]
      BY <2>2, <1>10
    <2> QED BY <2>1, <2>2, <2>3
  <1>12. row.read = [i \in 1 .. n |-> row.read[i]]
    BY <1>1, <1>8
  <1> QED BY <1>11, <1>12

LEMMA ConstructFileInv ==
    ASSUME Inv, NEW d \in Devices, ConstructFile(d)
    PROVE  Inv'
  <1> DEFINE fi == job[d].fi
  <1> DEFINE list == ChunkList(fi.chunks)
  <1> DEFINE n == Cardinality(DOMAIN list)
  <1> DEFINE gaps == {p \in 0 .. n - 1 : p \notin DOMAIN list}
  <1> DEFINE seq == [i \in 1 .. n |-> list[i - 1]]
  <1> DEFINE absent == {i \in 1 .. n : <<list[i - 1], fi.chunks[list[i - 1]].up>> \notin stored}
  <1> DEFINE next(drop) ==
        [job[d] EXCEPT !.step = "move", !.out = Without(seq, drop), !.lost = drop # {}]
  <1>1. TypeOK /\ RowsSound /\ Ready(d) /\ Ordered(job[d])
    BY InvIs
  <1>2. UNCHANGED <<info, want, inbox, post, groups, stored, news, edits, uploads>>
    BY DEF ConstructFile, server
  <1>3. job[d] \in Jobs /\ fi \in Rows /\ fi.chunks \in ChunkMaps
    BY <1>1, TypesAre, JobOf, RowOf
  <1>4. ASSUME disk' \in [Devices -> Files], disk'[d] # NoFile \/ disk' = disk,
               \A e \in Devices \ {d} : disk'[e] = disk[e],
               Idle(d), failures' \in 0 .. MaxFailures
        PROVE  Inv'
    <2>1. /\ job' \in [Devices -> Jobs] /\ job'[d] = NoJob
          /\ \A e \in Devices \ {d} : job'[e] = job[e]
      BY <1>1, <1>4, FreeJob, JobIs DEF Idle
    <2>2. TypeOK'
      BY <1>1, <1>2, <1>4, <2>1 DEF TypeOK
    <2>3. RowsSound'
      BY <1>1, <1>2, <2>1, HeldAre, FreeJob, RowsSame
    <2>4. Ready(d)' /\ Ordered(job'[d])
      BY <1>1, <1>2, <1>4, <2>1, FreeJob DEF Ready, Ordered, Sending
    <2> QED BY <1>2, <1>4, <2>1, <2>2, <2>3, <2>4, InvStep
  <1>5. CASE /\ disk' = [disk EXCEPT ![d] = <<>>] /\ Idle(d) /\ Works
    <2>1. <<>> \in Files /\ <<>> # NoFile
      BY ChunksAre DEF Files
    <2>2. /\ disk' \in [Devices -> Files] /\ disk'[d] # NoFile
          /\ \A e \in Devices \ {d} : disk'[e] = disk[e]
      BY <1>1, <1>5, <2>1 DEF TypeOK
    <2>3. failures' \in 0 .. MaxFailures
      BY <1>1, <1>5 DEF TypeOK, Works
    <2> QED BY <1>4, <1>5, <2>2, <2>3
  <1>6. CASE Works /\ Idle(d) /\ UNCHANGED disk
    <2>1. failures' \in 0 .. MaxFailures /\ disk' \in [Devices -> Files]
      BY <1>1, <1>6 DEF TypeOK, Works
    <2> QED BY <1>4, <1>6, <2>1
  <1>7. ASSUME gaps = {}, n > 0, disk' = disk,
               NEW bad \in SUBSET (1 .. n \ absent), NEW last \in BOOLEAN,
               failures + Cardinality(bad) <= MaxFailures,
               failures' = failures + Cardinality(bad),
               Goes(d, next(bad \cup absent)) \/ Idle(d)
        PROVE  Inv'
    <2> DEFINE drop == bad \cup absent
    <2>1. /\ n \in Nat /\ DOMAIN fi.chunks \subseteq Chunks
          /\ \A p \in DOMAIN list : list[p] \in DOMAIN fi.chunks
      BY <1>3, ListIs, MapOf
    <2>2. failures' \in 0 .. MaxFailures
      <3>1. bad \in SUBSET (1 .. n)
        OBVIOUS
      <3>2. Cardinality(bad) \in Nat
        <4> HIDE DEF n
        <4>1. IsFiniteSet(1 .. n)
          BY <2>1, FS_Interval
        <4>2. IsFiniteSet(bad)
          BY <3>1, <4>1, FS_Subset
        <4> QED BY <4>2, FS_CardinalityType
      <3> QED BY <1>1, <1>7, <3>2, TransferAssumption DEF TypeOK
    <2>3. CASE Idle(d)
      <3>1. disk' \in [Devices -> Files]
        BY <1>1, <1>7 DEF TypeOK
      <3> QED BY <1>4, <1>7, <2>2, <2>3, <3>1
    <2>4. CASE Goes(d, next(drop))
      <3>1. \A p \in 0 .. n - 1 : p \in DOMAIN list
        BY <1>7
      <3>2. \A i \in 1 .. n : list[i - 1] \in Chunks
        <4> HIDE DEF n, list
        <4>1. \A i \in 1 .. n : i - 1 \in 0 .. n - 1
          BY <2>1
        <4> QED BY <4>1, <2>1, <3>1
      <3>3. seq \in Seq(Chunks)
        <4> HIDE DEF n, list
        <4> QED BY <2>1, <3>2
      <3>4. Without(seq, drop) \in Seq(Chunks) /\ Without(seq, {}) = seq
        <4> HIDE DEF seq, drop
        <4> QED BY <3>3, WithoutType, WithoutNothing
      <3> HIDE DEF drop
      <3>5. /\ next(drop) \in Jobs /\ next(drop).step = "move" /\ next(drop).fi = fi
            /\ next(drop).got = job[d].got /\ next(drop).out = Without(seq, drop)
            /\ next(drop).lost = (drop # {})
        <4> HIDE DEF seq
        <4> QED BY <1>3, <3>4 DEF Jobs, Steps
      <3>6. Ordered(next(drop))
        <4> SUFFICES ASSUME Exact(fi), drop = {} PROVE next(drop).out = fi.read
          BY <3>5 DEF Ordered
        <4>1. Placed(fi)
          BY <1>1, HeldAre DEF RowsSound, Sound
        <4>2. seq = fi.read
          <5> HIDE DEF fi, list, n
          <5>1. list = ChunkList(fi.chunks) /\ n = Cardinality(DOMAIN list)
            BY DEF list, n
          <5> QED BY <1>3, <3>1, <4>1, <5>1, ListIsRead
        <4> HIDE DEF seq, next
        <4> QED BY <3>4, <3>5, <4>2
      <3> HIDE DEF next, seq
      <3>7. /\ job' \in [Devices -> Jobs] /\ job'[d] = next(drop)
            /\ \A e \in Devices \ {d} : job'[e] = job[e]
        BY <1>1, <2>4, <3>5, JobIs
      <3>8. TypeOK'
        BY <1>1, <1>2, <1>7, <2>2, <3>7 DEF TypeOK
      <3>9. RowsSound'
        BY <1>1, <1>2, <3>5, <3>7, HeldAre, RowsSame
      <3>10. Ready(d)'
        BY <1>1, <1>2, <1>7, <3>5, <3>7 DEF Ready, Sending
      <3>11. Ordered(job'[d])
        BY <3>6, <3>7
      <3> QED BY <1>2, <1>7, <3>7, <3>8, <3>9, <3>10, <3>11, InvStep
    <2> QED BY <1>7, <2>3, <2>4
  <1>8. \/ disk' = [disk EXCEPT ![d] = <<>>] /\ Idle(d) /\ Works
        \/ Works /\ Idle(d) /\ UNCHANGED disk
        \/ /\ gaps = {} /\ n > 0 /\ disk' = disk
           /\ \E bad \in SUBSET (1 .. n \ absent), last \in BOOLEAN :
                /\ failures + Cardinality(bad) <= MaxFailures
                /\ failures' = failures + Cardinality(bad)
                /\ Goes(d, next(bad \cup absent)) \/ Idle(d)
    BY DEF ConstructFile
  <1> HIDE DEF next, gaps, absent, n
  <1> QED BY <1>5, <1>6, <1>7, <1>8

LEMMA UnchangedInv ==
    ASSUME Inv, UNCHANGED vars
    PROVE  Inv'
  <1>1. UNCHANGED <<disk, info, want, job, inbox, post, groups, stored, news, edits, uploads, failures>>
    BY DEF vars, device, server
  <1>2. TypeOK /\ RowsSound /\ \A d \in Devices : Ready(d) /\ Ordered(job[d])
    BY InvIs
  <1>3. TypeOK'
    BY <1>1, <1>2 DEF TypeOK
  <1>4. RowsSound'
    BY <1>1, <1>2 DEF RowsSound, RowsHeld
  <1>5. (\A d \in Devices : Ready(d))'
    BY <1>1, <1>2 DEF Ready
  <1>6. (\A d \in Devices : Ordered(job[d]))'
    BY <1>1, <1>2
  <1> QED BY <1>3, <1>4, <1>5, <1>6 DEF Inv

LEMMA NextInv ==
    ASSUME Inv, [Next]_vars
    PROVE  Inv'
  <1>1. CASE UNCHANGED vars
    BY <1>1, UnchangedInv
  <1>2. CASE Next
    <2>1. PICK d \in Devices :
            \/ Edit(d) \/ PushFile(d) \/ Upload(d) \/ Download(d) \/ Watch(d) \/ Crash(d)
            \/ FileInUse(d, "upload") \/ FileInUse(d, "pull")
      BY <1>2 DEF Next
    <2>2. CASE Edit(d)
      BY <2>2, EditInv
    <2>3. CASE PushFile(d)
      BY <2>3, PushFileInv
    <2>4. CASE Upload(d)
      <3>1. CASE BeginUpload(d)
        BY <3>1, BeginUploadInv
      <3>2. CASE BeginTransit(d) \/ UpdateFilePost(d) \/ EndTransit(d)
        BY <3>2, UpdatesInv
      <3>3. CASE RetrieveChunkPosts(d)
        BY <3>3, RetrieveChunkPostsInv
      <3>4. CASE UploadGroup(d)
        BY <3>4, UploadGroupInv
      <3>5. CASE UpdateFileInfo(d)
        BY <3>5, UpdateFileInfoInv
      <3> QED BY <2>4, <3>1, <3>2, <3>3, <3>4, <3>5 DEF Upload
    <2>5. CASE Download(d)
      BY <2>5, SyncFileInv, ConstructFileInv, MoveFileInv DEF Download
    <2>6. CASE Watch(d)
      BY <2>6, PollFilePostsInv, ProcessFilePostInv DEF Watch
    <2>7. CASE Crash(d)
      BY <2>7, CrashInv
    <2>8. CASE FileInUse(d, "upload") \/ FileInUse(d, "pull")
      BY <2>8, FileInUseInv
    <2> QED BY <2>1, <2>2, <2>3, <2>4, <2>5, <2>6, <2>7, <2>8
  <1> QED BY <1>1, <1>2

LEMMA InvHolds == Spec => []Inv
  BY InitInv, NextInv, PTL DEF Spec

\* Types: every variable keeps its kind of value; a position in a chunk map is one
\* within a group, an upload reads what the file holds.
THEOREM TypeCorrect == Spec => []TypeOK
  <1>1. Inv => TypeOK
    BY DEF Inv
  <1> QED BY <1>1, InvHolds, PTL

\* PostFileStrategy::Execute, VerifyChunks, UpdateFilePost: whatever uploads run at
\* once, whatever answer is rejected and wherever a process ends, a file post out of
\* transit names only chunks the server stores, unless the server refused a group
\* or kept a part of one and listed no more, which VerifyChunks does not notice.
THEOREM FetchableHolds == Spec => []Fetchable
  <1>1. Inv => Fetchable
    <2> SUFFICES ASSUME Inv PROVE Fetchable
      OBVIOUS
    <2>1. Sound(post.row, stored)
      BY InvIs, HeldAre DEF RowsSound
    <2> QED BY <2>1 DEF Sound, Backed, Fetchable
  <1> QED BY <1>1, InvHolds, PTL

\* GetFileStrategy::ConstructFile: a download that loses no chunk of a row whose
\* chunk map is exact puts the chunks into the order the uploader read them in.
THEOREM ReassemblesHolds == Spec => []Reassembles
  <1>1. Inv => Reassembles
    BY DEF Inv, Ordered, Reassembles
  <1> QED BY <1>1, InvHolds, PTL

-----------------------------------------------------------------------------
(***************************************************************************)
(* Convergence                                                             *)
(***************************************************************************)
\* Nothing is under way before there is a file post; an upload that has read the
\* file post read one that exists, and puts a row that exists.
Nothing ==
  /\ news = {}
  /\ \A d \in Devices : /\ info[d] = NoRow /\ inbox[d] = NoPost /\ want[d] = {}
                        /\ job[d] = NoJob

Gets(j) ==
  /\ j.step \in {"on_put", "file_put", "off_put"} => Exists(j.got.row)
  /\ j.step \in {"file_get", "file_put"} => Exists(j.fi)

\* While nothing failed: of a device whose next query does not find the post, what
\* was polled is the post, and, if nothing is polled, the row of the manifest is
\* that of the post, unless an upload wrote it and has yet to update the post.
Behind(d) == job[d].step \in {"file_get", "file_put"}

Follows(d) ==
  d \notin news =>
    /\ inbox[d] # NoPost => inbox[d].row = post.row
    /\ inbox[d] = NoPost /\ ~Behind(d) => info[d].hash = post.row.hash

Agree ==
  /\ Exists(post.row) \/ Nothing
  /\ \A d \in Devices : Gets(job[d])
  /\ failures = 0 => \A d \in Devices : Follows(d)

LEMMA InitAgree == Init => Agree
  <1> SUFFICES ASSUME Init PROVE Agree
    OBVIOUS
  <1>1. /\ job = [d \in Devices |-> NoJob] /\ want = [d \in Devices |-> {}]
        /\ inbox = [d \in Devices |-> NoPost] /\ news = {}
    BY DEF Init, NoInbox
  <1>2. \A d \in Devices : Gets(job[d])
    BY <1>1, FreeJob DEF Gets
  <1>3. CASE New
    <2>1. info = [d \in Devices |-> NoRow] /\ post = NoPost
      BY <1>3 DEF New
    <2>2. Nothing
      BY <1>1, <2>1 DEF Nothing
    <2>3. \A d \in Devices : Follows(d)
      BY <1>1, <2>1, FreeJob DEF Follows
    <2> QED BY <1>2, <2>2, <2>3 DEF Agree
  <1>4. CASE Known
    <2>1. PICK row : /\ row.hash \in Contents /\ info = [d \in Devices |-> row]
                     /\ post = [row |-> row, transit |-> FALSE]
      <3> DEFINE chunks(c) ==
            [x \in Names(c) |-> [pos |-> Max0({i \in DOMAIN c : c[i] = x}) - 1, up |-> 0]]
      <3>1. PICK c \in Contents :
              /\ info = [d \in Devices |-> Row(c, chunks(c), c, {})]
              /\ post = [row |-> Row(c, chunks(c), c, {}), transit |-> FALSE]
        BY <1>4 DEF Known
      <3>2. Row(c, chunks(c), c, {}).hash = c
        BY DEF Row
      <3> QED BY <3>1, <3>2
    <2>2. row.hash # NoFile
      BY <2>1, ChunksAre
    <2>3. Exists(post.row)
      BY <2>1, <2>2 DEF Exists
    <2>4. \A d \in Devices : Follows(d)
      BY <1>1, <2>1 DEF Follows
    <2> QED BY <1>2, <2>3, <2>4 DEF Agree
  <1> QED BY <1>3, <1>4 DEF Init

\* A step of a device keeps Agree if the device has what it must and the file post
\* is as it was or is news to all.
LEMMA AgreeStep ==
    ASSUME Agree, NEW d \in Devices, Exists(post'.row) \/ Nothing', Gets(job'[d]),
           failures \in Nat, failures' \in Nat,
           failures' = 0 => failures = 0 /\ Follows(d)',
           (post' = post /\ news \subseteq news' \cup {d}) \/ news' = Devices,
           \A e \in Devices \ {d} :
             job'[e] = job[e] /\ info'[e] = info[e] /\ inbox'[e] = inbox[e]
    PROVE  Agree'
  <1>1. ASSUME NEW e \in Devices PROVE Gets(job'[e])
    BY DEF Agree
  <1>2. (\A e \in Devices : Gets(job[e]))'
    BY <1>1 DEF Gets, Exists
  <1>3. ASSUME failures' = 0, NEW e \in Devices PROVE Follows(e)'
    <2>1. CASE e = d
      BY <1>3, <2>1
    <2>2. CASE e # d
      <3>1. Follows(e)
        BY <1>3 DEF Agree
      <3>2. CASE news' = Devices
        BY <3>2 DEF Follows
      <3>3. CASE post' = post /\ news \subseteq news' \cup {d}
        BY <2>2, <3>1, <3>3 DEF Follows, Behind
      <3> QED BY <3>2, <3>3
    <2> QED BY <2>1, <2>2
  <1> QED BY <1>2, <1>3 DEF Agree

LEMMA GetFilePostAgree ==
    ASSUME Inv, Agree, NEW d \in Devices, NEW at \in Steps \ {"idle"},
           NEW next \in {"on_put", "file_put", "off_put"},
           next = "file_put" <=> at = "file_get", at # "file_put",
           GetFilePost(d, at, next)
    PROVE  Agree'
  <1>1. TypeOK /\ job[d] \in Jobs /\ failures \in Nat
    BY InvIs, TypesAre
  <1>2. /\ job[d].step = at
        /\ UNCHANGED <<disk, info, want, inbox, post, groups, stored, news, edits, uploads>>
    BY DEF GetFilePost, server
  <1>3. Exists(post.row)
    BY <1>2, FreeJob DEF Agree, Nothing
  <1>4. CASE Fails /\ Idle(d)
    <2>1. job'[d] = NoJob /\ \A e \in Devices \ {d} : job'[e] = job[e]
      BY <1>1, <1>4, FreeJob, JobIs DEF Idle
    <2>2. failures' \in Nat /\ failures' # 0
      BY <1>1, <1>4 DEF Fails
    <2>3. Gets(job'[d])
      BY <2>1, FreeJob DEF Gets
    <2> QED BY <1>1, <1>2, <1>3, <2>1, <2>2, <2>3, AgreeStep
  <1>5. CASE Works /\ Goes(d, [job[d] EXCEPT !.step = next, !.got = post])
    <2>1. PICK j : j = [job[d] EXCEPT !.step = next, !.got = post]
      OBVIOUS
    <2>2. j \in Jobs /\ j.step = next /\ j.got = post /\ j.fi = job[d].fi
      <3>1. post \in Posts /\ next \in Steps
        BY <1>1, TypesAre DEF Steps
      <3> QED BY <1>1, <2>1, <3>1 DEF Jobs
    <2>3. job'[d] = j /\ \A e \in Devices \ {d} : job'[e] = job[e]
      BY <1>1, <1>5, <2>1, <2>2, JobIs
    <2>4. Gets(job'[d])
      BY <1>2, <1>3, <2>2, <2>3 DEF Gets, Agree
    <2>5. failures' = 0 => Follows(d)'
      BY <1>2, <1>5, <2>2, <2>3 DEF Agree, Follows, Behind, Works
    <2> QED BY <1>1, <1>2, <1>3, <1>5, <2>3, <2>4, <2>5, AgreeStep DEF Works
  <1> QED BY <1>4, <1>5 DEF GetFilePost

LEMMA PutFilePostAgree ==
    ASSUME Inv, Agree, NEW d \in Devices, NEW at, NEW next \in {"posts", "off_get", "idle"},
           NEW value, Exists(value.row), at # "idle", PutFilePost(d, at, next, value)
    PROVE  Agree'
  <1>1. TypeOK /\ job[d] \in Jobs /\ failures \in Nat
    BY InvIs, TypesAre
  <1>2. job[d].step = at /\ UNCHANGED <<info, inbox, want>>
    BY DEF PutFilePost
  <1>3. Exists(post.row)
    BY <1>2, FreeJob DEF Agree, Nothing
  <1>4. PICK j : j = IF next = "idle" THEN NoJob ELSE [job[d] EXCEPT !.step = next]
    OBVIOUS
  <1>5. j \in Jobs /\ j.step = next
    <2>1. CASE next = "idle"
      BY <2>1, <1>4, FreeJob
    <2>2. CASE next # "idle"
      BY <2>2, <1>1, <1>4 DEF Jobs, Steps
    <2> QED BY <2>1, <2>2
  <1>6. /\ (Fails /\ Goes(d, NoJob)) \/ (Works /\ Goes(d, j) /\ post' = value /\ news' = Devices)
        /\ (post' = post /\ news' = news) \/ (post' = value /\ news' = Devices)
    BY <1>4 DEF PutFilePost, Idle, Step
  <1>7. /\ job'[d].step \in {"posts", "off_get", "idle"}
        /\ \A e \in Devices \ {d} : job'[e] = job[e]
    <2>1. CASE Goes(d, NoJob)
      BY <1>1, <2>1, FreeJob, JobIs
    <2>2. CASE Goes(d, j)
      BY <1>1, <1>5, <2>2, JobIs
    <2> QED BY <1>6, <2>1, <2>2
  <1>8. Gets(job'[d])
    BY <1>7 DEF Gets
  <1>9. Exists(post'.row)
    BY <1>3, <1>6
  <1>10. failures' \in Nat /\ (failures' = 0 => failures = 0 /\ news' = Devices)
    BY <1>1, <1>6 DEF Works, Fails
  <1>11. failures' = 0 => Follows(d)'
    BY <1>10 DEF Follows
  <1>12. (post' = post /\ news \subseteq news' \cup {d}) \/ news' = Devices
    BY <1>6
  <1> QED BY <1>1, <1>2, <1>7, <1>8, <1>9, <1>10, <1>11, <1>12, AgreeStep

LEMMA UpdatesAgree ==
    ASSUME Inv, Agree, NEW d \in Devices,
           BeginTransit(d) \/ UpdateFilePost(d) \/ EndTransit(d)
    PROVE  Agree'
  <1>1. job[d] \in Jobs /\ job[d].got \in Posts /\ job[d].fi \in Rows
    BY InvIs, TypesAre, JobOf
  <1>2. /\ [job[d].got EXCEPT !.transit = TRUE].row = job[d].got.row
        /\ [job[d].got EXCEPT !.transit = FALSE].row = job[d].got.row
        /\ [job[d].got EXCEPT !.row = job[d].fi].row = job[d].fi
    BY <1>1 DEF Posts
  <1>3. Gets(job[d])
    BY DEF Agree
  <1>4. {"on_get", "file_get", "off_get"} \subseteq Steps \ {"idle"}
    BY DEF Steps
  <1>5. CASE GetFilePost(d, "on_get", "on_put")
    BY <1>4, <1>5, GetFilePostAgree
  <1>6. CASE PutFilePost(d, "on_put", "posts", [job[d].got EXCEPT !.transit = TRUE])
    <2>1. Exists(job[d].got.row)
      BY <1>3, <1>6 DEF Gets, PutFilePost
    <2> QED BY <1>2, <1>6, <2>1, PutFilePostAgree
  <1>7. CASE GetFilePost(d, "file_get", "file_put")
    BY <1>4, <1>7, GetFilePostAgree
  <1>8. CASE PutFilePost(d, "file_put", "off_get", [job[d].got EXCEPT !.row = job[d].fi])
    <2>1. Exists(job[d].fi)
      BY <1>3, <1>8 DEF Gets, PutFilePost
    <2> QED BY <1>2, <1>8, <2>1, PutFilePostAgree
  <1>9. CASE GetFilePost(d, "off_get", "off_put")
    BY <1>4, <1>9, GetFilePostAgree
  <1>10. CASE PutFilePost(d, "off_put", "idle", [job[d].got EXCEPT !.transit = FALSE])
    <2>1. Exists(job[d].got.row)
      BY <1>3, <1>10 DEF Gets, PutFilePost
    <2> QED BY <1>2, <1>10, <2>1, PutFilePostAgree
  <1> QED BY <1>5, <1>6, <1>7, <1>8, <1>9, <1>10 DEF BeginTransit, UpdateFilePost, EndTransit

\* A step that ends a job or goes on with it without touching rows or posts.
LEMMA JobAgree ==
    ASSUME Inv, Agree, NEW d \in Devices, NEW j \in Jobs, Goes(d, j), Exists(post.row),
           j.step \notin {"on_put", "file_put", "off_put", "file_get"},
           ~Behind(d) \/ failures' # 0, failures' \in Nat, failures' = 0 => failures = 0,
           UNCHANGED <<info, inbox, post, news>>
    PROVE  Agree'
  <1>1. TypeOK /\ failures \in Nat
    BY InvIs, TypesAre
  <1>2. job'[d] = j /\ \A e \in Devices \ {d} : job'[e] = job[e]
    BY <1>1, JobIs
  <1>3. Gets(job'[d])
    BY <1>2 DEF Gets
  <1>4. failures' = 0 => Follows(d)'
    BY <1>2 DEF Agree, Follows, Behind
  <1> QED BY <1>1, <1>2, <1>3, <1>4, AgreeStep

\* A job is only there when the file post is.
LEMMA Posted ==
    ASSUME Agree, NEW d \in Devices,
           job[d].step # "idle" \/ want[d] # {} \/ inbox[d] # NoPost \/ d \in news
           \/ Exists(info[d])
    PROVE  Exists(post.row)
  BY FreeJob DEF Agree, Nothing, Exists

LEMMA UploadAgree ==
    ASSUME Inv, Agree, NEW d \in Devices,
           BeginUpload(d) \/ RetrieveChunkPosts(d) \/ UploadGroup(d)
    PROVE  Agree'
  <1>1. TypeOK /\ failures \in Nat /\ Inv'
    <2>1. CASE BeginUpload(d)
      BY <2>1, BeginUploadInv, InvIs, TypesAre
    <2>2. CASE RetrieveChunkPosts(d)
      BY <2>2, RetrieveChunkPostsInv, InvIs, TypesAre
    <2>3. CASE UploadGroup(d)
      BY <2>3, UploadGroupInv, InvIs, TypesAre
    <2> QED BY <2>1, <2>2, <2>3
  <1>2. UNCHANGED <<info, inbox, post, news>> /\ ~Behind(d)
    BY FreeJob DEF BeginUpload, RetrieveChunkPosts, UploadGroup, Behind, server
  <1>3. Exists(post.row)
    BY Posted DEF BeginUpload, RetrieveChunkPosts, UploadGroup
  <1>4. failures' \in Nat /\ (failures' = 0 => failures = 0)
    <2>1. UNCHANGED failures \/ Works \/ Fails
      BY DEF BeginUpload, RetrieveChunkPosts, UploadGroup
    <2> QED BY <1>1, <2>1 DEF Works, Fails
  <1>5. \E j : Goes(d, j)
    BY DEF BeginUpload, RetrieveChunkPosts, UploadGroup, Idle
  <1>6. PICK j : Goes(d, j)
    BY <1>5
  <1>7. job'[d] = j /\ j \in Jobs
    <2>1. job'[d] = j
      BY <1>1, <1>6 DEF Goes, TypeOK
    <2>2. job' \in [Devices -> Jobs]
      BY <1>1 DEF Inv, TypeOK
    <2> QED BY <2>1, <2>2
  <1>8. j.step \in {"on_get", "roll", "group", "idle"}
    <2>1. job[d] \in Jobs
      BY <1>1, TypesAre
    <2>2. CASE BeginUpload(d)
      <3>1. job'[d] = [NoJob EXCEPT !.step = "on_get", !.up = uploads + 1, !.fi = info[d]]
        BY <1>1, <2>2 DEF BeginUpload, Goes, TypeOK
      <3> QED BY <1>7, <3>1 DEF NoJob
    <2>3. CASE RetrieveChunkPosts(d)
      <3>1. PICK parents : job'[d] = [job[d] EXCEPT
                 !.step = IF disk[d] = <<>> THEN "roll" ELSE "group",
                 !.parents = parents, !.size = Len(disk[d]),
                 !.fi = Row(@.hash, ExtractChunkInfo(parents), <<>>, {})]
        BY <1>1, <2>3 DEF RetrieveChunkPosts, Goes, TypeOK
      <3> QED BY <1>7, <2>1, <3>1 DEF Jobs
    <2>4. CASE UploadGroup(d)
      <3>1. \/ job'[d] = NoJob
            \/ \E read, row : job'[d] = [job[d] EXCEPT
                 !.step = IF Len(read) = job[d].size THEN "roll" ELSE "group", !.fi = row]
        BY <1>1, <2>4 DEF UploadGroup, Goes, Idle, TypeOK
      <3> QED BY <1>7, <2>1, <3>1, FreeJob DEF Jobs
    <2> QED BY <2>2, <2>3, <2>4
  <1> QED BY <1>2, <1>3, <1>4, <1>6, <1>7, <1>8, JobAgree

LEMMA UpdateFileInfoAgree ==
    ASSUME Inv, Agree, NEW d \in Devices, UpdateFileInfo(d)
    PROVE  Agree'
  <1>1. TypeOK /\ Ready(d) /\ failures \in Nat /\ job[d] \in Jobs /\ disk[d] \in Files
    BY InvIs, TypesAre
  <1>2. PICK row : row = [job[d].fi EXCEPT !.hash = disk[d]]
    OBVIOUS
  <1>3. PICK j : j = [job[d] EXCEPT !.step = "file_get", !.fi = row]
    OBVIOUS
  <1>4. /\ job[d].step = "roll" /\ info' = [info EXCEPT ![d] = row] /\ Goes(d, j)
        /\ UNCHANGED <<inbox, post, news, failures>>
    BY <1>2, <1>3 DEF UpdateFileInfo, server
  <1>5. row \in Rows /\ row.hash = disk[d] /\ disk[d] # NoFile
    <2>1. job[d].fi \in Rows
      BY <1>1, JobOf
    <2> QED BY <1>1, <1>2, <1>4, <2>1 DEF Rows, Ready, Sending
  <1>6. j \in Jobs /\ j.step = "file_get" /\ j.fi = row
    BY <1>1, <1>3, <1>5 DEF Jobs, Steps
  <1>7. job'[d] = j /\ \A e \in Devices \ {d} : job'[e] = job[e]
    BY <1>1, <1>4, <1>6, JobIs
  <1>8. \A e \in Devices \ {d} : info'[e] = info[e]
    BY <1>1, <1>4 DEF TypeOK
  <1>9. Exists(post.row)
    BY <1>4, Posted
  <1>10. Gets(job'[d])
    BY <1>5, <1>6, <1>7 DEF Gets, Exists
  <1>11. failures' = 0 => Follows(d)'
    BY <1>4, <1>6, <1>7 DEF Agree, Follows, Behind
  <1> QED BY <1>1, <1>4, <1>7, <1>8, <1>9, <1>10, <1>11, AgreeStep

LEMMA DownloadAgree ==
    ASSUME Inv, Agree, NEW d \in Devices, Download(d)
    PROVE  Agree'
  <1>1. TypeOK /\ failures \in Nat /\ Inv'
    BY InvIs, TypesAre, SyncFileInv, ConstructFileInv, MoveFileInv DEF Download
  <1>2. UNCHANGED <<info, inbox, post, news>> /\ ~Behind(d)
    BY FreeJob DEF Download, SyncFile, ConstructFile, MoveFile, Behind, server
  <1>3. Exists(post.row)
    BY Posted DEF Download, SyncFile, ConstructFile, MoveFile
  <1>4. failures' \in Nat /\ (failures' = 0 => failures = 0)
    <2>1. CASE SyncFile(d)
      BY <1>1, <2>1 DEF SyncFile, Works, Fails
    <2>2. CASE MoveFile(d)
      BY <1>1, <2>2 DEF MoveFile, Works, Fails
    <2>3. CASE ConstructFile(d)
      <3>1. CASE Works
        BY <1>1, <3>1 DEF Works
      <3>2. ASSUME NEW n \in Nat, NEW bad \in SUBSET (1 .. n),
                   failures' = failures + Cardinality(bad)
            PROVE  failures' \in Nat /\ (failures' = 0 => failures = 0)
        <4>1. IsFiniteSet(1 .. n)
          BY FS_Interval
        <4>2. Cardinality(bad) \in Nat
          BY <4>1, FS_Subset, FS_CardinalityType
        <4> QED BY <1>1, <3>2, <4>2
      <3> DEFINE n == Cardinality(DOMAIN ChunkList(job[d].fi.chunks))
      <3>3. n \in Nat
        BY <1>1, TypesAre, JobOf, RowOf, ListIs
      <3>4. Works \/ \E bad \in SUBSET (1 .. n) : failures' = failures + Cardinality(bad)
        BY <2>3 DEF ConstructFile
      <3> HIDE DEF n
      <3> QED BY <3>1, <3>2, <3>3, <3>4
    <2> QED BY <2>1, <2>2, <2>3 DEF Download
  <1>5. job[d] \in Jobs /\ job' \in [Devices -> Jobs]
    <2>1. TypeOK'
      BY <1>1 DEF Inv
    <2> QED BY <1>1, <2>1, TypesAre DEF TypeOK
  <1>6. PICK j : Goes(d, j) /\ j.step \in {"idle", "fetch", "move"}
    <2>1. CASE SyncFile(d)
      <3>1. CASE job' = job
        <4>1. Goes(d, NoJob)
          BY <1>1, <2>1, <3>1 DEF SyncFile, Goes, TypeOK
        <4> QED BY <4>1, FreeJob
      <3>2. CASE Goes(d, [NoJob EXCEPT !.step = "fetch", !.fi = info[d]])
        <4>1. [NoJob EXCEPT !.step = "fetch", !.fi = info[d]].step = "fetch"
          BY DEF NoJob
        <4> QED BY <3>2, <4>1
      <3> QED BY <2>1, <3>1, <3>2 DEF SyncFile
    <2>2. CASE MoveFile(d)
      BY <2>2, FreeJob DEF MoveFile, Idle
    <2>3. CASE ConstructFile(d)
      <3>1. CASE Idle(d)
        BY <3>1, FreeJob DEF Idle
      <3>2. CASE \E out, lost : Goes(d, [job[d] EXCEPT !.step = "move", !.out = out, !.lost = lost])
        <4>1. PICK out, lost :
                Goes(d, [job[d] EXCEPT !.step = "move", !.out = out, !.lost = lost])
          BY <3>2
        <4>2. [job[d] EXCEPT !.step = "move", !.out = out, !.lost = lost].step = "move"
          BY <1>5 DEF Jobs
        <4> QED BY <4>1, <4>2
      <3> QED BY <2>3, <3>1, <3>2 DEF ConstructFile
    <2> QED BY <2>1, <2>2, <2>3 DEF Download
  <1>7. j \in Jobs
    BY <1>1, <1>5, <1>6 DEF Goes, TypeOK
  <1> QED BY <1>2, <1>3, <1>4, <1>6, <1>7, JobAgree

LEMMA WatchAgree ==
    ASSUME Inv, Agree, NEW d \in Devices, Watch(d)
    PROVE  Agree'
  <1>1. TypeOK /\ failures \in Nat /\ Gets(job[d]) /\ job' = job /\ post' = post
        /\ failures' = failures
    BY InvIs, TypesAre DEF Watch, PollFilePosts, ProcessFilePost, Agree, server
  <1>2. Exists(post.row)
    BY Posted DEF Watch, PollFilePosts, ProcessFilePost, NoInbox
  <1>3. CASE PollFilePosts(d)
    <2>1. /\ news' = news \ {d} /\ info' = info
          /\ inbox' = [inbox EXCEPT ![d] = post]
      BY <1>3 DEF PollFilePosts
    <2>2. inbox'[d] = post /\ \A e \in Devices \ {d} : inbox'[e] = inbox[e]
      BY <1>1, <2>1 DEF TypeOK
    <2>3. post # NoPost
      BY <1>2, FreeJob DEF Exists
    <2>4. Follows(d)'
      BY <1>1, <2>2, <2>3 DEF Follows
    <2>5. news \subseteq news' \cup {d}
      BY <2>1
    <2> QED BY <1>1, <1>2, <2>1, <2>2, <2>4, <2>5, AgreeStep
  <1>4. CASE ProcessFilePost(d)
    <2>1. PICK row : row = inbox[d].row
      OBVIOUS
    <2>2. /\ inbox[d] # NoPost /\ inbox' = [inbox EXCEPT ![d] = NoPost] /\ news' = news
          /\ info' = IF row.hash # info[d].hash THEN [info EXCEPT ![d] = row] ELSE info
      BY <1>4, <2>1 DEF ProcessFilePost, NoInbox, server
    <2>3. /\ inbox'[d] = NoPost /\ info'[d].hash = row.hash
          /\ \A e \in Devices \ {d} : inbox'[e] = inbox[e] /\ info'[e] = info[e]
      BY <1>1, <2>2 DEF TypeOK
    <2>4. failures = 0 => Follows(d)'
      BY <1>1, <2>1, <2>2, <2>3 DEF Agree, Follows
    <2> QED BY <1>1, <1>2, <2>2, <2>3, <2>4, AgreeStep
  <1> QED BY <1>3, <1>4 DEF Watch

LEMMA PushFileAgree ==
    ASSUME Inv, Agree, NEW d \in Devices, PushFile(d)
    PROVE  Agree'
  <1>1. TypeOK /\ failures \in Nat /\ Gets(job[d])
    BY InvIs, TypesAre DEF Agree
  <1>2. job' = job /\ inbox' = inbox /\ disk[d] # NoFile /\ (Works \/ Fails)
    BY DEF PushFile, CreateNewFile
  <1>3. failures' \in Nat /\ (failures' = 0 => Works)
    BY <1>1, <1>2 DEF Works, Fails
  <1>4. CASE UNCHANGED <<post, news, info, want>> /\ Fails
    <2>1. Exists(post.row) \/ Nothing'
      BY <1>2, <1>4 DEF Agree, Nothing
    <2> QED BY <1>1, <1>2, <1>3, <1>4, <2>1, AgreeStep DEF Works, Fails
  <1>5. CASE Exists(info[d]) /\ Works /\ UNCHANGED <<post, news, info>>
    <2>1. Exists(post.row)
      BY <1>5, Posted
    <2>2. failures' = 0 => Follows(d)'
      BY <1>2, <1>5 DEF Agree, Follows, Behind, Works
    <2> QED BY <1>1, <1>2, <1>3, <1>5, <2>1, <2>2, AgreeStep DEF Works
  <1> DEFINE new == Row(disk[d], NoChunks, disk[d], {})
  <1>6. CASE /\ post' = [row |-> new, transit |-> TRUE] /\ news' = Devices
             /\ \/ Works /\ info' = [info EXCEPT ![d] = new]
                \/ Fails /\ info' = info
    <2>1. Exists(post'.row)
      BY <1>2, <1>6 DEF Exists, Row
    <2>2. \A e \in Devices \ {d} : info'[e] = info[e]
      BY <1>1, <1>6 DEF TypeOK
    <2>3. Follows(d)'
      BY <1>6 DEF Follows
    <2>4. failures' = 0 => failures = 0
      BY <1>1, <1>3 DEF Works
    <2> HIDE DEF new
    <2> QED BY <1>1, <1>2, <1>3, <1>6, <2>1, <2>2, <2>3, <2>4, AgreeStep
  <1> HIDE DEF new
  <1> QED BY <1>4, <1>5, <1>6 DEF PushFile, CreateNewFile, new

LEMMA CrashAgree ==
    ASSUME Inv, Agree, NEW d \in Devices, Crash(d)
    PROVE  Agree'
  <1>1. TypeOK /\ failures \in Nat
    BY InvIs, TypesAre
  <1>2. /\ job[d].step = "group" /\ Fails /\ Goes(d, NoJob)
        /\ inbox' = [inbox EXCEPT ![d] = NoPost] /\ news' = news \cup {d}
        /\ UNCHANGED <<info, post>>
    BY DEF Crash, Idle, NoInbox
  <1>3. job'[d] = NoJob /\ \A e \in Devices \ {d} : job'[e] = job[e]
    BY <1>1, <1>2, FreeJob, JobIs
  <1>4. \A e \in Devices \ {d} : inbox'[e] = inbox[e]
    BY <1>1, <1>2 DEF TypeOK
  <1>5. failures' \in Nat /\ failures' # 0
    BY <1>1, <1>2 DEF Fails
  <1>6. Exists(post.row)
    BY <1>2, Posted
  <1>7. Gets(job'[d])
    BY <1>3, FreeJob DEF Gets
  <1>8. news \subseteq news' \cup {d}
    BY <1>2
  <1> QED BY <1>1, <1>2, <1>3, <1>4, <1>5, <1>6, <1>7, <1>8, AgreeStep

LEMMA QuietAgree ==
    ASSUME Inv, Agree, UNCHANGED <<info, job, inbox, post, news, failures>>,
           Exists(post.row) \/ want' = want
    PROVE  Agree'
  <1>1. (Exists(post.row) \/ Nothing)'
    BY DEF Agree, Nothing, Exists
  <1>2. (\A d \in Devices : Gets(job[d]))'
    BY DEF Agree, Gets, Exists
  <1>3. (failures = 0 => \A d \in Devices : Follows(d))'
    BY DEF Agree, Follows, Behind
  <1> QED BY <1>1, <1>2, <1>3 DEF Agree

LEMMA NextAgree ==
    ASSUME Inv, Agree, [Next]_vars
    PROVE  Agree'
  <1>1. CASE UNCHANGED vars
    BY <1>1, QuietAgree DEF vars, device, server
  <1>2. CASE Next
    <2>1. PICK d \in Devices :
            \/ Edit(d) \/ PushFile(d) \/ Upload(d) \/ Download(d) \/ Watch(d) \/ Crash(d)
            \/ FileInUse(d, "upload") \/ FileInUse(d, "pull")
      BY <1>2 DEF Next
    <2>2. CASE Edit(d)
      BY <2>2, QuietAgree DEF Edit, device, server
    <2>3. CASE PushFile(d)
      BY <2>3, PushFileAgree
    <2>4. CASE Upload(d)
      <3>1. CASE BeginUpload(d) \/ RetrieveChunkPosts(d) \/ UploadGroup(d)
        BY <3>1, UploadAgree
      <3>2. CASE BeginTransit(d) \/ UpdateFilePost(d) \/ EndTransit(d)
        BY <3>2, UpdatesAgree
      <3>3. CASE UpdateFileInfo(d)
        BY <3>3, UpdateFileInfoAgree
      <3> QED BY <2>4, <3>1, <3>2, <3>3 DEF Upload
    <2>5. CASE Download(d)
      BY <2>5, DownloadAgree
    <2>6. CASE Watch(d)
      BY <2>6, WatchAgree
    <2>7. CASE Crash(d)
      BY <2>7, CrashAgree
    <2>8. CASE FileInUse(d, "upload") \/ FileInUse(d, "pull")
      <3>1. want[d] # {} /\ UNCHANGED <<info, job, inbox, post, news, failures>>
        BY <2>8 DEF FileInUse, server
      <3> QED BY <3>1, Posted, QuietAgree
    <2> QED BY <2>1, <2>2, <2>3, <2>4, <2>5, <2>6, <2>7, <2>8
  <1> QED BY <1>1, <1>2

\* PostFileStrategy, Polling and FileSync: when no request failed, nothing is under
\* way and the file post is out of transit, every manifest has its hash, whatever
\* uploads and polls of however many devices were interleaved before.
THEOREM ConvergesHolds == Spec => []Converges
  <1>1. Spec => []Agree
    BY InitAgree, NextAgree, InvHolds, PTL DEF Spec
  <1>2. Agree => Converges
    <2> SUFFICES ASSUME Agree, failures = 0, NEW d \in Devices, AtRest(d)
                 PROVE  info[d].hash = post.row.hash
      BY DEF Converges
    <2>1. Follows(d)
      BY DEF Agree
    <2> QED BY <2>1, FreeJob DEF AtRest, Follows, Behind, NoInbox
  <1> QED BY <1>1, <1>2, PTL

=============================================================================
