------------------------------ MODULE LockProofs ------------------------------
(***************************************************************************)
(* Theorems about the three kinds of lock a task takes, for every set of   *)
(* threads, folders, workers, files and paths.                             *)
(*                                                                         *)
(* FolderSem: the readers' count is right, one thread at most renames a    *)
(* folder, and no write request is left behind.  Type correctness rests on *)
(* the count (ReleaseRead may not go below zero) and the count on the      *)
(* typing, so the invariants are proved together.                          *)
(*                                                                         *)
(* FileLock: LockBacked and LockTypeOK are inductive together: a task      *)
(* comes to the unlock only from the lock, with its path unchanged, so     *)
(* whatever path is in file_queue_ after an unlock was locked by a task    *)
(* still at work.                                                          *)
(*                                                                         *)
(* FolderCreation: the invariants are proved together with what a walk has *)
(* left behind it (Walked), and they do not need the creation lock to keep *)
(* two threads apart: it does not.                                         *)
(***************************************************************************)
EXTENDS FolderSem, FileLock, FolderCreation, FiniteSetTheorems, TLAPS

(***************************************************************************)
(* The folder semaphore                                                    *)
(***************************************************************************)
SemIInv == SemTypeOK /\ ReadersCounted /\ SingleWriter /\ RequestBacked /\ HoldersCounted

\* The readers of a folder in a map, and the FolderSems, are finitely many:
\* each is a thread.
LEMMA ThreadsFinite ==
  /\ \A k : IsFiniteSet(Readers(k)) /\ Cardinality(Readers(k)) \in Nat
  /\ IsFiniteSet(Counted) /\ Cardinality(Counted) \in Nat
  <1>1. ASSUME NEW S, S \subseteq Users
        PROVE  IsFiniteSet(S) /\ Cardinality(S) \in Nat
    BY <1>1, FS_Subset, FS_CardinalityType, FolderSemAssumption
  <1>2. Counted \subseteq Users /\ \A k : Readers(k) \subseteq Users
    BY DEF Readers, Counted
  <1>. QED
    BY <1>1, <1>2

\* The invariant holds when nobody uses a folder.
LEMMA SemInitIInv == SemInit => SemIInv
  <1> SUFFICES ASSUME SemInit PROVE SemIInv
    OBVIOUS
  <1>1. SemTypeOK
    BY FolderSemAssumption DEF SemInit, SemTypeOK, Pcs, InUse
  <1>2. ReadersCounted /\ HoldersCounted
    <2>1. Counted = {} /\ \A k : Readers(k) = {}
      BY DEF SemInit, Readers, Counted, InUse
    <2>. QED
      BY <2>1, FS_EmptySet DEF SemInit, ReadersCounted, HoldersCounted
  <1>3. SingleWriter /\ RequestBacked
    BY DEF SemInit, SingleWriter, RequestBacked, Writers
  <1>. QED
    BY <1>1, <1>2, <1>3 DEF SemIInv

\* A step of p that changes neither who reads nor the counts keeps them equal.
LEMMA SameReaders ==
  ASSUME ReadersCounted, NEW p \in Users,
         readMap' = readMap,
         at[p] # "reading", at'[p] # "reading",
         \A q \in Users \ {p} : at'[q] = at[q] /\ on'[q] = on[q] /\ fm'[q] = fm[q]
  PROVE  ReadersCounted'
  <1>1. \A k : Readers(k)' = Readers(k)
    BY DEF Readers, Entry
  <1>. QED
    BY <1>1 DEF ReadersCounted

\* The same for the FolderSems and their number.
LEMMA SameHolders ==
  ASSUME HoldersCounted, NEW p \in Users,
         refCount' = refCount,
         at[p] \in InUse \cup {"joined"} <=> at'[p] \in InUse \cup {"joined"},
         \A q \in Users \ {p} : at'[q] = at[q]
  PROVE  HoldersCounted'
  <1>1. Counted' = Counted
    BY DEF Counted
  <1>. QED
    BY <1>1 DEF HoldersCounted

\* Most steps of a FolderSem in use change its place and at most the contents
\* of its map.
WithinUse(p) ==
  /\ ~torn /\ UNCHANGED <<pointers, on, fm>>
  /\ at' = [at EXCEPT ![p] = at'[p]]
  /\ at[p] \in InUse /\ at'[p] \in InUse

LEMMA WithinUseKeeps ==
  ASSUME SemIInv, NEW p \in Users, WithinUse(p),
         readMap' \in [Maps \X Folders -> Nat],
         writeMap' \subseteq Maps \X Folders,
         requested' \subseteq Maps \X Folders
  PROVE  /\ SemTypeOK' /\ HoldersCounted'
         /\ Entry(p) \in Maps \X Folders
         /\ \A q \in Users : Entry(q)' = Entry(q) /\ (q # p => at'[q] = at[q])
  <1>1. \A q \in Users \ {p} : at'[q] = at[q]
    BY DEF WithinUse, SemIInv, SemTypeOK
  <1>2. on' = on /\ fm' = fm /\ live' = live /\ torn' = torn /\ refCount' = refCount
    BY DEF WithinUse, pointers
  <1>3. SemTypeOK'
    BY <1>1, <1>2 DEF WithinUse, pointers, SemIInv, SemTypeOK, Pcs
  <1>4. HoldersCounted'
    BY <1>1, <1>2, SameHolders DEF WithinUse, SemIInv
  <1>5. fm[p] \in Maps /\ on[p] \in Folders
    BY DEF WithinUse, SemIInv, SemTypeOK
  <1>. QED
    BY <1>1, <1>2, <1>3, <1>4, <1>5 DEF Entry

\* Counting in and counting out.
LEMMA EnterReadStep ==
  ASSUME SemIInv, NEW p \in Users, EnterRead(p)
  PROVE  SemIInv'
  <1>0. PICK g : g = Entry(p)
    OBVIOUS
  <1>1. /\ WithinUse(p) /\ at[p] = "enter" /\ at'[p] = "reading"
        /\ readMap' = [readMap EXCEPT ![g] = readMap[g] + 1]
        /\ writeMap' = writeMap /\ requested' = requested
    BY <1>0 DEF EnterRead, MoveTo, WithinUse, InUse, SemIInv, SemTypeOK
  <1>2. g \in Maps \X Folders
    BY <1>0, <1>1 DEF WithinUse, Entry, SemIInv, SemTypeOK
  <1>3. readMap[g] \in Nat /\ readMap' \in [Maps \X Folders -> Nat]
    BY <1>1, <1>2 DEF SemIInv, SemTypeOK
  <1>4. /\ SemTypeOK' /\ HoldersCounted'
        /\ \A q \in Users : Entry(q)' = Entry(q) /\ (q # p => at'[q] = at[q])
    BY <1>1, <1>3, WithinUseKeeps DEF SemIInv, SemTypeOK
  <1>5. ReadersCounted'
    <2>1. Readers(g)' = Readers(g) \cup {p} /\ p \notin Readers(g)
      BY <1>0, <1>1, <1>4 DEF Readers
    <2>2. Cardinality(Readers(g)') = Cardinality(Readers(g)) + 1
      BY <2>1, ThreadsFinite, FS_AddElement
    <2>3. readMap'[g] = readMap[g] + 1
      BY <1>1, <1>2, <1>3 DEF SemIInv, SemTypeOK
    <2>. SUFFICES ASSUME NEW k \in Maps \X Folders
                  PROVE  readMap'[k] = Cardinality(Readers(k)')
      BY DEF ReadersCounted
    <2>4. readMap[k] = Cardinality(Readers(k))
      BY DEF SemIInv, ReadersCounted
    <2>5. CASE k = g
      BY <2>2, <2>3, <2>4, <2>5
    <2>6. CASE k # g
      <3>1. Readers(k)' = Readers(k)
        BY <1>0, <1>1, <1>4, <2>6 DEF Readers
      <3>2. readMap'[k] = readMap[k]
        BY <1>1, <2>6 DEF SemIInv, SemTypeOK
      <3>. QED
        BY <2>4, <3>1, <3>2
    <2>. QED
      BY <2>5, <2>6
  <1>6. SingleWriter' /\ RequestBacked'
    <2>1. \A k : Writers(k)' = Writers(k)
      BY <1>1, <1>4 DEF Writers
    <2>. QED
      BY <1>1, <1>4, <2>1 DEF SemIInv, SingleWriter, RequestBacked
  <1>. QED
    BY <1>4, <1>5, <1>6 DEF SemIInv

\* Counting out finds a count of at least one: the reader itself.
LEMMA ReleaseReadStep ==
  ASSUME SemIInv, NEW p \in Users, ReleaseRead(p)
  PROVE  SemIInv'
  <1>0. PICK g : g = Entry(p)
    OBVIOUS
  <1>1. /\ WithinUse(p) /\ at[p] = "reading" /\ at'[p] = "done"
        /\ readMap' = [readMap EXCEPT ![g] = readMap[g] - 1]
        /\ writeMap' = writeMap /\ requested' = requested
    BY <1>0 DEF ReleaseRead, MoveTo, WithinUse, InUse, SemIInv, SemTypeOK
  <1>2. g \in Maps \X Folders
    BY <1>0, <1>1 DEF WithinUse, Entry, SemIInv, SemTypeOK
  <1>3. p \in Readers(g)
    BY <1>0, <1>1 DEF Readers
  <1>4. /\ readMap[g] = Cardinality(Readers(g))
        /\ Cardinality(Readers(g) \ {p}) = Cardinality(Readers(g)) - 1
        /\ Cardinality(Readers(g) \ {p}) \in Nat
    <2>1. /\ Cardinality(Readers(g) \ {p}) = Cardinality(Readers(g)) - 1
          /\ IsFiniteSet(Readers(g) \ {p})
      BY <1>3, ThreadsFinite, FS_RemoveElement
    <2>. QED
      BY <1>2, <2>1, FS_CardinalityType DEF SemIInv, ReadersCounted
  <1>5. readMap' \in [Maps \X Folders -> Nat] /\ readMap'[g] = Cardinality(Readers(g) \ {p})
    BY <1>1, <1>2, <1>4 DEF SemIInv, SemTypeOK
  <1>6. /\ SemTypeOK' /\ HoldersCounted'
        /\ \A q \in Users : Entry(q)' = Entry(q) /\ (q # p => at'[q] = at[q])
    BY <1>1, <1>5, WithinUseKeeps DEF SemIInv, SemTypeOK
  <1>7. ReadersCounted'
    <2>. SUFFICES ASSUME NEW k \in Maps \X Folders
                  PROVE  readMap'[k] = Cardinality(Readers(k)')
      BY DEF ReadersCounted
    <2>1. CASE k = g
      <3>1. Readers(g)' = Readers(g) \ {p}
        BY <1>0, <1>1, <1>6 DEF Readers
      <3>. QED
        BY <1>5, <2>1, <3>1
    <2>2. CASE k # g
      <3>1. Readers(k)' = Readers(k)
        BY <1>0, <1>1, <1>6, <2>2 DEF Readers
      <3>2. readMap'[k] = readMap[k]
        BY <1>1, <2>2 DEF SemIInv, SemTypeOK
      <3>. QED
        BY <3>1, <3>2 DEF SemIInv, ReadersCounted
    <2>. QED
      BY <2>1, <2>2
  <1>8. SingleWriter' /\ RequestBacked'
    <2>1. \A k : Writers(k)' = Writers(k)
      BY <1>1, <1>6 DEF Writers
    <2>. QED
      BY <1>1, <1>6, <2>1 DEF SemIInv, SingleWriter, RequestBacked
  <1>. QED
    BY <1>6, <1>7, <1>8 DEF SemIInv

\* The steps of a use that leave who reads and who writes alone.
LEMMA QuietStep ==
  ASSUME SemIInv, NEW p \in Users,
         CheckRequested(p) \/ CountReaders(p) \/ RequestWrite(p) \/ FailWrite(p)
  PROVE  SemIInv'
  <1>1. /\ WithinUse(p) /\ readMap' = readMap /\ writeMap' = writeMap
        /\ at[p] \in {"check", "count", "request", "claim"}
        /\ at'[p] \in {"enter", "count", "request", "claim"}
        /\ at[p] \in {"count", "request", "claim"}
             => at'[p] \in {"count", "request", "claim"}
    BY DEF CheckRequested, CountReaders, RequestWrite, FailWrite, MoveTo, WithinUse,
       contents, InUse, SemIInv, SemTypeOK
  <1>2. \/ requested' = requested
        \/ requested' = requested \cup {Entry(p)} /\ at'[p] = "count"
    BY DEF CheckRequested, CountReaders, RequestWrite, FailWrite, MoveTo, contents,
       SemIInv, SemTypeOK
  <1>3. Entry(p) \in Maps \X Folders
    BY <1>1 DEF WithinUse, Entry, SemIInv, SemTypeOK
  <1>4. /\ SemTypeOK' /\ HoldersCounted'
        /\ \A q \in Users : Entry(q)' = Entry(q) /\ (q # p => at'[q] = at[q])
    <2>1. requested' \subseteq Maps \X Folders
      BY <1>2, <1>3 DEF SemIInv, SemTypeOK
    <2>. QED
      BY <1>1, <2>1, WithinUseKeeps DEF SemIInv, SemTypeOK
  <1>5. ReadersCounted'
    <2>1. \A k : Readers(k)' = Readers(k)
      BY <1>1, <1>4 DEF Readers
    <2>. QED
      BY <1>1, <2>1 DEF SemIInv, ReadersCounted
  <1>6. SingleWriter'
    <2>1. \A k : Writers(k)' = Writers(k)
      BY <1>1, <1>4 DEF Writers
    <2>. QED
      BY <1>1, <2>1 DEF SemIInv, SingleWriter
  <1>7. RequestBacked'
    BY <1>1, <1>2, <1>4 DEF SemIInv, RequestBacked
  <1>. QED
    BY <1>4, <1>5, <1>6, <1>7 DEF SemIInv

\* A writer takes the folder in its map.
LEMMA ClaimWriteStep ==
  ASSUME SemIInv, NEW p \in Users, ClaimWrite(p)
  PROVE  SemIInv'
  <1>1. /\ WithinUse(p) /\ at[p] = "claim" /\ at'[p] = "clear"
        /\ readMap' = readMap /\ writeMap' = writeMap \cup {Entry(p)}
        /\ requested' = requested /\ Entry(p) \notin writeMap
    BY DEF ClaimWrite, MoveTo, WithinUse, InUse, SemIInv, SemTypeOK
  <1>2. Entry(p) \in Maps \X Folders
    BY <1>1 DEF WithinUse, Entry, SemIInv, SemTypeOK
  <1>3. /\ SemTypeOK' /\ HoldersCounted'
        /\ \A q \in Users : Entry(q)' = Entry(q) /\ (q # p => at'[q] = at[q])
    BY <1>1, <1>2, WithinUseKeeps DEF SemIInv, SemTypeOK
  <1>4. ReadersCounted'
    <2>1. \A k : Readers(k)' = Readers(k)
      BY <1>1, <1>3 DEF Readers
    <2>. QED
      BY <1>1, <2>1 DEF SemIInv, ReadersCounted
  <1>5. SingleWriter'
    <2>1. Writers(Entry(p)) = {}
      BY <1>1, <1>2 DEF SemIInv, SingleWriter
    <2>2. \A k : Writers(k)' = IF k = Entry(p) THEN {p} ELSE Writers(k)
      BY <1>1, <1>3, <2>1 DEF Writers
    <2>. QED
      BY <1>1, <2>2 DEF SemIInv, SingleWriter
  <1>6. RequestBacked'
    BY <1>1, <1>3 DEF SemIInv, RequestBacked
  <1>. QED
    BY <1>3, <1>4, <1>5, <1>6 DEF SemIInv

\* The writer that holds the folder withdraws every request for it.
LEMMA ClearRequestStep ==
  ASSUME SemIInv, NEW p \in Users, ClearRequest(p)
  PROVE  SemIInv'
  <1>1. /\ WithinUse(p) /\ at[p] = "clear" /\ at'[p] = "writing"
        /\ readMap' = readMap /\ writeMap' = writeMap
        /\ requested' = requested \ {Entry(p)}
    BY DEF ClearRequest, MoveTo, WithinUse, InUse, SemIInv, SemTypeOK
  <1>2. /\ SemTypeOK' /\ HoldersCounted'
        /\ \A q \in Users : Entry(q)' = Entry(q) /\ (q # p => at'[q] = at[q])
    BY <1>1, WithinUseKeeps DEF SemIInv, SemTypeOK
  <1>3. ReadersCounted'
    <2>1. \A k : Readers(k)' = Readers(k)
      BY <1>1, <1>2 DEF Readers
    <2>. QED
      BY <1>1, <2>1 DEF SemIInv, ReadersCounted
  <1>4. SingleWriter'
    <2>1. \A k : Writers(k)' = Writers(k)
      BY <1>1, <1>2 DEF Writers
    <2>. QED
      BY <1>1, <2>1 DEF SemIInv, SingleWriter
  <1>5. RequestBacked'
    BY <1>1, <1>2 DEF SemIInv, RequestBacked
  <1>. QED
    BY <1>2, <1>3, <1>4, <1>5 DEF SemIInv

\* A writer is done, with or without its entry in write_map_.
LEMMA EndWriteStep ==
  ASSUME SemIInv, NEW p \in Users, ReleaseWrite(p) \/ ThrowInWrite(p)
  PROVE  SemIInv'
  <1>1. /\ WithinUse(p) /\ at[p] = "writing" /\ at'[p] = "done"
        /\ readMap' = readMap /\ requested' = requested
        /\ writeMap' = writeMap \ {Entry(p)} \/ writeMap' = writeMap
    BY DEF ReleaseWrite, ThrowInWrite, MoveTo, WithinUse, contents, InUse, SemIInv, SemTypeOK
  <1>2. /\ SemTypeOK' /\ HoldersCounted' /\ Entry(p) \in Maps \X Folders
        /\ \A q \in Users : Entry(q)' = Entry(q) /\ (q # p => at'[q] = at[q])
    BY <1>1, WithinUseKeeps DEF SemIInv, SemTypeOK
  <1>3. ReadersCounted'
    <2>1. \A k : Readers(k)' = Readers(k)
      BY <1>1, <1>2 DEF Readers
    <2>. QED
      BY <1>1, <2>1 DEF SemIInv, ReadersCounted
  <1>4. SingleWriter'
    <2>1. \A k : Writers(k)' = Writers(k) \ {p}
      BY <1>1, <1>2 DEF Writers
    <2>2. p \in Writers(Entry(p))
      BY <1>1 DEF Writers
    <2>3. \A k \in Maps \X Folders : k = Entry(p) => Writers(k)' = {}
      BY <1>2, <2>1, <2>2 DEF SemIInv, SingleWriter
    <2>. QED
      BY <1>1, <2>1, <2>3 DEF SemIInv, SingleWriter
  <1>5. RequestBacked'
    BY <1>1, <1>2 DEF SemIInv, RequestBacked
  <1>. QED
    BY <1>2, <1>3, <1>4, <1>5 DEF SemIInv

\* Outside its use a thread is in no set of readers or writers: what it does
\* there leaves the contents of the maps in order if it leaves them alone.
LEMMA OutsideUse ==
  ASSUME SemIInv, NEW p \in Users, UNCHANGED contents,
         at[p] \notin {"enter", "reading", "count", "request", "claim", "clear", "writing"},
         at'[p] \notin {"enter", "reading", "clear", "writing"},
         \A q \in Users \ {p} : at'[q] = at[q] /\ Entry(q)' = Entry(q)
  PROVE  ReadersCounted' /\ SingleWriter' /\ RequestBacked'
  <1>1. \A k : Readers(k)' = Readers(k) /\ Writers(k)' = Writers(k)
    BY DEF Readers, Writers
  <1>2. ReadersCounted' /\ SingleWriter'
    BY <1>1 DEF contents, SemIInv, ReadersCounted, SingleWriter
  <1>3. RequestBacked'
    BY DEF contents, SemIInv, RequestBacked
  <1>. QED
    BY <1>2, <1>3

\* A FolderSem looks for the map, and the last one looks for it again.
LEMMA LookStep ==
  ASSUME SemIInv, NEW p \in Users, Start(p) \/ FindMap(p)
  PROVE  SemIInv'
  <1>1. /\ at' = [at EXCEPT ![p] = at'[p]]
        /\ at[p] \in {"out", "last"} /\ at'[p] \in {"create", "join", "out", "delete"}
        /\ UNCHANGED <<contents, pointers, on, fm>>
    BY DEF Start, FindMap, MoveTo, SemIInv, SemTypeOK
  <1>2. \A q \in Users \ {p} : at'[q] = at[q] /\ Entry(q)' = Entry(q)
    BY <1>1 DEF Entry, SemIInv, SemTypeOK
  <1>3. SemTypeOK'
    BY <1>1 DEF contents, pointers, SemIInv, SemTypeOK, Pcs, InUse
  <1>4. HoldersCounted'
    BY <1>1, <1>2, SameHolders DEF pointers, SemIInv, InUse
  <1>5. ReadersCounted' /\ SingleWriter' /\ RequestBacked'
    BY <1>1, <1>2, OutsideUse
  <1>. QED
    BY <1>3, <1>4, <1>5 DEF SemIInv

\* A new map is at an address nobody holds: its contents are nobody's.
LEMMA CreateMapStep ==
  ASSUME SemIInv, NEW p \in Users, CreateMap(p)
  PROVE  SemIInv'
  <1>1. PICK m \in Maps :
          /\ m \notin live \/ \A q \in Users : fm[q] # m
          /\ instance' = m /\ live' = live \cup {m}
          /\ readMap' = [k \in Maps \X Folders |-> IF k[1] = m THEN 0 ELSE readMap[k]]
          /\ writeMap' = { k \in writeMap : k[1] # m }
          /\ requested' = { k \in requested : k[1] # m }
    BY DEF CreateMap
  <1>2. /\ ~torn /\ at[p] = "create" /\ at' = [at EXCEPT ![p] = "join"]
        /\ UNCHANGED <<refCount, torn, on, fm>>
    BY DEF CreateMap, MoveTo
  <1>3. /\ at'[p] = "join"
        /\ \A q \in Users \ {p} : at'[q] = at[q]
        /\ \A q \in Users : Entry(q)' = Entry(q)
    BY <1>2 DEF Entry, SemIInv, SemTypeOK
  <1>4. \A q \in Users : at[q] \in InUse => fm[q] # m
    BY <1>1, <1>2 DEF SemIInv, SemTypeOK
  <1>5. SemTypeOK'
    <2>1. readMap' \in [Maps \X Folders -> Nat]
      BY <1>1 DEF SemIInv, SemTypeOK
    <2>2. writeMap' \subseteq Maps \X Folders /\ requested' \subseteq Maps \X Folders
      BY <1>1 DEF SemIInv, SemTypeOK
    <2>3. instance' \in Maps \cup {NoMap} /\ live' \subseteq Maps
      BY <1>1 DEF SemIInv, SemTypeOK
    <2>4. \A q \in Users :
            /\ on'[q] # NoUse <=> at'[q] \in InUse
            /\ at'[q] \notin InUse => fm'[q] = NoMap
            /\ ~torn' /\ at'[q] \in InUse => fm'[q] \in live'
      BY <1>1, <1>2, <1>3 DEF SemIInv, SemTypeOK, InUse
    <2>5. at' \in [Users -> Pcs]
      BY <1>2 DEF SemIInv, SemTypeOK, Pcs
    <2>. QED
      BY <1>2, <2>1, <2>2, <2>3, <2>4, <2>5 DEF SemIInv, SemTypeOK
  <1>6. HoldersCounted'
    BY <1>2, <1>3, SameHolders DEF SemIInv, InUse
  <1>7. \A k : Readers(k)' = Readers(k) /\ Writers(k)' = Writers(k)
    BY <1>2, <1>3 DEF Readers, Writers
  <1>8. ASSUME NEW k, k[1] = m
        PROVE  Readers(k) = {} /\ Writers(k) = {}
    BY <1>4, <1>8 DEF Readers, Writers, Entry, InUse
  <1>9. ReadersCounted'
    <2>. SUFFICES ASSUME NEW k \in Maps \X Folders
                  PROVE  readMap'[k] = Cardinality(Readers(k))
      BY <1>7 DEF ReadersCounted
    <2>1. CASE k[1] = m
      BY <1>1, <1>8, <2>1, FS_EmptySet
    <2>2. CASE k[1] # m
      BY <1>1, <2>2 DEF SemIInv, ReadersCounted
    <2>. QED
      BY <2>1, <2>2
  <1>10. SingleWriter'
    <2>. SUFFICES ASSUME NEW k \in Maps \X Folders
                  PROVE  /\ \A q, r \in Writers(k) : q = r
                         /\ Writers(k) # {} => k \in writeMap'
      BY <1>7 DEF SingleWriter
    <2>1. CASE k[1] = m
      BY <1>8, <2>1
    <2>2. CASE k[1] # m
      BY <1>1, <2>2 DEF SemIInv, SingleWriter
    <2>. QED
      BY <2>1, <2>2
  <1>11. RequestBacked'
    BY <1>1, <1>2, <1>3 DEF SemIInv, RequestBacked
  <1>. QED
    BY <1>5, <1>6, <1>9, <1>10, <1>11 DEF SemIInv

\* A FolderSem is counted in, takes the map it finds, and is counted out.
LEMMA JoinStep ==
  ASSUME SemIInv, NEW p \in Users, Join(p)
  PROVE  SemIInv'
  <1>1. /\ at[p] = "join" /\ at' = [at EXCEPT ![p] = "joined"] /\ refCount' = refCount + 1
        /\ UNCHANGED <<contents, instance, live, torn, on, fm>>
    BY DEF Join, MoveTo
  <1>2. /\ at'[p] = "joined"
        /\ \A q \in Users \ {p} : at'[q] = at[q] /\ Entry(q)' = Entry(q)
    BY <1>1 DEF Entry, SemIInv, SemTypeOK
  <1>3. SemTypeOK'
    BY <1>1 DEF contents, SemIInv, SemTypeOK, Pcs, InUse
  <1>4. HoldersCounted'
    <2>1. Counted' = Counted \cup {p} /\ p \notin Counted
      BY <1>1, <1>2 DEF Counted, InUse
    <2>2. Cardinality(Counted') = Cardinality(Counted) + 1
      BY <2>1, ThreadsFinite, FS_AddElement
    <2>. QED
      BY <1>1, <2>2 DEF SemIInv, HoldersCounted
  <1>5. ReadersCounted' /\ SingleWriter' /\ RequestBacked'
    BY <1>1, <1>2, OutsideUse
  <1>. QED
    BY <1>3, <1>4, <1>5 DEF SemIInv

LEMMA BeginUseStep ==
  ASSUME SemIInv, NEW p \in Users, StartRead(p) \/ StartWrite(p)
  PROVE  SemIInv'
  <1>1. /\ ~torn /\ at[p] = "joined" /\ at' = [at EXCEPT ![p] = at'[p]]
        /\ at'[p] \in {"check", "count"}
        /\ fm' = [fm EXCEPT ![p] = instance] /\ torn' = (instance \notin live)
        /\ UNCHANGED <<contents, instance, refCount, live>>
    BY DEF StartRead, StartWrite, MoveTo, TakeMap, SemIInv, SemTypeOK
  <1>2. PICK f \in Folders : on' = [on EXCEPT ![p] = f]
    BY FolderSemAssumption DEF StartRead, StartWrite
  <1>3. /\ \A q \in Users \ {p} :
              at'[q] = at[q] /\ on'[q] = on[q] /\ fm'[q] = fm[q] /\ Entry(q)' = Entry(q)
        /\ on'[p] = f /\ fm'[p] = instance
    BY <1>1, <1>2 DEF Entry, SemIInv, SemTypeOK
  <1>4. SemTypeOK'
    <2>1. torn' \in BOOLEAN /\ at' \in [Users -> Pcs]
      BY <1>1 DEF SemIInv, SemTypeOK, Pcs, InUse
    <2>2. \A q \in Users :
            /\ on'[q] # NoUse <=> at'[q] \in InUse
            /\ at'[q] \notin InUse => fm'[q] = NoMap
            /\ ~torn' /\ at'[q] \in InUse => fm'[q] \in live'
      <3>1. at'[p] \in InUse /\ f # NoUse
        BY <1>1, FolderSemAssumption DEF InUse
      <3>. QED
        BY <1>1, <1>3, <3>1 DEF SemIInv, SemTypeOK
    <2>. QED
      BY <1>1, <1>2, <2>1, <2>2 DEF contents, SemIInv, SemTypeOK
  <1>5. HoldersCounted'
    BY <1>1, <1>3, SameHolders DEF SemIInv, InUse
  <1>6. ReadersCounted' /\ SingleWriter' /\ RequestBacked'
    BY <1>1, <1>3, OutsideUse
  <1>. QED
    BY <1>4, <1>5, <1>6 DEF SemIInv

LEMMA LeaveStep ==
  ASSUME SemIInv, NEW p \in Users, Leave(p)
  PROVE  SemIInv'
  <1>1. /\ at[p] = "done" /\ at' = [at EXCEPT ![p] = at'[p]] /\ at'[p] \in {"last", "out"}
        /\ refCount' = refCount - 1
        /\ on' = [on EXCEPT ![p] = NoUse] /\ fm' = [fm EXCEPT ![p] = NoMap]
        /\ UNCHANGED <<contents, instance, live, torn>>
    BY DEF Leave, MoveTo, SemIInv, SemTypeOK
  <1>2. /\ \A q \in Users \ {p} :
              at'[q] = at[q] /\ on'[q] = on[q] /\ fm'[q] = fm[q] /\ Entry(q)' = Entry(q)
        /\ on'[p] = NoUse /\ fm'[p] = NoMap
    BY <1>1 DEF Entry, SemIInv, SemTypeOK
  <1>3. /\ Counted' = Counted \ {p} /\ p \in Counted
        /\ Cardinality(Counted \ {p}) = Cardinality(Counted) - 1
        /\ Cardinality(Counted \ {p}) \in Nat
    <2>1. Counted' = Counted \ {p} /\ p \in Counted
      BY <1>1, <1>2 DEF Counted, InUse
    <2>2. /\ Cardinality(Counted \ {p}) = Cardinality(Counted) - 1
          /\ IsFiniteSet(Counted \ {p})
      BY <2>1, ThreadsFinite, FS_RemoveElement
    <2>. QED
      BY <2>1, <2>2, FS_CardinalityType
  <1>4. refCount' = Cardinality(Counted \ {p})
    BY <1>1, <1>3 DEF SemIInv, HoldersCounted
  <1>5. SemTypeOK'
    <2>1. at' \in [Users -> Pcs] /\ refCount' \in Nat
      BY <1>1, <1>3, <1>4 DEF SemIInv, SemTypeOK, Pcs, InUse
    <2>2. \A q \in Users :
            /\ on'[q] # NoUse <=> at'[q] \in InUse
            /\ at'[q] \notin InUse => fm'[q] = NoMap
            /\ ~torn' /\ at'[q] \in InUse => fm'[q] \in live'
      <3>1. at'[p] \notin InUse
        BY <1>1 DEF InUse
      <3>. QED
        BY <1>1, <1>2, <3>1 DEF SemIInv, SemTypeOK
    <2>. QED
      BY <1>1, <2>1, <2>2 DEF contents, SemIInv, SemTypeOK
  <1>6. HoldersCounted'
    BY <1>3, <1>4 DEF HoldersCounted
  <1>7. ReadersCounted' /\ SingleWriter' /\ RequestBacked'
    BY <1>1, <1>2, OutsideUse
  <1>. QED
    BY <1>5, <1>6, <1>7 DEF SemIInv

\* The map goes and the pointer with it; who still holds the map is torn.
LEMMA ShutdownStep ==
  ASSUME SemIInv, NEW p \in Users, DeleteMap(p) \/ ClearPointer(p)
  PROVE  SemIInv'
  <1>1. /\ ~torn /\ at' = [at EXCEPT ![p] = at'[p]]
        /\ at[p] \in {"delete", "deleted"} /\ at'[p] \in {"deleted", "out"}
        /\ UNCHANGED <<contents, refCount, on, fm>>
        /\ instance' \in {instance, NoMap}
    BY DEF DeleteMap, ClearPointer, MoveTo, SemIInv, SemTypeOK
  <1>2. \A q \in Users \ {p} : at'[q] = at[q] /\ Entry(q)' = Entry(q)
    BY <1>1 DEF Entry, SemIInv, SemTypeOK
  <1>3. /\ live' \subseteq Maps /\ torn' \in BOOLEAN
        /\ \A q \in Users : ~torn' /\ at[q] \in InUse => fm[q] \in live'
    <2>1. CASE ClearPointer(p)
      BY <1>1, <2>1 DEF ClearPointer, SemIInv, SemTypeOK
    <2>2. CASE DeleteMap(p)
      <3>1. live' = live \ {instance}
        BY <2>2 DEF DeleteMap
      <3>2. torn' = (instance # NoMap
                       /\ (instance \notin live \/ \E q \in Users : fm[q] = instance))
        BY <2>2 DEF DeleteMap
      <3>3. ASSUME NEW q \in Users, ~torn', at[q] \in InUse
            PROVE  fm[q] \in live'
        <4>1. fm[q] \in live /\ fm[q] # NoMap
          BY <1>1, <3>3, FolderSemAssumption DEF SemIInv, SemTypeOK
        <4>. QED
          BY <3>1, <3>2, <3>3, <4>1
      <3>. QED
        BY <3>1, <3>2, <3>3 DEF SemIInv, SemTypeOK
    <2>. QED
      BY <2>1, <2>2
  <1>4. SemTypeOK'
    <2>1. at' \in [Users -> Pcs] /\ instance' \in Maps \cup {NoMap}
      BY <1>1 DEF SemIInv, SemTypeOK, Pcs, InUse
    <2>2. \A q \in Users : at'[q] \in InUse <=> at[q] \in InUse
      BY <1>1 DEF SemIInv, SemTypeOK, InUse
    <2>. QED
      BY <1>1, <1>3, <2>1, <2>2 DEF contents, SemIInv, SemTypeOK
  <1>5. HoldersCounted'
    BY <1>1, <1>2, SameHolders DEF SemIInv, InUse
  <1>6. ReadersCounted' /\ SingleWriter' /\ RequestBacked'
    BY <1>1, <1>2, OutsideUse
  <1>. QED
    BY <1>4, <1>5, <1>6 DEF SemIInv

\* The program that begins anew begins as it does.
LEMMA CrashStep ==
  ASSUME Crash
  PROVE  SemIInv'
  <1>1. SemInit'
    BY DEF Crash, SemInit
  <1>. QED
    BY <1>1, SemInitIInv, PTL

\* The invariant is inductive: one case per action.
LEMMA SemStepIInv == SemIInv /\ [SemNext]_semVars => SemIInv'
  <1> SUFFICES ASSUME SemIInv, [SemNext]_semVars PROVE SemIInv'
    OBVIOUS
  <1>1. ASSUME NEW p \in Users, Start(p) \/ UserStep(p) PROVE SemIInv'
    BY <1>1, EnterReadStep, ReleaseReadStep, QuietStep, ClaimWriteStep, ClearRequestStep,
       EndWriteStep, LookStep, CreateMapStep, JoinStep, BeginUseStep, LeaveStep,
       ShutdownStep DEF UserStep
  <1>2. CASE UNCHANGED semVars
    BY <1>2 DEF semVars, contents, pointers, SemIInv, SemTypeOK, ReadersCounted,
       SingleWriter, RequestBacked, HoldersCounted, Readers, Writers, Counted, Entry
  <1>3. CASE Crash
    BY <1>3, CrashStep
  <1>. QED
    BY <1>1, <1>2, <1>3 DEF SemNext

\* The invariants hold throughout.
LEMMA SemInvariance == SemSpec => []SemIInv
  BY SemInitIInv, SemStepIInv, PTL DEF SemSpec

\* Every variable keeps its type; in particular no reader's count goes below
\* zero, where the code's unsigned counter would wrap, and a thread that uses
\* a folder has a map that is allocated until one is deleted under its users.
THEOREM SemTypeCorrect == SemSpec => []SemTypeOK
  <1>1. SemIInv => SemTypeOK
    BY DEF SemIInv
  <1>. QED
    BY <1>1, SemInvariance, PTL

\* read_map_ is the number of readers, of every folder in every map.
THEOREM ReadCount == SemSpec => []ReadersCounted
  <1>1. SemIInv => ReadersCounted
    BY DEF SemIInv
  <1>. QED
    BY <1>1, SemInvariance, PTL

\* No folder is renamed by two threads that hold the same map.
THEOREM OneWriterPerMap == SemSpec => []SingleWriter
  <1>1. SemIInv => SingleWriter
    BY DEF SemIInv
  <1>. QED
    BY <1>1, SemInvariance, PTL

\* What stands between the code and "single writes" is the second map alone:
\* while all who use a folder hold one map, nobody shares a folder it renames.
THEOREM OneMapSuffices ==
    SemSpec => []((\A p, q \in Users : {at[p], at[q]} \subseteq InUse => fm[p] = fm[q])
                    => torn \/ SingleWrites)
  <1>1. ASSUME SemIInv, ~torn,
               \A p, q \in Users : {at[p], at[q]} \subseteq InUse => fm[p] = fm[q]
        PROVE  SingleWrites
    <2>. SUFFICES ASSUME NEW p \in Users, NEW q \in Users,
                         at[p] = "writing", at[q] = "writing", on[p] = on[q]
                  PROVE  p = q
      BY DEF SingleWrites
    <2>1. at[p] \in InUse /\ at[q] \in InUse
      BY DEF InUse
    <2>2. fm[p] = fm[q] /\ fm[p] \in Maps /\ on[p] \in Folders
      BY <1>1, <2>1 DEF SemIInv, SemTypeOK
    <2>3. Entry(p) \in Maps \X Folders /\ Entry(q) = Entry(p)
      BY <2>2 DEF Entry
    <2>4. p \in Writers(Entry(p)) /\ q \in Writers(Entry(p))
      BY <2>3 DEF Writers
    <2>. QED
      BY <1>1, <2>3, <2>4 DEF SemIInv, SingleWriter
  <1>. QED
    BY <1>1, SemInvariance, PTL

\* g_ref_count is the number of FolderSems there are.
THEOREM HolderCount == SemSpec => []HoldersCounted
  <1>1. SemIInv => HoldersCounted
    BY DEF SemIInv
  <1>. QED
    BY <1>1, SemInvariance, PTL

\* No write request outlives the writers that could withdraw it.
THEOREM NoStaleRequest == SemSpec => []RequestBacked
  <1>1. SemIInv => RequestBacked
    BY DEF SemIInv
  <1>. QED
    BY <1>1, SemInvariance, PTL

(***************************************************************************)
(* The file locks                                                          *)
(***************************************************************************)
LockIInv == LockTypeOK /\ LockBacked

\* No path is locked and no task has begun.
LEMMA LockInitIInv == LockInit => LockIInv
  <1> SUFFICES ASSUME LockInit PROVE LockIInv
    OBVIOUS
  <1>1. LockTypeOK
    BY DEF LockInit, LockTypeOK, Places
  <1>2. LockBacked
    BY DEF LockInit, LockBacked
  <1> QED BY <1>1, <1>2 DEF LockIInv

\* The steps that do not touch the queue: a task begins, tests, works or ends.
LEMMA QuietTask ==
    ASSUME LockIInv, NEW w \in Workers,
           StartTask(w) \/ FindLocked(w) \/ FindFree(w) \/ Work(w) \/ Finish(w)
    PROVE  LockIInv'
  <1> USE FileLockAssumption
  <1>1. CASE StartTask(w)
    BY <1>1 DEF LockIInv, LockTypeOK, LockBacked, Using, Places, StartTask, StartPull, StartDelete,
                StartUpload, StartUnknownUpload, Begin, Proceed
  <1>2. CASE FindLocked(w)
    BY <1>2 DEF LockIInv, LockTypeOK, LockBacked, Using, Places, FindLocked, Proceed
  <1>3. CASE FindFree(w)
    BY <1>3 DEF LockIInv, LockTypeOK, LockBacked, Using, Places, FindFree, Proceed
  <1>4. CASE Work(w)
    BY <1>4 DEF LockIInv, LockTypeOK, LockBacked, Using, Places, Work, Proceed
  <1>5. CASE Finish(w)
    BY <1>5 DEF LockIInv, LockTypeOK, LockBacked, Using, Places, Finish, Proceed
  <1> QED BY <1>1, <1>2, <1>3, <1>4, <1>5

\* A task that locks a path uses it.
LEMMA LockFileStep ==
    ASSUME LockIInv, NEW w \in Workers, LockFile(w)
    PROVE  LockIInv'
  <1>1. path[w] \in Paths
    BY DEF LockIInv, LockTypeOK, LockFile, Proceed
  <1>2. LockTypeOK'
    BY <1>1 DEF LockIInv, LockTypeOK, LockFile, Proceed, Places
  <1>3. ASSUME NEW n \in Paths, n \in locked'
        PROVE  \E v \in Workers : Using(v)' /\ path'[v] = n
    <2>1. CASE n = path[w]
      BY <2>1 DEF LockIInv, LockTypeOK, LockFile, Proceed, Using
    <2>2. CASE n # path[w]
      <3>1. PICK v \in Workers : Using(v) /\ path[v] = n
        BY <1>3, <2>2 DEF LockIInv, LockBacked, LockFile
      <3> QED BY <3>1, <2>2 DEF LockIInv, LockTypeOK, LockFile, Proceed, Using
    <2> QED BY <2>1, <2>2
  <1>4. ASSUME NEW n \in Paths
        PROVE  n \in locked' <=> notice'[n] = "lock"
    BY <1>1 DEF LockIInv, LockTypeOK, LockBacked, LockFile
  <1> QED BY <1>2, <1>3, <1>4 DEF LockIInv, LockBacked

\* A task that unlocks frees its own path; the users of other paths stay.
LEMMA UnlockFileStep ==
    ASSUME LockIInv, NEW w \in Workers, UnlockFile(w)
    PROVE  LockIInv'
  <1>1. path[w] \in Paths
    BY DEF LockIInv, LockTypeOK, UnlockFile, Proceed
  <1>2. LockTypeOK'
    BY <1>1 DEF LockIInv, LockTypeOK, UnlockFile, Proceed, Places
  <1>3. ASSUME NEW n \in Paths, n \in locked'
        PROVE  \E v \in Workers : Using(v)' /\ path'[v] = n
    <2>1. n # path[w] /\ n \in locked
      BY <1>3 DEF UnlockFile
    <2>2. PICK v \in Workers : Using(v) /\ path[v] = n
      BY <2>1 DEF LockIInv, LockBacked
    <2> QED BY <2>1, <2>2 DEF LockIInv, LockTypeOK, UnlockFile, Proceed, Using
  <1>4. ASSUME NEW n \in Paths
        PROVE  n \in locked' <=> notice'[n] = "lock"
    BY <1>1 DEF LockIInv, LockTypeOK, LockBacked, UnlockFile
  <1> QED BY <1>2, <1>3, <1>4 DEF LockIInv, LockBacked

\* The invariant is inductive.
LEMMA LockStepIInv == LockIInv /\ [LockNext]_lockVars => LockIInv'
  <1> SUFFICES ASSUME LockIInv, [LockNext]_lockVars PROVE LockIInv'
    OBVIOUS
  <1>1. CASE UNCHANGED lockVars
    BY <1>1 DEF LockIInv, LockTypeOK, LockBacked, Using, lockVars
  <1>2. ASSUME NEW w \in Workers, StartTask(w) \/ TaskStep(w)
        PROVE  LockIInv'
    BY <1>2, QuietTask, LockFileStep, UnlockFileStep DEF TaskStep
  <1> QED BY <1>1, <1>2 DEF LockNext

\* The invariant holds throughout.
LEMMA LockInvariance == LockSpec => []LockIInv
  BY LockInitIInv, LockStepIInv, PTL DEF LockSpec

\* Every variable keeps its type, and a task at a lock has a path.
THEOREM LocksTyped == LockSpec => []LockTypeOK
  <1>1. LockIInv => LockTypeOK
    BY DEF LockIInv
  <1> QED BY LockInvariance, <1>1, PTL

\* No path stays locked without a task at work on it, although a task may
\* release the lock of another.
THEOREM NoOrphanedLock == LockSpec => []LockBacked
  <1>1. LockIInv => LockBacked
    BY DEF LockIInv
  <1> QED BY LockInvariance, <1>1, PTL

(***************************************************************************)
(* The folder creation lock                                                *)
(***************************************************************************)
\* The folders a walk has passed have rows, and lead to where it is.
Covered(w) ==
    \E W \in SUBSET RowIds :
        /\ target[w] \in W \cup {id[w]}
        /\ \A i \in W : posts[i].parent \in W \cup {id[w]}

Walked ==
    \A w \in Walkers :
        /\ pc[w] # "idle" => target[w] \in DOMAIN posts /\ Covered(w)
        /\ pc[w] = "valid" => id[w] = Root
        /\ pc[w] \in {"wait", "lock", "locked"} =>
              /\ id[w] \in DOMAIN posts
              /\ slot[w] = Folder(posts[id[w]].name, posts[id[w]].parent)

FolderIInv == TypeOK /\ SlotBacked /\ OneRowPerPost /\ PostsRecorded /\ Walked

\* A thread at rest has a folder record all the same.
LEMMA NoFolderType == NoFolder \in [name : Names, parent : Ids]
  BY FolderCreationAssumption DEF NoFolder, Folder, Ids

\* Nobody is at work, no folder is known.
LEMMA FolderInitIInv == Init => FolderIInv
  <1> SUFFICES ASSUME Init PROVE FolderIInv
    OBVIOUS
  <1>1. TypeOK
    BY NoFolderType DEF Init, TypeOK, CreatorPcs, WalkerPcs, Ids, Threads
  <1>2. SlotBacked /\ OneRowPerPost /\ PostsRecorded
    BY DEF Init, SlotBacked, OneRowPerPost, PostsRecorded
  <1>3. Walked
    BY DEF Init, Walked, Threads
  <1> QED BY <1>1, <1>2, <1>3 DEF FolderIInv

\* A walk that is not moved on keeps its cover when rows and posts are added.
LEMMA CoverKept ==
    ASSUME NEW w, Covered(w), RowIds \subseteq RowIds',
           \A i \in RowIds : posts'[i] = posts[i],
           id'[w] = id[w], target'[w] = target[w]
    PROVE  Covered(w)'
  <1>1. PICK W \in SUBSET RowIds :
            /\ target[w] \in W \cup {id[w]}
            /\ \A i \in W : posts[i].parent \in W \cup {id[w]}
    BY DEF Covered
  <1>2. W \in SUBSET RowIds' /\ \A i \in W : posts'[i].parent \in W \cup {id'[w]}
    BY <1>1
  <1> QED BY <1>1, <1>2 DEF Covered

\* The same, of all walks at a step that neither posts nor inserts.
LEMMA CoversKept ==
    ASSUME FolderIInv, UNCHANGED <<posts, rows>>, NEW w \in Walkers,
           pc[w] # "idle", id'[w] = id[w], target'[w] = target[w]
    PROVE  Covered(w)'
  <1>1. RowIds' = RowIds
    BY DEF RowIds
  <1>2. Covered(w)
    BY DEF FolderIInv, Walked
  <1> QED BY <1>1, <1>2, CoverKept

\* A creator begins, looks, fails to post, goes on to the next name or ends.
LEMMA CreatorQuietStep ==
    ASSUME FolderIInv, NEW c \in Creators,
           StartPath(c) \/ FindFolder(c) \/ MissFolder(c) \/ PostFails(c) \/ EndPath(c)
    PROVE  FolderIInv'
  <1> USE FolderCreationAssumption
  <1>0. c \in Threads /\ c \notin Walkers
    BY DEF Threads
  <1>1. TypeOK'
    <2>1. CASE StartPath(c)
      <3>1. PICK names \in PathsOf[c] :
              /\ slot' = [slot EXCEPT ![c] = Folder(Head(names), Root)]
              /\ rest' = [rest EXCEPT ![c] = Tail(names)]
        BY <2>1 DEF StartPath
      <3>2. names \in Seq(Names) /\ names # << >>
        OBVIOUS
      <3>3. Head(names) \in Names /\ Tail(names) \in Seq(Names)
        BY <3>2
      <3>4. Folder(Head(names), Root) \in [name : Names, parent : Ids]
        BY <3>3 DEF Folder, Root, Ids
      <3> QED
        BY <1>0, <2>1, <3>1, <3>3, <3>4
        DEF StartPath, Move, FolderIInv, TypeOK, CreatorPcs, WalkerPcs, Threads
    <2>2. CASE ~StartPath(c)
      BY <1>0, <2>2
      DEF FindFolder, MissFolder, PostFails, EndPath, Move, FolderIInv, TypeOK, CreatorPcs,
          WalkerPcs, Threads
    <2> QED BY <2>1, <2>2
  <1>2. UNCHANGED <<slots, posts, rows, id, target>>
    BY DEF StartPath, FindFolder, MissFolder, PostFails, EndPath
  <1>3. /\ pc[c] \in {"idle", "locked", "post", "unlocked"}
        /\ pc' = [pc EXCEPT ![c] = pc'[c]]
        /\ pc'[c] \in {"wait", "unlock", "post", "valid"}
        /\ pc[c] \in {"locked", "post"} => pc'[c] \in {"unlock", "post"} /\ slot' = slot
        /\ slot' = [slot EXCEPT ![c] = slot'[c]]
    BY <1>0 DEF StartPath, FindFolder, MissFolder, PostFails, EndPath, Move, FolderIInv, TypeOK
  <1>4. SlotBacked'
    BY <1>0, <1>2, <1>3 DEF FolderIInv, TypeOK, SlotBacked, Inside
  <1>5. OneRowPerPost' /\ PostsRecorded'
    <2>1. OneRowPerPost'
      BY <1>2 DEF FolderIInv, OneRowPerPost
    <2>2. \A d \in Creators : pc[d] = "insert" => pc'[d] = "insert"
      BY <1>0, <1>3 DEF FolderIInv, TypeOK, Threads
    <2>3. PostsRecorded'
      BY <1>2, <2>2 DEF FolderIInv, PostsRecorded, RowIds
    <2> QED BY <2>1, <2>3
  <1>6. Walked'
    <2> SUFFICES ASSUME NEW w \in Walkers
                 PROVE  /\ pc'[w] = pc[w] /\ slot'[w] = slot[w]
                        /\ pc[w] # "idle" => Covered(w)'
      BY <1>2 DEF FolderIInv, Walked
    <2>1. pc'[w] = pc[w] /\ slot'[w] = slot[w]
      BY <1>0, <1>3 DEF FolderIInv, TypeOK, Threads
    <2>2. pc[w] # "idle" => Covered(w)'
      BY <1>2, CoversKept
    <2> QED BY <2>1, <2>2
  <1> QED BY <1>1, <1>4, <1>5, <1>6 DEF FolderIInv

\* A new post changes neither the older ones nor anybody else's place.
LEMMA AppendFacts ==
    ASSUME NEW S, NEW s \in Seq(S), NEW e \in S
    PROVE  /\ Append(s, e) \in Seq(S)
           /\ Len(s) \in Nat
           /\ DOMAIN s = 1..Len(s)
           /\ DOMAIN Append(s, e) = 1..(Len(s) + 1)
           /\ \A i \in DOMAIN s : Append(s, e)[i] = s[i]
           /\ Append(s, e)[Len(s) + 1] = e
  OBVIOUS

\* What a post does to the invariants, whoever makes it.
LEMMA PostKeeps ==
    ASSUME FolderIInv, NEW e \in [name : Names, parent : Ids, own : BOOLEAN],
           posts' = Append(posts, e), UNCHANGED <<slots, rows, slot, rest, target>>
    PROVE  /\ DOMAIN posts \subseteq DOMAIN posts'
           /\ \A i \in DOMAIN posts : posts'[i] = posts[i]
           /\ Len(posts) + 1 \in DOMAIN posts'
           /\ posts'[Len(posts) + 1] = e
           /\ DOMAIN posts' = DOMAIN posts \cup {Len(posts) + 1}
           /\ OneRowPerPost'
           /\ \A w \in Walkers : pc[w] # "idle" /\ id'[w] = id[w] =>
                target[w] \in DOMAIN posts' /\ Covered(w)'
  <1>1. posts \in Seq([name : Names, parent : Ids, own : BOOLEAN])
    BY DEF FolderIInv, TypeOK
  <1>2. /\ DOMAIN posts' = DOMAIN posts \cup {Len(posts) + 1}
        /\ \A i \in DOMAIN posts : posts'[i] = posts[i]
        /\ posts'[Len(posts) + 1] = e
    BY <1>1, AppendFacts
  <1>3. OneRowPerPost'
    BY <1>2 DEF FolderIInv, OneRowPerPost
  <1>4. ASSUME NEW w \in Walkers, pc[w] # "idle", id'[w] = id[w]
        PROVE  target[w] \in DOMAIN posts' /\ Covered(w)'
    <2>1. Covered(w) /\ target[w] \in DOMAIN posts
      BY <1>4 DEF FolderIInv, Walked
    <2>2. RowIds' = RowIds
      BY DEF RowIds
    <2>3. \A i \in RowIds : posts'[i] = posts[i]
      BY <1>2 DEF FolderIInv, OneRowPerPost, RowIds
    <2> QED BY <1>2, <1>4, <2>1, <2>2, <2>3, CoverKept
  <1> QED BY <1>2, <1>3, <1>4

\* A creator posts a folder: the post is recorded by its going to insert it.
LEMMA PostFolderStep ==
    ASSUME FolderIInv, NEW c \in Creators, PostFolder(c)
    PROVE  FolderIInv'
  <1> USE FolderCreationAssumption
  <1> DEFINE e == [name |-> slot[c].name, parent |-> slot[c].parent, own |-> TRUE]
  <1>0. c \in Threads /\ c \notin Walkers
    BY DEF Threads
  <1>1. /\ pc[c] = "post" /\ pc' = [pc EXCEPT ![c] = "insert"]
        /\ posts' = Append(posts, e)
        /\ id' = [id EXCEPT ![c] = Len(posts) + 1]
        /\ UNCHANGED <<slots, rows, slot, rest, target>>
    BY DEF PostFolder, Move
  <1>2. slot[c] \in [name : Names, parent : Ids]
    BY <1>0 DEF FolderIInv, TypeOK
  <1>3. e \in [name : Names, parent : Ids, own : BOOLEAN]
    BY <1>2
  <1>4. /\ posts \in Seq([name : Names, parent : Ids, own : BOOLEAN])
        /\ posts' \in Seq([name : Names, parent : Ids, own : BOOLEAN])
        /\ Len(posts) + 1 \in Nat
    BY <1>1, <1>3, AppendFacts DEF FolderIInv, TypeOK
  <1>5. /\ \A i \in DOMAIN posts : posts'[i] = posts[i]
        /\ posts'[Len(posts) + 1] = e
        /\ DOMAIN posts' = DOMAIN posts \cup {Len(posts) + 1}
        /\ OneRowPerPost'
        /\ \A w \in Walkers : pc[w] # "idle" /\ id'[w] = id[w] =>
             target[w] \in DOMAIN posts' /\ Covered(w)'
    BY <1>1, <1>3, PostKeeps
  <1>6. TypeOK'
    <2>1. \A t \in Threads : pc'[t] \in {"insert", "plain", "aliased"} =>
            /\ id'[t] \in DOMAIN posts'
            /\ slot'[t] = Folder(posts'[id'[t]].name, posts'[id'[t]].parent)
      <3> TAKE t \in Threads
      <3>1. CASE t = c
        BY <1>0, <1>1, <1>2, <1>5, <3>1 DEF FolderIInv, TypeOK, Folder
      <3>2. CASE t # c
        BY <1>0, <1>1, <1>5, <3>2 DEF FolderIInv, TypeOK
      <3> QED BY <3>1, <3>2
    <2> QED
      BY <1>0, <1>1, <1>4, <2>1 DEF FolderIInv, TypeOK, CreatorPcs, WalkerPcs, Threads, Ids
  <1>7. SlotBacked'
    BY <1>0, <1>1 DEF FolderIInv, TypeOK, SlotBacked, Inside
  <1>8. PostsRecorded'
    <2>1. id'[c] = Len(posts) + 1 /\ pc'[c] = "insert"
      BY <1>0, <1>1 DEF FolderIInv, TypeOK
    <2>2. \A d \in Creators : pc[d] = "insert" => pc'[d] = "insert" /\ id'[d] = id[d]
      BY <1>0, <1>1 DEF FolderIInv, TypeOK
    <2> QED BY <1>1, <1>5, <2>1, <2>2 DEF FolderIInv, PostsRecorded, RowIds
  <1>9. Walked'
    <2> SUFFICES ASSUME NEW w \in Walkers
                 PROVE  /\ pc'[w] = pc[w] /\ id'[w] = id[w] /\ slot'[w] = slot[w]
                        /\ pc[w] # "idle" => target'[w] \in DOMAIN posts' /\ Covered(w)'
                        /\ id[w] \in DOMAIN posts =>
                              id[w] \in DOMAIN posts' /\ posts'[id[w]] = posts[id[w]]
      BY DEF FolderIInv, Walked
    <2>1. pc'[w] = pc[w] /\ id'[w] = id[w] /\ slot'[w] = slot[w]
      BY <1>0, <1>1 DEF FolderIInv, TypeOK, Threads
    <2> QED BY <1>1, <1>5, <2>1
  <1> QED BY <1>5, <1>6, <1>7, <1>8, <1>9 DEF FolderIInv

\* A creator's post arrives and the answer does not: nobody records it.
LEMMA PostUnansweredStep ==
    ASSUME FolderIInv, NEW c \in Creators, PostUnanswered(c)
    PROVE  FolderIInv'
  <1> USE FolderCreationAssumption
  <1> DEFINE e == [name |-> slot[c].name, parent |-> slot[c].parent, own |-> FALSE]
  <1>0. c \in Threads /\ c \notin Walkers
    BY DEF Threads
  <1>1. /\ pc[c] = "post" /\ pc' = [pc EXCEPT ![c] = "unlock"]
        /\ posts' = Append(posts, e)
        /\ UNCHANGED <<slots, rows, slot, rest, id, target>>
    BY DEF PostUnanswered, Move
  <1>2. slot[c] \in [name : Names, parent : Ids]
    BY <1>0 DEF FolderIInv, TypeOK
  <1>3. e \in [name : Names, parent : Ids, own : BOOLEAN]
    BY <1>2
  <1>4. posts' \in Seq([name : Names, parent : Ids, own : BOOLEAN])
    BY <1>1, <1>3, AppendFacts DEF FolderIInv, TypeOK
  <1>5. /\ \A i \in DOMAIN posts : posts'[i] = posts[i]
        /\ posts'[Len(posts) + 1] = e
        /\ DOMAIN posts' = DOMAIN posts \cup {Len(posts) + 1}
        /\ OneRowPerPost'
        /\ \A w \in Walkers : pc[w] # "idle" /\ id'[w] = id[w] =>
             target[w] \in DOMAIN posts' /\ Covered(w)'
    BY <1>1, <1>3, PostKeeps
  <1>6. pc'[c] = "unlock" /\ \A t \in Threads : t # c => pc'[t] = pc[t]
    BY <1>0, <1>1 DEF FolderIInv, TypeOK
  <1>7. TypeOK'
    <2>1. \A t \in Threads : pc'[t] \in {"insert", "plain", "aliased"} =>
            /\ id'[t] \in DOMAIN posts'
            /\ slot'[t] = Folder(posts'[id'[t]].name, posts'[id'[t]].parent)
      BY <1>1, <1>5, <1>6 DEF FolderIInv, TypeOK
    <2> QED
      BY <1>0, <1>1, <1>4, <1>6, <2>1 DEF FolderIInv, TypeOK, CreatorPcs, WalkerPcs, Threads
  <1>8. SlotBacked'
    BY <1>0, <1>1, <1>6 DEF FolderIInv, SlotBacked, Inside
  <1>9. PostsRecorded'
    BY <1>1, <1>5, <1>6 DEF FolderIInv, PostsRecorded, RowIds, Threads
  <1>10. Walked'
    BY <1>0, <1>1, <1>5, <1>6 DEF FolderIInv, Walked, Threads
  <1> QED BY <1>5, <1>7, <1>8, <1>9, <1>10 DEF FolderIInv

\* Another client posts a folder.
LEMMA PostElsewhereStep == ASSUME FolderIInv, PostElsewhere PROVE FolderIInv'
  <1> USE FolderCreationAssumption
  <1>1. PICK name \in Names, parent \in {Root} \cup DOMAIN posts :
          posts' = Append(posts, [name |-> name, parent |-> parent, own |-> FALSE])
    BY DEF PostElsewhere
  <1> DEFINE e == [name |-> name, parent |-> parent, own |-> FALSE]
  <1>2. UNCHANGED <<slots, rows, pc, slot, rest, id, target>>
    BY DEF PostElsewhere
  <1>3. e \in [name : Names, parent : Ids, own : BOOLEAN]
    BY DEF Ids, Root, FolderIInv, TypeOK
  <1>4. posts' \in Seq([name : Names, parent : Ids, own : BOOLEAN])
    BY <1>1, <1>3, AppendFacts DEF FolderIInv, TypeOK
  <1>5. /\ \A i \in DOMAIN posts : posts'[i] = posts[i]
        /\ posts'[Len(posts) + 1] = e
        /\ DOMAIN posts' = DOMAIN posts \cup {Len(posts) + 1}
        /\ OneRowPerPost'
        /\ \A w \in Walkers : pc[w] # "idle" /\ id'[w] = id[w] =>
             target[w] \in DOMAIN posts' /\ Covered(w)'
    BY <1>1, <1>2, <1>3, PostKeeps
  <1>6. TypeOK'
    <2>1. \A t \in Threads : pc'[t] \in {"insert", "plain", "aliased"} =>
            /\ id'[t] \in DOMAIN posts'
            /\ slot'[t] = Folder(posts'[id'[t]].name, posts'[id'[t]].parent)
      BY <1>2, <1>5 DEF FolderIInv, TypeOK
    <2> QED BY <1>2, <1>4, <2>1 DEF FolderIInv, TypeOK
  <1>7. SlotBacked'
    BY <1>2 DEF FolderIInv, SlotBacked, Inside
  <1>8. PostsRecorded'
    BY <1>2, <1>5 DEF FolderIInv, PostsRecorded, RowIds
  <1>9. Walked'
    BY <1>2, <1>5 DEF FolderIInv, Walked
  <1> QED BY <1>5, <1>6, <1>7, <1>8, <1>9 DEF FolderIInv

\* The elements of a sequence.
LEMMA ElementFacts ==
    ASSUME NEW S, NEW s \in Seq(S), NEW i \in DOMAIN s
    PROVE  s[i] \in S /\ i \in Nat
  <1>1. DOMAIN s = 1..Len(s) /\ Len(s) \in Nat
    OBVIOUS
  <1> QED BY <1>1

\* CreateFolderEntry for a post that is there: one more row, if it has none.
LEMMA RowKeeps ==
    ASSUME FolderIInv, UNCHANGED posts, NEW i \in DOMAIN posts, NEW f, NEW a \in BOOLEAN,
           f = Folder(posts[i].name, posts[i].parent), rows' = WithRow(i, f, a)
    PROVE  /\ RowIds' = RowIds \cup {i}
           /\ rows' \subseteq [id : Nat, name : Names, parent : Ids, aliased : BOOLEAN]
           /\ OneRowPerPost'
           /\ \A w \in Walkers : pc[w] # "idle" /\ id'[w] = id[w] /\ target'[w] = target[w]
                => Covered(w)'
  <1>1. RowIds' = RowIds \cup {i}
    <2>1. CASE i \in RowIds
      BY <2>1 DEF RowIds, WithRow
    <2>2. CASE i \notin RowIds
      <3> DEFINE r == [id |-> i, name |-> f.name, parent |-> f.parent, aliased |-> a]
      <3>1. rows' = rows \cup {r} /\ r.id = i
        BY <2>2 DEF WithRow
      <3> HIDE DEF r
      <3>2. { s.id : s \in rows \cup {r} } = { s.id : s \in rows } \cup {i}
        BY <3>1
      <3> QED BY <3>1, <3>2 DEF RowIds
    <2> QED BY <2>1, <2>2
  <1>2. /\ posts \in Seq([name : Names, parent : Ids, own : BOOLEAN])
        /\ rows \subseteq [id : Nat, name : Names, parent : Ids, aliased : BOOLEAN]
    BY DEF FolderIInv, TypeOK
  <1>3. /\ posts[i] \in [name : Names, parent : Ids, own : BOOLEAN]
        /\ i \in Nat
    BY <1>2, ElementFacts
  <1>4. rows' \subseteq [id : Nat, name : Names, parent : Ids, aliased : BOOLEAN]
    BY <1>2, <1>3 DEF WithRow, Folder
  <1>5. OneRowPerPost'
    BY DEF FolderIInv, OneRowPerPost, WithRow, RowIds, Folder
  <1>6. ASSUME NEW w \in Walkers, pc[w] # "idle", id'[w] = id[w], target'[w] = target[w]
        PROVE  Covered(w)'
    <2>1. Covered(w)
      BY <1>6 DEF FolderIInv, Walked
    <2> QED BY <1>1, <1>6, <2>1, CoverKept
  <1> QED BY <1>1, <1>4, <1>5, <1>6

\* A creator makes the row of its post.
LEMMA InsertEntryStep ==
    ASSUME FolderIInv, NEW c \in Creators, InsertEntry(c)
    PROVE  FolderIInv'
  <1> USE FolderCreationAssumption
  <1>0. c \in Threads /\ c \notin Walkers
    BY DEF Threads
  <1>1. /\ pc[c] = "insert" /\ pc' = [pc EXCEPT ![c] = "unlock"]
        /\ rows' = WithRow(id[c], slot[c], FALSE)
        /\ id' = [id EXCEPT ![c] = id'[c]]
        /\ id'[c] \in {NoId, id[c]}
        /\ UNCHANGED <<slots, posts, slot, rest, target>>
    BY <1>0 DEF InsertEntry, Move, FolderIInv, TypeOK
  <1>2. id[c] \in DOMAIN posts /\ slot[c] = Folder(posts[id[c]].name, posts[id[c]].parent)
    BY <1>0, <1>1 DEF FolderIInv, TypeOK
  <1>3. /\ RowIds' = RowIds \cup {id[c]}
        /\ rows' \subseteq [id : Nat, name : Names, parent : Ids, aliased : BOOLEAN]
        /\ OneRowPerPost'
        /\ \A w \in Walkers : pc[w] # "idle" /\ id'[w] = id[w] /\ target'[w] = target[w]
                => Covered(w)'
    BY <1>1, <1>2, RowKeeps
  <1>4. \A t \in Threads : t # c => pc'[t] = pc[t] /\ id'[t] = id[t]
    BY <1>1 DEF FolderIInv, TypeOK
  <1>5. pc'[c] = "unlock"
    BY <1>0, <1>1 DEF FolderIInv, TypeOK
  <1>6. TypeOK'
    BY <1>0, <1>1, <1>3, <1>4, <1>5 DEF FolderIInv, TypeOK, CreatorPcs, WalkerPcs, Threads, Ids
  <1>7. SlotBacked'
    BY <1>1, <1>4, <1>5 DEF FolderIInv, SlotBacked, Inside
  <1>8. PostsRecorded'
    BY <1>1, <1>3, <1>4 DEF FolderIInv, PostsRecorded, Threads
  <1>9. Walked'
    BY <1>0, <1>1, <1>3, <1>4 DEF FolderIInv, Walked, Threads
  <1> QED BY <1>3, <1>6, <1>7, <1>8, <1>9 DEF FolderIInv

\* A creator goes on to the next name of its path.
LEMMA NextNameStep ==
    ASSUME FolderIInv, NEW c \in Creators, NextName(c)
    PROVE  FolderIInv'
  <1> USE FolderCreationAssumption
  <1>0. c \in Threads /\ c \notin Walkers
    BY DEF Threads
  <1>1. PICK parent \in ParentIds(c) :
          slot' = [slot EXCEPT ![c] = Folder(Head(rest[c]), parent)]
    BY DEF NextName
  <1>2. /\ pc[c] = "unlocked" /\ pc' = [pc EXCEPT ![c] = "wait"]
        /\ rest[c] # << >> /\ rest' = [rest EXCEPT ![c] = Tail(@)]
        /\ id' = [id EXCEPT ![c] = NoId]
        /\ UNCHANGED <<slots, posts, rows, target>>
    BY DEF NextName, Move
  <1>3. parent \in Ids
    BY <1>0 DEF ParentIds, RowsFor, FolderIInv, TypeOK, Ids
  <1>4. rest[c] \in Seq(Names)
    BY <1>0 DEF FolderIInv, TypeOK
  <1>5. Head(rest[c]) \in Names /\ Tail(rest[c]) \in Seq(Names)
    BY <1>2, <1>4
  <1>6. Folder(Head(rest[c]), parent) \in [name : Names, parent : Ids]
    BY <1>3, <1>5 DEF Folder
  <1>7. /\ pc'[c] = "wait"
        /\ \A t \in Threads : t # c =>
             pc'[t] = pc[t] /\ id'[t] = id[t] /\ slot'[t] = slot[t]
    BY <1>0, <1>1, <1>2 DEF FolderIInv, TypeOK
  <1>8. TypeOK'
    BY <1>0, <1>1, <1>2, <1>5, <1>6, <1>7
    DEF FolderIInv, TypeOK, CreatorPcs, WalkerPcs, Threads, Ids
  <1>9. SlotBacked' /\ OneRowPerPost'
    BY <1>2, <1>7 DEF FolderIInv, SlotBacked, OneRowPerPost, Inside
  <1>10. PostsRecorded'
    BY <1>2, <1>7 DEF FolderIInv, PostsRecorded, RowIds, Threads
  <1>11. Walked'
    <2>1. \A w \in Walkers : pc[w] # "idle" => Covered(w)'
      BY <1>0, <1>2, <1>7, CoversKept DEF Threads
    <2> QED BY <1>0, <1>2, <1>7, <2>1 DEF FolderIInv, Walked, Threads
  <1> QED BY <1>8, <1>9, <1>10, <1>11 DEF FolderIInv

\* fcl: wait, lock, unlock; and a caller that returns.
LEMMA LockStep ==
    ASSUME FolderIInv, NEW t \in Threads, Lock(t)
    PROVE  FolderIInv'
  <1> USE FolderCreationAssumption
  <1>1. /\ UNCHANGED <<posts, rows, slot, rest, id, target>>
        /\ pc' = [pc EXCEPT ![t] = pc'[t]]
        /\ pc[t] \in {"wait", "lock", "unlock"}
    BY DEF Lock, WaitSlot, LockSlot, UnlockSlot, Move, FolderIInv, TypeOK
  <1>2. \A u \in Threads : u # t => pc'[u] = pc[u]
    BY <1>1 DEF FolderIInv, TypeOK
  <1>3. \/ pc[t] = "wait" /\ pc'[t] = "lock" /\ slots' = slots
        \/ pc[t] = "lock" /\ pc'[t] = "locked" /\ slots' = slots \cup {slot[t]}
        \/ /\ pc[t] = "unlock" /\ slots' = slots \ {slot[t]}
           /\ pc'[t] = IF t \in Creators THEN "unlocked" ELSE "walk"
    BY DEF Lock, WaitSlot, LockSlot, UnlockSlot, Move, FolderIInv, TypeOK
  <1>4. TypeOK'
    <2>1. slots' \subseteq [name : Names, parent : Ids]
      BY <1>3 DEF FolderIInv, TypeOK
    <2> QED
      BY <1>1, <1>2, <1>3, <2>1 DEF FolderIInv, TypeOK, CreatorPcs, WalkerPcs, Threads
  <1>5. SlotBacked'
    <2> SUFFICES ASSUME NEW f \in slots'
                 PROVE  \E u \in Threads : Inside(u)' /\ slot[u] = f
      BY <1>1 DEF SlotBacked
    <2>1. CASE f \in slots /\ ~(pc[t] = "unlock" /\ f = slot[t])
      <3>1. PICK u \in Threads : Inside(u) /\ slot[u] = f
        BY <2>1 DEF FolderIInv, SlotBacked
      <3>2. u # t
        BY <1>3, <2>1, <3>1 DEF Inside
      <3> QED BY <1>2, <3>1, <3>2 DEF Inside
    <2>2. CASE f = slot[t] /\ pc'[t] = "locked"
      BY <2>2 DEF Inside
    <2> QED BY <1>3, <2>1, <2>2
  <1>6. OneRowPerPost' /\ PostsRecorded'
    <2>1. OneRowPerPost'
      BY <1>1 DEF FolderIInv, OneRowPerPost
    <2>2. PostsRecorded'
      BY <1>1, <1>2 DEF FolderIInv, PostsRecorded, RowIds, Threads
    <2> QED BY <2>1, <2>2
  <1>7. Walked'
    <2> SUFFICES ASSUME NEW w \in Walkers
                 PROVE  /\ pc'[w] # "idle" => target[w] \in DOMAIN posts /\ Covered(w)'
                        /\ pc'[w] = "valid" => id[w] = Root
                        /\ pc'[w] \in {"wait", "lock", "locked"} =>
                              /\ id[w] \in DOMAIN posts
                              /\ slot[w] = Folder(posts[id[w]].name, posts[id[w]].parent)
      BY <1>1 DEF Walked
    <2>1. w \in Threads
      BY DEF Threads
    <2>2. pc[w] # "idle" => Covered(w)'
      BY <1>1, CoversKept
    <2> QED BY <1>1, <1>2, <1>3, <2>1, <2>2 DEF FolderIInv, Walked
  <1> QED BY <1>4, <1>5, <1>6, <1>7 DEF FolderIInv

\* A walker begins, gets a post or fails to, looks, or ends: nothing is
\* written.
LEMMA WalkerQuietStep ==
    ASSUME FolderIInv, NEW w \in Walkers,
           RetrievePost(w) \/ KnownById(w) \/ LookUpName(w) \/ EndWalk(w)
    PROVE  FolderIInv'
  <1> USE FolderCreationAssumption
  <1>0. w \in Threads /\ w \notin Creators
    BY DEF Threads
  <1>1. /\ UNCHANGED <<slots, posts, rows, rest, id, target>>
        /\ pc' = [pc EXCEPT ![w] = pc'[w]]
        /\ slot' = [slot EXCEPT ![w] = slot'[w]]
    BY <1>0 DEF RetrievePost, KnownById, LookUpName, EndWalk, Move, FolderIInv, TypeOK
  <1>2. \A u \in Threads : u # w => pc'[u] = pc[u] /\ slot'[u] = slot[u]
    BY <1>1 DEF FolderIInv, TypeOK
  <1>3. \/ /\ pc[w] = "walk" /\ pc'[w] = "wait" /\ id[w] \in DOMAIN posts
           /\ slot'[w] = Folder(posts[id[w]].name, posts[id[w]].parent)
        \/ /\ pc[w] = "locked" /\ pc'[w] \in {"unlock", "plain", "aliased"}
           /\ slot'[w] = slot[w]
        \/ /\ pc[w] = "walk" /\ pc'[w] = "valid" /\ id[w] = Root /\ slot'[w] = slot[w]
    BY <1>0 DEF RetrievePost, KnownById, LookUpName, EndWalk, Move, FolderIInv, TypeOK
  <1>4. posts \in Seq([name : Names, parent : Ids, own : BOOLEAN])
    BY DEF FolderIInv, TypeOK
  <1>5. slot'[w] \in [name : Names, parent : Ids]
    <2>1. CASE pc'[w] = "wait"
      <3>1. posts[id[w]] \in [name : Names, parent : Ids, own : BOOLEAN]
        BY <1>3, <1>4, <2>1, ElementFacts
      <3> QED BY <1>3, <2>1, <3>1 DEF Folder
    <2>2. CASE pc'[w] # "wait"
      BY <1>0, <1>3, <2>2 DEF FolderIInv, TypeOK
    <2> QED BY <2>1, <2>2
  <1>6. TypeOK'
    <2>1. \A t \in Threads : pc'[t] \in {"insert", "plain", "aliased"} =>
            /\ id'[t] \in DOMAIN posts'
            /\ slot'[t] = Folder(posts'[id'[t]].name, posts'[id'[t]].parent)
      BY <1>1, <1>2, <1>3 DEF FolderIInv, TypeOK, Walked
    <2>2. pc'[w] \in WalkerPcs
      BY <1>3 DEF WalkerPcs
    <2> QED BY <1>0, <1>1, <1>2, <1>5, <2>1, <2>2 DEF FolderIInv, TypeOK, Threads
  <1>7. SlotBacked'
    BY <1>1, <1>2, <1>3 DEF FolderIInv, SlotBacked, Inside
  <1>8. OneRowPerPost' /\ PostsRecorded'
    <2>1. OneRowPerPost'
      BY <1>1 DEF FolderIInv, OneRowPerPost
    <2>2. PostsRecorded'
      BY <1>0, <1>1, <1>2 DEF FolderIInv, PostsRecorded, RowIds, Threads
    <2> QED BY <2>1, <2>2
  <1>9. Walked'
    <2>1. \A v \in Walkers : pc[v] # "idle" => Covered(v)'
      BY <1>1, CoversKept
    <2>2. \A v \in Walkers : v # w => pc'[v] = pc[v] /\ slot'[v] = slot[v]
      BY <1>2 DEF Threads
    <2> QED BY <1>1, <1>3, <2>1, <2>2 DEF FolderIInv, Walked
  <1> QED BY <1>6, <1>7, <1>8, <1>9 DEF FolderIInv

\* A walker makes the row of the post it is at.
LEMMA InsertPostStep ==
    ASSUME FolderIInv, NEW w \in Walkers, InsertPlain(w) \/ InsertAliased(w)
    PROVE  FolderIInv'
  <1> USE FolderCreationAssumption
  <1>0. w \in Threads /\ w \notin Creators
    BY DEF Threads
  <1>1. PICK a \in BOOLEAN : rows' = WithRow(id[w], slot[w], a)
    BY DEF InsertPlain, InsertAliased
  <1>2. /\ pc[w] \in {"plain", "aliased"} /\ pc' = [pc EXCEPT ![w] = "unlock"]
        /\ UNCHANGED <<slots, posts, slot, rest, id, target>>
    BY DEF InsertPlain, InsertAliased, Move
  <1>3. id[w] \in DOMAIN posts /\ slot[w] = Folder(posts[id[w]].name, posts[id[w]].parent)
    BY <1>0, <1>2 DEF FolderIInv, TypeOK
  <1>4. /\ RowIds' = RowIds \cup {id[w]}
        /\ rows' \subseteq [id : Nat, name : Names, parent : Ids, aliased : BOOLEAN]
        /\ OneRowPerPost'
        /\ \A v \in Walkers : pc[v] # "idle" /\ id'[v] = id[v] /\ target'[v] = target[v]
                => Covered(v)'
    BY <1>1, <1>2, <1>3, RowKeeps
  <1>5. /\ pc'[w] = "unlock"
        /\ \A t \in Threads : t # w => pc'[t] = pc[t]
    BY <1>0, <1>2 DEF FolderIInv, TypeOK
  <1>6. TypeOK'
    BY <1>0, <1>2, <1>4, <1>5 DEF FolderIInv, TypeOK, CreatorPcs, WalkerPcs, Threads
  <1>7. SlotBacked'
    BY <1>2, <1>5 DEF FolderIInv, SlotBacked, Inside
  <1>8. PostsRecorded'
    BY <1>0, <1>2, <1>4, <1>5 DEF FolderIInv, PostsRecorded, Threads
  <1>9. Walked'
    BY <1>0, <1>2, <1>4, <1>5 DEF FolderIInv, Walked, Threads
  <1> QED BY <1>4, <1>6, <1>7, <1>8, <1>9 DEF FolderIInv

\* A walker starts from a post, goes up, or gives up, and a caller returns:
\* only its own place changes.
LEMMA PlaceStep ==
    ASSUME FolderIInv, NEW t \in Threads,
           \/ t \in Walkers /\ (StartWalk(t) \/ WalkUp(t) \/ RetrieveFails(t))
           \/ Return(t)
    PROVE  FolderIInv'
  <1> USE FolderCreationAssumption
  <1>1. /\ UNCHANGED <<slots, posts, rows, rest>>
        /\ pc' = [pc EXCEPT ![t] = pc'[t]]
        /\ slot' = [slot EXCEPT ![t] = slot'[t]]
        /\ id' = [id EXCEPT ![t] = id'[t]]
        /\ target' = [target EXCEPT ![t] = target'[t]]
        /\ pc[t] \in {"idle", "walk", "valid"}
    BY DEF StartWalk, WalkUp, RetrieveFails, Return, Idle, Move, FolderIInv, TypeOK
  <1>2. \A u \in Threads : u # t =>
          /\ pc'[u] = pc[u] /\ slot'[u] = slot[u]
          /\ id'[u] = id[u] /\ target'[u] = target[u]
    BY <1>1 DEF FolderIInv, TypeOK
  <1>3. \/ /\ pc'[t] = "idle" /\ slot'[t] = NoFolder
           /\ id'[t] = NoId /\ target'[t] = NoId
        \/ /\ t \in Walkers /\ pc'[t] = "walk" /\ slot'[t] = slot[t]
           /\ id'[t] \in DOMAIN posts /\ target'[t] = id'[t]
        \/ /\ t \in Walkers /\ pc[t] = "walk" /\ pc'[t] = "walk" /\ slot'[t] = slot[t]
           /\ target'[t] = target[t]
           /\ \E r \in rows : r.id = id[t] /\ id'[t] = r.parent
    BY DEF StartWalk, WalkUp, RetrieveFails, Return, Idle, Move, FolderIInv, TypeOK
  <1>4. DOMAIN posts \subseteq Nat
    BY ElementFacts DEF FolderIInv, TypeOK
  <1>5. /\ slot'[t] \in [name : Names, parent : Ids]
        /\ id'[t] \in Ids /\ target'[t] \in Ids
    BY <1>3, <1>4, NoFolderType DEF FolderIInv, TypeOK, Ids
  <1>6. TypeOK'
    <2>1. \A u \in Threads : pc'[u] \in {"insert", "plain", "aliased"} =>
            /\ id'[u] \in DOMAIN posts'
            /\ slot'[u] = Folder(posts'[id'[u]].name, posts'[id'[u]].parent)
      BY <1>1, <1>2, <1>3 DEF FolderIInv, TypeOK
    <2>2. pc'[t] \in WalkerPcs \cap {"idle", "walk"} /\ (t \in Creators => pc'[t] = "idle")
      BY <1>3 DEF WalkerPcs
    <2> QED BY <1>1, <1>2, <1>5, <2>1, <2>2 DEF FolderIInv, TypeOK, Threads, CreatorPcs
  <1>7. SlotBacked'
    BY <1>1, <1>2 DEF FolderIInv, SlotBacked, Inside
  <1>8. OneRowPerPost' /\ PostsRecorded'
    <2>1. OneRowPerPost'
      BY <1>1 DEF FolderIInv, OneRowPerPost
    <2>2. PostsRecorded'
      BY <1>1, <1>2 DEF FolderIInv, PostsRecorded, RowIds, Threads
    <2> QED BY <2>1, <2>2
  <1>9. Walked'
    <2> SUFFICES ASSUME NEW w \in Walkers, pc'[w] # "idle"
                 PROVE  /\ target'[w] \in DOMAIN posts' /\ Covered(w)'
                        /\ pc'[w] = "valid" => id'[w] = Root
                        /\ pc'[w] \in {"wait", "lock", "locked"} =>
                              /\ id'[w] \in DOMAIN posts'
                              /\ slot'[w] = Folder(posts'[id'[w]].name, posts'[id'[w]].parent)
      BY DEF Walked
    <2>0. w \in Threads
      BY DEF Threads
    <2>1. CASE w # t
      BY <1>1, <1>2, <2>0, <2>1, CoversKept DEF FolderIInv, Walked
    <2>2. CASE w = t /\ id'[t] \in DOMAIN posts /\ target'[t] = id'[t] /\ pc'[t] = "walk"
      <3>1. Covered(w)'
        BY <2>2 DEF Covered
      <3> QED BY <1>1, <2>2, <3>1
    <2>3. CASE /\ w = t /\ pc[t] = "walk" /\ pc'[t] = "walk" /\ target'[t] = target[t]
               /\ \E r \in rows : r.id = id[t] /\ id'[t] = r.parent
      <3>1. PICK r \in rows : r.id = id[t] /\ id'[t] = r.parent
        BY <2>3
      <3>2. id[t] \in RowIds /\ posts[id[t]].parent = id'[t]
        BY <3>1 DEF RowIds, FolderIInv, OneRowPerPost
      <3>3. Covered(t) /\ target[t] \in DOMAIN posts
        BY <2>3 DEF FolderIInv, Walked
      <3>4. PICK W \in SUBSET RowIds :
              /\ target[t] \in W \cup {id[t]}
              /\ \A i \in W : posts[i].parent \in W \cup {id[t]}
        BY <3>3 DEF Covered
      <3> DEFINE V == W \cup {id[t]}
      <3>5. /\ V \in SUBSET RowIds
            /\ target'[t] \in V \cup {id'[t]}
            /\ \A i \in V : posts[i].parent \in V \cup {id'[t]}
        BY <2>3, <3>2, <3>4
      <3>6. RowIds' = RowIds
        BY <1>1 DEF RowIds
      <3>7. Covered(t)'
        BY <1>1, <3>5, <3>6 DEF Covered
      <3> QED BY <1>1, <2>3, <3>3, <3>7
    <2> QED BY <1>3, <2>1, <2>2, <2>3
  <1> QED BY <1>6, <1>7, <1>8, <1>9 DEF FolderIInv

\* Every step keeps the invariant.
LEMMA FolderStepIInv == FolderIInv /\ [Next]_vars => FolderIInv'
  <1> SUFFICES ASSUME FolderIInv, [Next]_vars PROVE FolderIInv'
    OBVIOUS
  <1>1. ASSUME NEW c \in Creators, StartPath(c) PROVE FolderIInv'
    BY <1>1, CreatorQuietStep
  <1>2. ASSUME NEW w \in Walkers, StartWalk(w) PROVE FolderIInv'
    BY <1>2, PlaceStep DEF Threads
  <1>3. ASSUME NEW t \in Threads, Step(t) PROVE FolderIInv'
    <2>1. CASE Lock(t)
      BY <2>1, LockStep
    <2>2. CASE t \in Creators /\ Create(t)
      BY <2>2, CreatorQuietStep, PostFolderStep, PostUnansweredStep, InsertEntryStep,
         NextNameStep DEF Create
    <2>3. CASE t \in Walkers /\ Walk(t)
      BY <2>3, WalkerQuietStep, InsertPostStep, PlaceStep DEF Walk
    <2>4. CASE Return(t)
      BY <2>4, PlaceStep
    <2> QED BY <1>3, <2>1, <2>2, <2>3, <2>4 DEF Step
  <1>4. CASE PostElsewhere
    BY <1>4, PostElsewhereStep
  <1>5. CASE UNCHANGED vars
    <2>1. UNCHANGED <<slots, posts, rows, pc, slot, rest, id, target>>
      BY <1>5 DEF vars
    <2>2. TypeOK'
      BY <2>1 DEF FolderIInv, TypeOK
    <2>3. SlotBacked' /\ OneRowPerPost' /\ PostsRecorded'
      BY <2>1 DEF FolderIInv, SlotBacked, OneRowPerPost, PostsRecorded, Inside, RowIds
    <2>4. Walked'
      BY <2>1, CoversKept DEF FolderIInv, Walked
    <2> QED BY <2>2, <2>3, <2>4 DEF FolderIInv
  <1> QED BY <1>1, <1>2, <1>3, <1>4, <1>5 DEF Next

\* The invariant holds throughout.
LEMMA FolderInvariance == Spec => []FolderIInv
  BY FolderInitIInv, FolderStepIInv, PTL DEF Spec

\* Every variable keeps its type, and what is to become a row is a post.
THEOREM FolderTypeCorrect == Spec => []TypeOK
  <1>1. FolderIInv => TypeOK
    BY DEF FolderIInv
  <1> QED BY <1>1, FolderInvariance, PTL

\* No creation lock is left without a thread at work under it.
THEOREM NoOrphanedSlot == Spec => []SlotBacked
  <1>1. FolderIInv => SlotBacked
    BY DEF FolderIInv
  <1> QED BY <1>1, FolderInvariance, PTL

\* A post has one row at most, which says what the post says.
THEOREM RowsUnique == Spec => []OneRowPerPost
  <1>1. FolderIInv => OneRowPerPost
    BY DEF FolderIInv
  <1> QED BY <1>1, FolderInvariance, PTL

\* Each post this client was told of has a row or is about to get one.
THEOREM NoPostForgotten == Spec => []PostsRecorded
  <1>1. FolderIInv => PostsRecorded
    BY DEF FolderIInv
  <1> QED BY <1>1, FolderInvariance, PTL

\* A walk that has succeeded leaves rows all the way up to the root.
THEOREM WalkLeavesNoGap == Spec => []TreeValidated
  <1>1. FolderIInv => TreeValidated
    <2> SUFFICES ASSUME FolderIInv, NEW w \in Walkers, pc[w] = "valid"
                 PROVE  \E W \in SUBSET RowIds :
                           /\ target[w] \in W
                           /\ \A i \in W : posts[i].parent \in W \cup {Root}
      BY DEF TreeValidated
    <2>1. target[w] \in DOMAIN posts /\ Covered(w) /\ id[w] = Root
      BY DEF FolderIInv, Walked
    <2>2. PICK W \in SUBSET RowIds :
            /\ target[w] \in W \cup {Root}
            /\ \A i \in W : posts[i].parent \in W \cup {Root}
      BY <2>1 DEF Covered
    <2>3. DOMAIN posts = 1..Len(posts)
      BY DEF FolderIInv, TypeOK
    <2>4. target[w] # Root
      BY <2>1, <2>3 DEF Root
    <2> QED BY <2>2, <2>4
  <1> QED BY <1>1, FolderInvariance, PTL
=============================================================================
