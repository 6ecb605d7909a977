---------------------------- MODULE FileNamesProofs ----------------------------
(***************************************************************************)
(* Theorems about FileNames, for any devices, files, folders and names,    *)
(* any number of users that move files, and any number of changes.         *)
(***************************************************************************)
EXTENDS FileNames, FiniteSetTheorems, NaturalsInduction, WellFoundedInduction, TLAPS

-----------------------------------------------------------------------------
(***************************************************************************)
(* Numbers and sequences                                                   *)
(***************************************************************************)
\* A set of numbers has a least one, ...
LEMMA LeastIs ==
    ASSUME NEW T, T \subseteq Nat, T # {}
    PROVE  \E x \in T : \A y \in T : x <= y
  <1>1. IsWellFoundedOn(OpToRel(<, Nat), Nat)
    BY NatLessThanWellFounded
  <1>2. PICK x \in T : \A y \in T : <<y, x>> \notin OpToRel(<, Nat)
    BY <1>1, WFMin
  <1>3. \A y \in T : ~(y < x)
    BY <1>2 DEF OpToRel
  <1>4. \A y \in T : y \in Nat /\ x \in Nat /\ ~(y < x)
    BY <1>3
  <1> QED BY <1>4

\* ... and one that is not empty and has an upper bound a greatest one.
LEMMA MaxIs ==
    ASSUME NEW n \in Nat, NEW S, S \subseteq 1 .. n, S # {}
    PROVE  Max(S) \in S /\ \A m \in S : m <= Max(S)
  <1> DEFINE T == {k \in 0 .. n : \A m \in S : m <= k}
  <1>1. n \in T /\ T \subseteq Nat
    OBVIOUS
  <1>2. PICK k \in T : \A y \in T : k <= y
    BY <1>1, LeastIs
  <1>3. k \in S
    <2> SUFFICES ASSUME k \notin S PROVE FALSE
      OBVIOUS
    <2>1. \A m \in S : m \in 1 .. n /\ m <= k /\ m # k
      BY <1>2
    <2>2. k # 0
      <3>1. PICK m \in S : TRUE
        OBVIOUS
      <3> QED BY <2>1, <3>1
    <2>3. k - 1 \in T
      BY <2>1, <2>2, <1>2
    <2> QED BY <2>3, <1>2
  <1>4. k \in S /\ \A m \in S : k >= m
    BY <1>2, <1>3
  <1>5. Max(S) \in S /\ \A m \in S : Max(S) >= m
    BY <1>4 DEF Max
  <1> QED BY <1>5

\* The number of kept positions up to i takes every value, so that Kept
\* chooses a position for each place.
LEMMA RankIs ==
    ASSUME NEW n \in Nat, NEW keep \in SUBSET (1 .. n), NEW m \in 1 .. Cardinality(keep)
    PROVE  \E i \in keep : Cardinality({k \in keep : k <= i}) = m
  <1> DEFINE Upto(i) == {k \in keep : k <= i}
  <1>1. IsFiniteSet(keep)
    <2>1. IsFiniteSet(1 .. n)
      BY FS_Interval
    <2> QED BY <2>1, FS_Subset
  <1>2. \A i : Upto(i) \in SUBSET keep
    OBVIOUS
  <1>3. \A i : IsFiniteSet(Upto(i)) /\ Cardinality(Upto(i)) \in Nat
    BY <1>1, <1>2, FS_Subset, FS_CardinalityType
  <1>4. Cardinality(keep) \in Nat
    BY <1>1, FS_CardinalityType
  <1>5. m \in Nat /\ 1 <= m /\ m <= Cardinality(keep)
    BY <1>4
  <1> DEFINE T == {j \in Nat : m <= Cardinality(Upto(j))}
  <1>6. n \in T
    <2>1. \A k \in keep : k \in 1 .. n /\ k <= n
      OBVIOUS
    <2>2. Upto(n) = keep
      BY <2>1
    <2> QED BY <2>2, <1>5
  <1>7. T \subseteq Nat /\ T # {}
    BY <1>6
  <1> HIDE DEF T
  <1>8. PICK j \in T : \A y \in T : j <= y
    BY <1>7, LeastIs
  <1>9. j \in Nat /\ m <= Cardinality(Upto(j))
    BY <1>8 DEF T
  <1>10. j # 0
    <2>1. \A k \in keep : k \in 1 .. n /\ ~(k <= 0)
      OBVIOUS
    <2>2. Upto(0) = {}
      BY <2>1
    <2>3. Cardinality(Upto(0)) = 0
      BY <2>2, FS_EmptySet
    <2> QED BY <2>3, <1>9, <1>5
  <1>11. j - 1 \in Nat /\ ~(j <= j - 1)
    BY <1>9, <1>10
  <1>12. j - 1 \notin T
    BY <1>8, <1>11
  <1>13. Cardinality(Upto(j - 1)) < m
    <2>1. ~(m <= Cardinality(Upto(j - 1)))
      BY <1>11, <1>12 DEF T
    <2>2. Cardinality(Upto(j - 1)) \in Nat
      BY <1>3
    <2> HIDE DEF Upto
    <2> QED BY <2>1, <2>2, <1>5
  <1>14. j \in keep
    <2> SUFFICES ASSUME j \notin keep PROVE FALSE
      OBVIOUS
    <2>1. Upto(j) = Upto(j - 1)
      <3>1. ASSUME NEW k \in keep PROVE k <= j <=> k <= j - 1
        BY <1>9
      <3> QED BY <3>1
    <2>2. Cardinality(Upto(j - 1)) \in Nat
      BY <1>3
    <2> HIDE DEF Upto
    <2> QED BY <2>1, <2>2, <1>9, <1>13, <1>5
  <1>15. Upto(j) = Upto(j - 1) \cup {j} /\ j \notin Upto(j - 1)
    <2>1. ASSUME NEW k \in keep PROVE k <= j <=> k <= j - 1 \/ k = j
      BY <1>9
    <2> QED BY <2>1, <1>14, <1>11
  <1>16. Cardinality(Upto(j)) = Cardinality(Upto(j - 1)) + 1
    <2>1. IsFiniteSet(Upto(j - 1))
      BY <1>3
    <2>2. Cardinality(Upto(j - 1) \cup {j}) = Cardinality(Upto(j - 1)) + 1
      <3> HIDE DEF Upto
      <3> QED BY <2>1, <1>15, FS_AddElement
    <2> HIDE DEF Upto
    <2> QED BY <2>2, <1>15
  <1>17. Cardinality(Upto(j - 1)) \in Nat
    BY <1>3
  <1>18. Cardinality(Upto(j)) = m
    <2> HIDE DEF Upto
    <2> QED BY <1>16, <1>17, <1>13, <1>9, <1>5
  <1> QED BY <1>14, <1>18

\* Kept takes each position of keep once.
LEMMA KeptIs ==
    ASSUME NEW T, NEW s \in Seq(T), NEW keep, keep \subseteq DOMAIN s
    PROVE  /\ Kept(s, keep) \in Seq(T)
           /\ \A i \in keep : \E n \in DOMAIN Kept(s, keep) : Kept(s, keep)[n] = s[i]
           /\ \A n \in DOMAIN Kept(s, keep) : \E i \in keep : Kept(s, keep)[n] = s[i]
           /\ (\A i, j \in keep : s[i] = s[j] => i = j)
              => \A m, n \in DOMAIN Kept(s, keep) : Kept(s, keep)[m] = Kept(s, keep)[n] => m = n
  <1> DEFINE upto(i) == {k \in keep : k <= i}
  <1> DEFINE at(n) == CHOOSE i \in keep : Cardinality(upto(i)) = n
  <1> DEFINE N == Cardinality(keep)
  <1>1. Len(s) \in Nat /\ keep \in SUBSET (1 .. Len(s)) /\ keep \subseteq Nat
    OBVIOUS
  <1>2. IsFiniteSet(keep)
    <2>1. IsFiniteSet(1 .. Len(s))
      BY <1>1, FS_Interval
    <2> QED BY <2>1, <1>1, FS_Subset
  <1>3. N \in Nat
    BY <1>2, FS_CardinalityType
  <1>4. Kept(s, keep) = [n \in 1 .. N |-> s[at(n)]]
    BY DEF Kept
  <1>5. ASSUME NEW n \in 1 .. N PROVE at(n) \in keep /\ Cardinality(upto(at(n))) = n
    <2>1. \E i \in keep : Cardinality(upto(i)) = n
      BY <1>1, <1>5, RankIs
    <2> QED BY <2>1
  <1>6. ASSUME NEW i \in keep, NEW j \in keep, i < j
        PROVE  Cardinality(upto(i)) # Cardinality(upto(j))
    <2>1. upto(i) \subseteq upto(j) /\ j \in upto(j) /\ j \notin upto(i) /\ upto(j) \in SUBSET keep
      BY <1>1, <1>6
    <2> HIDE DEF upto
    <2>2. IsFiniteSet(upto(j)) /\ upto(i) # upto(j)
      BY <2>1, <1>2, FS_Subset
    <2>3. Cardinality(upto(i)) = Cardinality(upto(j)) => upto(i) = upto(j)
      BY <2>1, <2>2, FS_Subset
    <2> QED BY <2>2, <2>3
  <1>7. ASSUME NEW i \in keep PROVE Cardinality(upto(i)) \in 1 .. N /\ at(Cardinality(upto(i))) = i
    <2> DEFINE c == Cardinality(upto(i))
    <2>1. upto(i) \in SUBSET keep /\ i \in upto(i)
      BY <1>1
    <2>2. c \in 1 .. N
      <3> HIDE DEF upto
      <3>1. IsFiniteSet(upto(i)) /\ c <= N /\ c \in Nat
        BY <2>1, <1>2, FS_Subset, FS_CardinalityType
      <3>2. c # 0
        BY <3>1, <2>1, FS_EmptySet
      <3> QED BY <3>1, <3>2, <1>3
    <2>3. at(c) \in keep /\ Cardinality(upto(at(c))) = c
      BY <2>2, <1>5
    <2> HIDE DEF upto, at
    <2>4. ~(i < at(c)) /\ ~(at(c) < i)
      BY <2>3, <1>6
    <2> QED BY <2>2, <2>3, <2>4, <1>1
  <1> HIDE DEF N, at, upto
  <1>8. Kept(s, keep) \in Seq(T)
    <2>1. \A n \in 1 .. N : s[at(n)] \in T
      BY <1>1, <1>5
    <2> QED BY <1>3, <1>4, <2>1
  <1>9. DOMAIN Kept(s, keep) = 1 .. N /\ \A n \in 1 .. N : Kept(s, keep)[n] = s[at(n)]
    BY <1>4
  <1>10. \A i \in keep : \E n \in 1 .. N : Kept(s, keep)[n] = s[i]
    BY <1>7, <1>9
  <1>11. \A m, n \in 1 .. N : at(m) = at(n) => m = n
    BY <1>5
  <1> QED BY <1>5, <1>8, <1>9, <1>10, <1>11

-----------------------------------------------------------------------------
(***************************************************************************)
(* Values                                                                  *)
(***************************************************************************)
LEMMA FilesAre == Files \subseteq Nat /\ None \notin Files /\ None \in Nat
  BY FileNamesAssumption DEF None

LEMMA NowhereIs == Nowhere \notin Places /\ \A p, q : <<p, q>> # Nowhere
  BY DEF Nowhere, Places

LEMMA NoRowIs == NoRow \notin Rows /\ NoRow.id = 0 /\ NoRow.file = None /\ NoRow.path = Nowhere
  <1>1. NoRow.path = Nowhere /\ NoRow.id = 0 /\ NoRow.file = None
    BY DEF NoRow
  <1>2. \A r \in Rows : r.path \in Places
    BY DEF Rows
  <1> QED BY <1>1, <1>2, NowhereIs

LEMMA NoPostIs == NoPost \notin PostType
  <1>1. NoPost.path = Nowhere
    BY DEF NoPost, Post, NoRow
  <1>2. \A r \in PostType : r.path \in Places
    BY DEF PostType
  <1> QED BY <1>1, <1>2, NowhereIs

LEMMA NoSyncIs == NoSync \notin Waits /\ NoSync.step = "idle"
  <1>1. NoSync.step = "idle"
    BY DEF NoSync
  <1>2. \A r \in Waits : r.step # "idle"
    BY DEF Waits
  <1> QED BY <1>1, <1>2

LEMMA NoJobIs ==
    /\ NoJob.step = "idle" /\ NoJob.op = "none" /\ NoJob.fi = NoRow /\ NoJob.got = NoPost
    /\ NoJob.old = Nowhere /\ NoJob.new = Nowhere
  BY DEF NoJob

LEMMA PostIs ==
    ASSUME NEW r \in Rows, NEW gone \in BOOLEAN
    PROVE  /\ Post(r, gone) \in PostType /\ Post(r, gone).file = r.file
           /\ Post(r, gone).name = r.name /\ Post(r, gone).path = r.path
           /\ Post(r, gone).folder = r.folder /\ (Post(r, gone).deleted <=> gone)
    BY DEF Post, Rows, PostType

LEMMA RowIs ==
    ASSUME NEW p \in Places, NEW id \in Ids, NEW k \in Files
    PROVE  /\ Row(p, id, k) \in Rows /\ Row(p, id, k).id = id /\ Row(p, id, k).file = k
           /\ Row(p, id, k).name = p[2] /\ Row(p, id, k).folder = p[1]
           /\ Row(p, id, k).path = p /\ ~Row(p, id, k).deleted
    BY DEF Row, Rows, Places

LEMMA RowOfIs ==
    ASSUME NEW p \in PostType, NEW id \in Ids
    PROVE  /\ RowOf(p, id) \in Rows /\ RowOf(p, id).id = id /\ RowOf(p, id).file = p.file
           /\ RowOf(p, id).name = p.name /\ RowOf(p, id).folder = p.folder
           /\ RowOf(p, id).path = p.path /\ ~RowOf(p, id).deleted
    BY DEF RowOf, Rows, PostType

LEMMA PlaceIs ==
    ASSUME NEW p \in Places
    PROVE  p[1] \in Folders /\ p[2] \in Names /\ p = <<p[1], p[2]>> /\ p # Nowhere
    BY NowhereIs DEF Places

-----------------------------------------------------------------------------
(***************************************************************************)
(* The file table                                                          *)
(***************************************************************************)
Keyed(table) == \A i, j \in DOMAIN table : Key(table[i]) = Key(table[j]) => i = j
Holds(table, r) == \E i \in DOMAIN table : table[i] = r

LEMMA HeldIs ==
    ASSUME NEW table \in Seq(Rows)
    PROVE  \A r : Holds(table, r) => r \in Rows
    BY DEF Holds

\* The row is there, and every other one stays but those of its key.
LEMMA InsertIs ==
    ASSUME NEW table \in Seq(Rows), Keyed(table), NEW r \in Rows,
           NEW new, new = InsertFileInfo(table, r)
    PROVE  /\ new \in Seq(Rows) /\ Keyed(new) /\ Holds(new, r)
           /\ \A x : Holds(new, x) => x = r \/ Holds(table, x)
           /\ \A x : Holds(table, x) => Holds(new, x) \/ Key(x) = Key(r)
  <1> DEFINE keep == {i \in DOMAIN table : Key(table[i]) # Key(r)}
  <1> DEFINE kept == Kept(table, keep)
  <1>1. \A i, j \in keep : table[i] = table[j] => i = j
    BY DEF Keyed
  <1>2. keep \subseteq DOMAIN table
    OBVIOUS
  <1>3. /\ kept \in Seq(Rows)
        /\ \A i \in keep : \E n \in DOMAIN kept : kept[n] = table[i]
        /\ \A n \in DOMAIN kept : \E i \in keep : kept[n] = table[i]
        /\ \A m, n \in DOMAIN kept : kept[m] = kept[n] => m = n
    <2> HIDE DEF keep
    <2> QED BY <1>1, <1>2, KeptIs
  <1>4. new = Append(kept, r)
    BY DEF InsertFileInfo
  <1>5. \A n \in DOMAIN kept : \E i \in DOMAIN table : kept[n] = table[i] /\ Key(table[i]) # Key(r)
    BY <1>3
  <1>6. \A i \in DOMAIN table : Key(table[i]) # Key(r) => \E n \in DOMAIN kept : kept[n] = table[i]
    BY <1>3
  <1>7. \A m, n \in DOMAIN kept : Key(kept[m]) = Key(kept[n]) => m = n
    BY <1>3, <1>5 DEF Keyed
  <1> HIDE DEF kept, keep
  <1>8. /\ new \in Seq(Rows) /\ DOMAIN new = DOMAIN kept \cup {Len(kept) + 1}
        /\ new[Len(kept) + 1] = r /\ \A n \in DOMAIN kept : new[n] = kept[n]
    BY <1>3, <1>4
  <1>9. Keyed(new)
    BY <1>5, <1>7, <1>8 DEF Keyed
  <1>10. \A x : Holds(new, x) => x = r \/ Holds(table, x)
    BY <1>5, <1>8 DEF Holds
  <1>11. \A x : Holds(table, x) => Holds(new, x) \/ Key(x) = Key(r)
    BY <1>6, <1>8 DEF Holds
  <1> QED BY <1>8, <1>9, <1>10, <1>11 DEF Holds

LEMMA LastIs ==
    ASSUME NEW table \in Seq(Rows), NEW found, found \subseteq DOMAIN table
    PROVE  /\ found = {} => LastOf(table, found) = NoRow
           /\ found # {} => \E i \in found : LastOf(table, found) = table[i]
  <1>1. Len(table) \in Nat /\ found \subseteq 1 .. Len(table)
    OBVIOUS
  <1>2. found # {} => Max(found) \in found
    BY <1>1, MaxIs
  <1> QED BY <1>2 DEF LastOf

\* A query finds a row of the path, or of the post, if there is one.
LEMMA QueryIs ==
    ASSUME NEW table \in Seq(Rows), NEW p, NEW r, r = QueryForFile(table, p)
    PROVE  \/ Holds(table, r) /\ r \in Rows /\ r.path = p
           \/ r = NoRow /\ \A x : Holds(table, x) => x.path # p
  <1> DEFINE found == {i \in DOMAIN table : table[i].path = p}
  <1>1. r = LastOf(table, found)
    BY DEF QueryForFile
  <1>2. found \subseteq DOMAIN table
    OBVIOUS
  <1>3. /\ found = {} => r = NoRow
        /\ found # {} => \E i \in found : r = table[i]
    <2> HIDE DEF found
    <2> QED BY <1>1, <1>2, LastIs
  <1>4. CASE found = {}
    BY <1>3, <1>4 DEF Holds
  <1>5. CASE found # {}
    <2>1. PICK i \in found : r = table[i]
      BY <1>3, <1>5
    <2>2. i \in DOMAIN table /\ r.path = p
      BY <2>1
    <2>3. Holds(table, r)
      BY <2>1, <2>2 DEF Holds
    <2> QED BY <2>2, <2>3, HeldIs
  <1> QED BY <1>4, <1>5

LEMMA QueryByIdIs ==
    ASSUME NEW table \in Seq(Rows), NEW id, NEW r, r = QueryForFileByPostId(table, id)
    PROVE  \/ Holds(table, r) /\ r \in Rows /\ r.id = id
           \/ r = NoRow /\ \A x : Holds(table, x) => x.id # id
  <1> DEFINE found == {i \in DOMAIN table : table[i].id = id}
  <1>1. r = LastOf(table, found)
    BY DEF QueryForFileByPostId
  <1>2. found \subseteq DOMAIN table
    OBVIOUS
  <1>3. /\ found = {} => r = NoRow
        /\ found # {} => \E i \in found : r = table[i]
    <2> HIDE DEF found
    <2> QED BY <1>1, <1>2, LastIs
  <1>4. CASE found = {}
    BY <1>3, <1>4 DEF Holds
  <1>5. CASE found # {}
    <2>1. PICK i \in found : r = table[i]
      BY <1>3, <1>5
    <2>2. i \in DOMAIN table /\ r.id = id
      BY <2>1
    <2>3. Holds(table, r)
      BY <2>1, <2>2 DEF Holds
    <2> QED BY <2>2, <2>3, HeldIs
  <1> QED BY <1>4, <1>5

LEMMA ByNameIs ==
    ASSUME NEW table \in Seq(Rows), NEW p
    PROVE  \A r : r \in QueryByName(table, p)
                  <=> Holds(table, r) /\ r.name = p[2] /\ r.folder = p[1]
    BY DEF QueryByName, Holds, Range

-----------------------------------------------------------------------------
\* A row with one field changed.
LEMMA FieldIs ==
    ASSUME NEW r \in Rows
    PROVE  /\ \A p \in Places : [r EXCEPT !.path = p] \in Rows
           /\ \A n \in Names : [r EXCEPT !.name = n] \in Rows
           /\ \A f \in Folders : [r EXCEPT !.folder = f] \in Rows
           /\ [r EXCEPT !.deleted = TRUE] \in Rows
           /\ \A k \in Files : [r EXCEPT !.file = k] \in Rows
    BY DEF Rows

\* An update changes the rows of the post, or none; no two rows of a post make it refused.
Alike(table) == \A i, j \in DOMAIN table : table[i].id = table[j].id => i = j

LEMMA SetPathIs ==
    ASSUME NEW table \in Seq(Rows), Keyed(table), NEW id, NEW p \in Places,
           NEW new, new = set_filepath_for_id(table, id, p)
    PROVE  /\ new \in Seq(Rows) /\ Keyed(new) /\ DOMAIN new = DOMAIN table
           /\ \A i \in DOMAIN table :
                \/ new[i] = table[i]
                \/ table[i].id = id /\ new[i] = [table[i] EXCEPT !.path = p]
           /\ Alike(table) => \A i \in DOMAIN table :
                table[i].id = id => new[i] = [table[i] EXCEPT !.path = p]
  <1> DEFINE set == [i \in DOMAIN table |-> IF table[i].id = id
                       THEN [table[i] EXCEPT !.path = p] ELSE table[i]]
  <1>1. new = IF Keyed(set) THEN set ELSE table
    BY DEF set_filepath_for_id, Update, Keyed
  <1>2. \A i \in DOMAIN table : table[i] \in Rows
    OBVIOUS
  <1>3. \A i \in DOMAIN table : set[i] \in Rows /\ set[i].id = table[i].id
    BY <1>2, FieldIs DEF Rows
  <1>4. set \in Seq(Rows) /\ DOMAIN set = DOMAIN table
    BY <1>3
  <1>5. Alike(table) => Keyed(set)
    <2>1. \A r, s : Key(r) = Key(s) => r.id = s.id
      BY DEF Key
    <2> HIDE DEF set
    <2> QED BY <1>3, <1>4, <2>1 DEF Alike, Keyed
  <1>6. \A i \in DOMAIN table :
          /\ table[i].id = id => set[i] = [table[i] EXCEPT !.path = p]
          /\ table[i].id # id => set[i] = table[i]
    OBVIOUS
  <1> HIDE DEF set
  <1> QED BY <1>1, <1>4, <1>5, <1>6

LEMMA SetNameIs ==
    ASSUME NEW table \in Seq(Rows), Keyed(table), NEW id, NEW n \in Names,
           NEW new, new = set_filename_for_id(table, id, n)
    PROVE  /\ new \in Seq(Rows) /\ Keyed(new) /\ DOMAIN new = DOMAIN table
           /\ \A i \in DOMAIN table :
                \/ new[i] = table[i]
                \/ table[i].id = id /\ new[i] = [table[i] EXCEPT !.name = n]
           /\ Alike(table) => \A i \in DOMAIN table :
                table[i].id = id => new[i] = [table[i] EXCEPT !.name = n]
  <1> DEFINE set == [i \in DOMAIN table |-> IF table[i].id = id
                       THEN [table[i] EXCEPT !.name = n] ELSE table[i]]
  <1>1. new = IF Keyed(set) THEN set ELSE table
    BY DEF set_filename_for_id, Update, Keyed
  <1>2. \A i \in DOMAIN table : table[i] \in Rows
    OBVIOUS
  <1>3. \A i \in DOMAIN table : set[i] \in Rows /\ set[i].id = table[i].id
    BY <1>2, FieldIs DEF Rows
  <1>4. set \in Seq(Rows) /\ DOMAIN set = DOMAIN table
    BY <1>3
  <1>5. Alike(table) => Keyed(set)
    <2>1. \A r, s : Key(r) = Key(s) => r.id = s.id
      BY DEF Key
    <2> HIDE DEF set
    <2> QED BY <1>3, <1>4, <2>1 DEF Alike, Keyed
  <1>6. \A i \in DOMAIN table :
          /\ table[i].id = id => set[i] = [table[i] EXCEPT !.name = n]
          /\ table[i].id # id => set[i] = table[i]
    OBVIOUS
  <1> HIDE DEF set
  <1> QED BY <1>1, <1>4, <1>5, <1>6

LEMMA SetFolderIs ==
    ASSUME NEW table \in Seq(Rows), Keyed(table), NEW id, NEW f \in Folders,
           NEW new, new = set_folder_post_id(table, id, f)
    PROVE  /\ new \in Seq(Rows) /\ Keyed(new) /\ DOMAIN new = DOMAIN table
           /\ \A i \in DOMAIN table :
                \/ new[i] = table[i]
                \/ table[i].id = id /\ new[i] = [table[i] EXCEPT !.folder = f]
           /\ Alike(table) => \A i \in DOMAIN table :
                table[i].id = id => new[i] = [table[i] EXCEPT !.folder = f]
  <1> DEFINE set == [i \in DOMAIN table |-> IF table[i].id = id
                       THEN [table[i] EXCEPT !.folder = f] ELSE table[i]]
  <1>1. new = IF Keyed(set) THEN set ELSE table
    BY DEF set_folder_post_id, Update, Keyed
  <1>2. \A i \in DOMAIN table : table[i] \in Rows
    OBVIOUS
  <1>3. \A i \in DOMAIN table : set[i] \in Rows /\ set[i].id = table[i].id
    BY <1>2, FieldIs DEF Rows
  <1>4. set \in Seq(Rows) /\ DOMAIN set = DOMAIN table
    BY <1>3
  <1>5. Alike(table) => Keyed(set)
    <2>1. \A r, s : Key(r) = Key(s) => r.id = s.id
      BY DEF Key
    <2> HIDE DEF set
    <2> QED BY <1>3, <1>4, <2>1 DEF Alike, Keyed
  <1>6. \A i \in DOMAIN table :
          /\ table[i].id = id => set[i] = [table[i] EXCEPT !.folder = f]
          /\ table[i].id # id => set[i] = table[i]
    OBVIOUS
  <1> HIDE DEF set
  <1> QED BY <1>1, <1>4, <1>5, <1>6

LEMMA SetDeletedIs ==
    ASSUME NEW table \in Seq(Rows), Keyed(table), NEW id,
           NEW new, new = set_file_deleted_for_id(table, id)
    PROVE  /\ new \in Seq(Rows) /\ Keyed(new) /\ DOMAIN new = DOMAIN table
           /\ \A i \in DOMAIN table :
                \/ new[i] = table[i]
                \/ table[i].id = id /\ new[i] = [table[i] EXCEPT !.deleted = TRUE]
           /\ Alike(table) => \A i \in DOMAIN table :
                table[i].id = id => new[i] = [table[i] EXCEPT !.deleted = TRUE]
  <1> DEFINE set == [i \in DOMAIN table |-> IF table[i].id = id
                       THEN [table[i] EXCEPT !.deleted = TRUE] ELSE table[i]]
  <1>1. new = IF Keyed(set) THEN set ELSE table
    BY DEF set_file_deleted_for_id, Update, Keyed
  <1>2. \A i \in DOMAIN table : table[i] \in Rows
    OBVIOUS
  <1>3. \A i \in DOMAIN table : set[i] \in Rows /\ set[i].id = table[i].id
    BY <1>2, FieldIs DEF Rows
  <1>4. set \in Seq(Rows) /\ DOMAIN set = DOMAIN table
    BY <1>3
  <1>5. Alike(table) => Keyed(set)
    <2>1. \A r, s : Key(r) = Key(s) => r.id = s.id
      BY DEF Key
    <2> HIDE DEF set
    <2> QED BY <1>3, <1>4, <2>1 DEF Alike, Keyed
  <1>6. \A i \in DOMAIN table :
          /\ table[i].id = id => set[i] = [table[i] EXCEPT !.deleted = TRUE]
          /\ table[i].id # id => set[i] = table[i]
    OBVIOUS
  <1> HIDE DEF set
  <1> QED BY <1>1, <1>4, <1>5, <1>6

-----------------------------------------------------------------------------
(***************************************************************************)
(* Types.  The parts of TypeOK, so that a step shows only what it changes. *)
(***************************************************************************)
DiskTyped == disk \in [Devices -> [Places -> Files \cup {None}]]
ServerTyped ==
  /\ posts \in Seq(PostType) /\ Len(posts) <= MaxPosts
  /\ order \in Seq(DOMAIN posts) /\ Range(order) = DOMAIN posts
  /\ \A m, n \in DOMAIN order : order[m] = order[n] => m = n
NewsTyped == news \in [Devices -> SUBSET DOMAIN posts]
RowsTyped == rows \in [Devices -> Seq(Rows)]
AskedTyped ==
  /\ renames \in [Devices -> Seq(Moves)] /\ deletes \in [Devices -> Seq(Places)]
  /\ pushes \in [Devices -> SUBSET Places]
PullsTyped ==
  /\ pulls \in [Devices -> SUBSET Places] /\ pull \in [Devices -> Rows \cup {NoRow}]
FollowTyped ==
  /\ queue \in [Devices -> Seq([id : Ids, post : PostType])]
  /\ sync \in [Devices -> Waits \cup {NoSync}]
UserTyped ==
  /\ home \in [Files -> Places \cup {Nowhere}] /\ owner \in [Names -> Files \cup {None}]
  /\ changes \in Nat
FaultsTyped == missed \in [Devices -> SUBSET Nat] /\ failures \in Nat

RowsLinked(d) ==
  (\A i \in DOMAIN rows[d] : rows[d][i].id \in DOMAIN posts) /\ Keyed(rows[d])
JobOK(j) == j = NoJob \/ Renaming(j) \/ Removing(j)
JobsLinked(d) ==
  /\ job[d] = [w \in Workers |-> job[d][w]]
  /\ \A w \in Workers :
       JobOK(job[d][w]) /\ (job[d][w].fi # NoRow => job[d][w].fi.id \in DOMAIN posts)
QueueLinked(d) == \A i \in DOMAIN queue[d] : queue[d][i].id \in DOMAIN posts
SyncLinked(d) == sync[d] # NoSync => \E i \in DOMAIN rows[d] : rows[d][i].id = sync[d].id

LEMMA TypeIs ==
    TypeOK <=> /\ DiskTyped /\ ServerTyped /\ NewsTyped /\ RowsTyped /\ AskedTyped
               /\ PullsTyped /\ FollowTyped /\ UserTyped /\ FaultsTyped
               /\ DOMAIN job = Devices
               /\ \A d \in Devices :
                    RowsLinked(d) /\ JobsLinked(d) /\ QueueLinked(d) /\ SyncLinked(d)
  <1>1. Typed <=> /\ DiskTyped /\ ServerTyped /\ NewsTyped /\ RowsTyped /\ AskedTyped
                  /\ PullsTyped /\ FollowTyped /\ UserTyped /\ FaultsTyped
                  /\ DOMAIN job = Devices
    BY DEF Typed, DiskTyped, ServerTyped, NewsTyped, RowsTyped, AskedTyped, PullsTyped,
           FollowTyped, UserTyped, FaultsTyped
  <1>2. ASSUME NEW d \in Devices
        PROVE  Linked(d) <=> RowsLinked(d) /\ JobsLinked(d) /\ QueueLinked(d) /\ SyncLinked(d)
    BY DEF Linked, RowsLinked, JobsLinked, JobOK, QueueLinked, SyncLinked, Keyed
  <1> QED BY <1>1, <1>2 DEF TypeOK

LEMMA TypeNext ==
    ASSUME DiskTyped', ServerTyped', NewsTyped', RowsTyped', AskedTyped',
           PullsTyped', FollowTyped', UserTyped', FaultsTyped', DOMAIN job' = Devices,
           \A d \in Devices : RowsLinked(d)' /\ JobsLinked(d)' /\ QueueLinked(d)' /\ SyncLinked(d)'
    PROVE  TypeOK'
  <1>1. Typed'
    BY DEF Typed, DiskTyped, ServerTyped, NewsTyped, RowsTyped, AskedTyped, PullsTyped,
           FollowTyped, UserTyped, FaultsTyped
  <1>2. ASSUME NEW d \in Devices PROVE Linked(d)'
    BY DEF Linked, RowsLinked, JobsLinked, JobOK, QueueLinked, SyncLinked, Keyed
  <1> QED BY <1>1, <1>2 DEF TypeOK

\* Nothing that a device knows is lost when posts are added, ...
LEMMA LinksKept ==
    ASSUME NEW d, DOMAIN posts \subseteq DOMAIN posts'
    PROVE  /\ RowsLinked(d) /\ rows'[d] = rows[d] => RowsLinked(d)'
           /\ JobsLinked(d) /\ job'[d] = job[d] => JobsLinked(d)'
           /\ QueueLinked(d) /\ queue'[d] = queue[d] => QueueLinked(d)'
           /\ SyncLinked(d) /\ rows'[d] = rows[d] /\ sync'[d] = sync[d] => SyncLinked(d)'
  <1>1. RowsLinked(d) /\ rows'[d] = rows[d] => RowsLinked(d)'
    BY DEF RowsLinked
  <1>2. JobsLinked(d) /\ job'[d] = job[d] => JobsLinked(d)'
    BY DEF JobsLinked
  <1>3. QueueLinked(d) /\ queue'[d] = queue[d] => QueueLinked(d)'
    BY DEF QueueLinked
  <1>4. SyncLinked(d) /\ rows'[d] = rows[d] /\ sync'[d] = sync[d] => SyncLinked(d)'
    BY DEF SyncLinked
  <1> QED BY <1>1, <1>2, <1>3, <1>4

\* ... and a worker that goes on has a task of its kind and a post there is.
LEMMA GoesIs ==
    ASSUME DOMAIN job = Devices, NEW d \in Devices, JobsLinked(d), NEW w \in Workers, NEW j,
           Goes(d, w, j)
    PROVE  /\ DOMAIN job' = Devices /\ job'[d] = [v \in Workers |-> job'[d][v]]
           /\ job'[d][w] = j /\ \A v \in Workers \ {w} : job'[d][v] = job[d][v]
           /\ \A e \in Devices \ {d} : job'[e] = job[e]
  <1>1. job' = [job EXCEPT ![d] = [job[d] EXCEPT ![w] = j]]
    BY DEF Goes
  <1>2. /\ DOMAIN job' = Devices /\ job'[d] = [job[d] EXCEPT ![w] = j]
        /\ \A e \in Devices \ {d} : job'[e] = job[e]
    BY <1>1
  <1>3. job[d] = [v \in Workers |-> job[d][v]]
    BY DEF JobsLinked
  <1>4. DOMAIN job[d] = Workers
    BY <1>3
  <1>5. job'[d] = [v \in Workers |-> IF v = w THEN j ELSE job[d][v]]
    BY <1>2, <1>4
  <1> QED BY <1>2, <1>5

LEMMA GoesLinked ==
    ASSUME DOMAIN job = Devices, NEW d \in Devices, NEW w \in Workers, NEW j, Goes(d, w, j),
           JobOK(j), j.fi # NoRow => j.fi.id \in DOMAIN posts',
           DOMAIN posts \subseteq DOMAIN posts', \A e \in Devices : JobsLinked(e)
    PROVE  DOMAIN job' = Devices /\ \A e \in Devices : JobsLinked(e)'
  <1>1. /\ DOMAIN job' = Devices /\ job'[d] = [v \in Workers |-> job'[d][v]]
        /\ job'[d][w] = j /\ \A v \in Workers \ {w} : job'[d][v] = job[d][v]
        /\ \A e \in Devices \ {d} : job'[e] = job[e]
    BY GoesIs
  <1>2. \A e \in Devices \ {d} : JobsLinked(e)'
    BY <1>1, LinksKept
  <1>3. JobsLinked(d)'
    <2>1. ASSUME NEW v \in Workers
          PROVE  JobOK(job'[d][v]) /\ (job'[d][v].fi # NoRow => job'[d][v].fi.id \in DOMAIN posts')
      BY <1>1 DEF JobsLinked
    <2> QED BY <1>1, <2>1 DEF JobsLinked, JobOK, Renaming, Removing
  <1> QED BY <1>1, <1>2, <1>3

\* A table that is changed keeps its posts.
LEMMA RowsChanged ==
    ASSUME NEW d \in Devices, NEW table \in Seq(Rows), RowsTyped,
           rows' = [rows EXCEPT ![d] = table], Keyed(table),
           \A i \in DOMAIN table : table[i].id \in DOMAIN posts',
           \A i \in DOMAIN rows[d] : \E n \in DOMAIN table : table[n].id = rows[d][i].id,
           DOMAIN posts \subseteq DOMAIN posts', sync' = sync,
           \A e \in Devices : RowsLinked(e) /\ SyncLinked(e)
    PROVE  RowsTyped' /\ \A e \in Devices : RowsLinked(e)' /\ SyncLinked(e)'
  <1>1. rows'[d] = table /\ RowsTyped' /\ \A e \in Devices \ {d} : rows'[e] = rows[e]
    BY DEF RowsTyped
  <1>2. RowsLinked(d)'
    BY <1>1 DEF RowsLinked
  <1>3. SyncLinked(d)'
    BY <1>1 DEF SyncLinked
  <1>4. \A e \in Devices \ {d} : RowsLinked(e)' /\ SyncLinked(e)'
    BY <1>1, LinksKept
  <1> QED BY <1>1, <1>2, <1>3, <1>4

LEMMA InitTyped == Init => TypeOK
  <1> SUFFICES ASSUME Init PROVE TypeOK
    OBVIOUS
  <1> DEFINE K == DOMAIN Known
  <1> DEFINE row(k) == Row(Known[k], k, k)
  <1>1. /\ disk = [d \in Devices |-> [p \in Places |->
                     IF \E k \in K : Known[k] = p THEN CHOOSE k \in K : Known[k] = p ELSE None]]
        /\ rows = [d \in Devices |-> [k \in K |-> row(k)]]
        /\ posts = [k \in K |-> Post(row(k), FALSE)] /\ order = [k \in K |-> k]
        /\ news = [d \in Devices |-> {}] /\ queue = [d \in Devices |-> << >>]
        /\ renames = [d \in Devices |-> << >>] /\ deletes = [d \in Devices |-> << >>]
        /\ pushes = [d \in Devices |-> {}] /\ pulls = [d \in Devices |-> {}]
        /\ job = [d \in Devices |-> [w \in Workers |-> NoJob]]
        /\ pull = [d \in Devices |-> NoRow] /\ sync = [d \in Devices |-> NoSync]
        /\ home = [k \in Files |-> IF k \in K THEN Known[k] ELSE Nowhere]
        /\ owner = [n \in Names |-> IF \E k \in K : Known[k][2] = n
                                   THEN CHOOSE k \in K : Known[k][2] = n ELSE None]
        /\ missed = [d \in Devices |-> {}] /\ changes = 0 /\ failures = 0
    BY DEF Init
  <1>2. K \subseteq Files /\ Known \in [K -> Places] /\ MaxPosts \in Nat
    BY FileNamesAssumption DEF Places
  <1>3. PICK c \in Nat : K = 1 .. c /\ c <= MaxPosts
    <2>1. IsFiniteSet(K)
      BY FileNamesAssumption, FS_Subset
    <2>2. Cardinality(K) \in Nat
      BY <2>1, FS_CardinalityType
    <2> QED BY <2>2, FileNamesAssumption
  <1> HIDE DEF K
  <1>4. ASSUME NEW k \in K
        PROVE  /\ k \in Ids /\ row(k) \in Rows /\ row(k).id = k
               /\ Post(row(k), FALSE) \in PostType
    <2>1. k \in Ids /\ k \in Files /\ Known[k] \in Places
      BY <1>2, <1>3 DEF Ids
    <2>2. row(k) = Row(Known[k], k, k)
      OBVIOUS
    <2> HIDE DEF row
    <2>3. Row(Known[k], k, k) \in Rows /\ Row(Known[k], k, k).id = k
      BY <2>1, RowIs
    <2>4. row(k) \in Rows /\ row(k).id = k
      BY <2>2, <2>3
    <2> QED BY <2>1, <2>4, PostIs
  <1> HIDE DEF row
  <1>5. DiskTyped
    <2>1. ASSUME NEW p \in Places, \E k \in K : Known[k] = p
          PROVE  (CHOOSE k \in K : Known[k] = p) \in Files
      BY <2>1, <1>2
    <2> QED BY <1>1, <2>1 DEF DiskTyped
  <1>6. posts \in Seq(PostType) /\ Len(posts) = c /\ DOMAIN posts = K
    <2>1. posts = [k \in 1 .. c |-> posts[k]] /\ \A k \in 1 .. c : posts[k] \in PostType
      BY <1>1, <1>3, <1>4
    <2> QED BY <2>1, <1>3
  <1>7. ServerTyped
    <2>1. order \in Seq(DOMAIN posts) /\ Range(order) = DOMAIN posts
      BY <1>1, <1>3, <1>6 DEF Range
    <2>2. \A m, n \in DOMAIN order : order[m] = order[n] => m = n
      BY <1>1
    <2> QED BY <1>3, <1>6, <2>1, <2>2 DEF ServerTyped
  <1>8. NewsTyped /\ PullsTyped /\ FollowTyped
    BY <1>1 DEF NewsTyped, PullsTyped, FollowTyped
  <1>9. \A d \in Devices : rows[d] = [k \in K |-> row(k)] /\ rows[d] \in Seq(Rows)
    <2>1. [k \in K |-> row(k)] \in Seq(Rows)
      <3>1. \A k \in 1 .. c : row(k) \in Rows
        BY <1>3, <1>4
      <3> QED BY <1>3, <3>1
    <2> QED BY <1>1, <2>1
  <1>10. RowsTyped
    BY <1>1, <1>9 DEF RowsTyped
  <1>11. AskedTyped
    BY <1>1 DEF AskedTyped
  <1>12. UserTyped
    <2>1. ASSUME NEW n \in Names, \E k \in K : Known[k][2] = n
          PROVE  (CHOOSE k \in K : Known[k][2] = n) \in Files
      BY <2>1, <1>2
    <2>2. home \in [Files -> Places \cup {Nowhere}]
      BY <1>1, <1>2
    <2> QED BY <1>1, <2>1, <2>2 DEF UserTyped
  <1>13. ASSUME NEW d \in Devices
         PROVE  RowsLinked(d) /\ JobsLinked(d) /\ QueueLinked(d) /\ SyncLinked(d)
    <2>1. \A i \in DOMAIN rows[d] : rows[d][i].id = i /\ i \in K
      BY <1>4, <1>9
    <2>2. Keyed(rows[d])
      BY <2>1 DEF Keyed, Key
    <2>3. RowsLinked(d)
      BY <2>1, <2>2, <1>6 DEF RowsLinked
    <2>4. JobsLinked(d)
      BY <1>1, NoJobIs DEF JobsLinked, JobOK
    <2>5. QueueLinked(d) /\ SyncLinked(d)
      BY <1>1 DEF QueueLinked, SyncLinked
    <2> QED BY <2>3, <2>4, <2>5
  <1>14. FaultsTyped
    BY <1>1 DEF FaultsTyped
  <1> QED BY <1>1, <1>5, <1>7, <1>8, <1>10, <1>11, <1>12, <1>13, <1>14, TypeIs

\* The user changes disk, home, owner and what she asks for.
LEMMA UserTypes == TypeOK /\ (\E d \in Devices : User(d)) => TypeOK'
  <1> SUFFICES ASSUME TypeOK, NEW d \in Devices, User(d) PROVE TypeOK'
    OBVIOUS
  <1>1. PICK k \in Files : RemoveFile(d, k) \/ \E p \in Places : CreateFile(d, k, p) \/ MoveFile(d, k, p)
    BY DEF User
  <1>2. /\ UNCHANGED <<rows, server, news, pulls, job, pull, follow, faults>>
        /\ changes' = changes + 1
    BY <1>1 DEF RemoveFile, CreateFile, MoveFile, Change
  <1>3. /\ ServerTyped' /\ NewsTyped' /\ RowsTyped' /\ PullsTyped' /\ FollowTyped' /\ FaultsTyped'
        /\ DOMAIN job' = Devices
    BY <1>2, TypeIs DEF server, follow, ServerTyped, NewsTyped, RowsTyped, PullsTyped, FollowTyped,
       FaultsTyped, faults
  <1>4. \A e \in Devices :
          RowsLinked(e)' /\ JobsLinked(e)' /\ QueueLinked(e)' /\ SyncLinked(e)'
    BY <1>2, TypeIs, LinksKept DEF server, follow
  <1>5. changes' \in Nat
    BY <1>2, TypeIs DEF UserTyped
  <1> DEFINE p == home[k]
  <1>6. CASE RemoveFile(d, k)
    <2>1. p \in Places
      BY <1>6, TypeIs DEF RemoveFile, UserTyped, FaultsTyped, faults
    <2>2. DiskTyped' /\ AskedTyped' /\ UserTyped'
      BY <1>5, <1>6, <2>1, TypeIs
         DEF RemoveFile, Put, DiskTyped, AskedTyped, UserTyped, FaultsTyped, faults
    <2> QED BY <1>3, <1>4, <2>2, TypeNext
  <1>7. ASSUME NEW q \in Places, CreateFile(d, k, q) PROVE TypeOK'
    <2>1. q[2] \in Names
      BY PlaceIs
    <2>2. DiskTyped' /\ AskedTyped' /\ UserTyped'
      BY <1>5, <1>7, <2>1, TypeIs
         DEF CreateFile, Takes, Put, DiskTyped, AskedTyped, UserTyped, FaultsTyped, faults
    <2> QED BY <1>3, <1>4, <2>2, TypeNext
  <1>8. ASSUME NEW q \in Places, MoveFile(d, k, q) PROVE TypeOK'
    <2>1. q[2] \in Names /\ p \in Places
      BY <1>8, PlaceIs, TypeIs DEF MoveFile, UserTyped, FaultsTyped, faults
    <2>2. [old |-> p, new |-> q] \in Moves
      BY <2>1 DEF Moves
    <2>3. DiskTyped' /\ UserTyped'
      BY <1>5, <1>8, <2>1, TypeIs DEF MoveFile, Takes, DiskTyped, UserTyped, FaultsTyped, faults
    <2>4. AskedTyped'
      BY <1>8, <2>2, TypeIs DEF MoveFile, AskedTyped
    <2> QED BY <1>3, <1>4, <2>3, <2>4, TypeNext
  <1> QED BY <1>1, <1>6, <1>7, <1>8

\* A post that changes is last in the order and news to everybody.
LEMMA ChangedTypes ==
    ASSUME ServerTyped, NewsTyped, NEW id \in DOMAIN posts', Changed(id),
           posts' \in Seq(PostType), Len(posts') <= MaxPosts,
           DOMAIN posts' = DOMAIN posts \cup {id}
    PROVE  ServerTyped' /\ NewsTyped'
  <1> DEFINE keep == {n \in DOMAIN order : order[n] # id}
  <1> DEFINE kept == Kept(order, keep)
  <1>1. order' = Append(kept, id) /\ news' = [d \in Devices |-> news[d] \cup {id}]
    BY DEF Changed
  <1>2. NewsTyped'
    BY <1>1 DEF NewsTyped
  <1>3. /\ kept \in Seq(DOMAIN posts)
        /\ \A i \in keep : \E n \in DOMAIN kept : kept[n] = order[i]
        /\ \A n \in DOMAIN kept : \E i \in keep : kept[n] = order[i]
        /\ \A m, n \in DOMAIN kept : kept[m] = kept[n] => m = n
    <2>1. order \in Seq(DOMAIN posts) /\ keep \subseteq DOMAIN order
      BY DEF ServerTyped
    <2>2. \A i, j \in keep : order[i] = order[j] => i = j
      BY DEF ServerTyped
    <2> HIDE DEF keep
    <2> QED BY <2>1, <2>2, KeptIs
  <1>4. \A n \in DOMAIN kept : kept[n] # id /\ kept[n] \in DOMAIN posts
    BY <1>3
  <1>5. \A i \in DOMAIN posts \ {id} : \E n \in DOMAIN kept : kept[n] = i
    <2>1. \A i \in DOMAIN posts : \E n \in DOMAIN order : order[n] = i
      BY DEF ServerTyped, Range
    <2>2. \A n \in DOMAIN order : order[n] # id => n \in keep
      OBVIOUS
    <2> HIDE DEF kept, keep
    <2> QED BY <1>3, <2>1, <2>2
  <1> HIDE DEF kept, keep
  <1>6. /\ order' \in Seq(DOMAIN posts') /\ DOMAIN order' = DOMAIN kept \cup {Len(kept) + 1}
        /\ order'[Len(kept) + 1] = id /\ \A n \in DOMAIN kept : order'[n] = kept[n]
    BY <1>1, <1>3
  <1>7. Range(order') = DOMAIN posts'
    BY <1>4, <1>5, <1>6 DEF Range
  <1>8. \A m, n \in DOMAIN order' : order'[m] = order'[n] => m = n
    BY <1>3, <1>4, <1>6
  <1> QED BY <1>2, <1>6, <1>7, <1>8 DEF ServerTyped

\* What the workers of a device leave alone.
LEMMA PutIs ==
    ASSUME NEW id \in DOMAIN posts, posts \in Seq(PostType), NEW value \in PostType,
           posts' = [posts EXCEPT ![id] = value]
    PROVE  /\ posts' \in Seq(PostType) /\ Len(posts') = Len(posts) /\ DOMAIN posts' = DOMAIN posts
           /\ posts'[id] = value /\ \A i \in DOMAIN posts \ {id} : posts'[i] = posts[i]
    OBVIOUS

LEMMA GetTypes ==
    ASSUME TypeOK, NEW d \in Devices, NEW w \in Workers, NEW op, GetFilePost(d, w, op)
    PROVE  TypeOK'
  <1> DEFINE j == job[d][w]
  <1>1. UNCHANGED <<disk, rows, server, news, asked, pulls, pull, follow, user, missed>>
    BY DEF GetFilePost
  <1>2. JobOK(j) /\ (j.fi # NoRow => j.fi.id \in DOMAIN posts) /\ j.step = "get"
    BY TypeIs DEF GetFilePost, JobsLinked
  <1>3. /\ DiskTyped' /\ ServerTyped' /\ NewsTyped' /\ RowsTyped' /\ AskedTyped' /\ PullsTyped'
        /\ FollowTyped' /\ UserTyped'
        /\ \A e \in Devices : RowsLinked(e)' /\ QueueLinked(e)' /\ SyncLinked(e)'
    BY <1>1, TypeIs, LinksKept DEF server, follow, asked, user, DiskTyped, ServerTyped, NewsTyped,
       RowsTyped, AskedTyped, PullsTyped, FollowTyped, UserTyped, FaultsTyped, faults
  <1>4. DOMAIN posts' = DOMAIN posts
    BY <1>1 DEF server
  <1>5. CASE Works /\ Goes(d, w, [j EXCEPT !.step = "put", !.got = posts[j.fi.id]])
    <2> DEFINE n == [j EXCEPT !.step = "put", !.got = posts[j.fi.id]]
    <2>1. j # NoJob
      BY <1>2, NoJobIs
    <2>2. j.fi # NoRow
      BY <1>2, <2>1, NoRowIs DEF JobOK, Renaming, Removing
    <2>3. posts[j.fi.id] \in PostType
      BY <1>2, <2>2, TypeIs DEF ServerTyped
    <2>4. JobOK(n) /\ n.fi = j.fi
      BY <1>2, <2>1, <2>2, <2>3, NoPostIs DEF JobOK, Renaming, Removing
    <2>5. DOMAIN job' = Devices /\ \A e \in Devices : JobsLinked(e)'
      <3> HIDE DEF n, j
      <3> QED BY <1>2, <1>4, <1>5, <2>2, <2>4, TypeIs, GoesLinked DEF n
    <2>6. FaultsTyped'
      BY <1>1, <1>5, TypeIs DEF Works, FaultsTyped
    <2> QED BY <1>3, <2>5, <2>6, TypeNext
  <1>6. CASE Fails /\ End(d, w)
    <2>1. DOMAIN job' = Devices /\ \A e \in Devices : JobsLinked(e)'
      BY <1>4, <1>6, TypeIs, GoesLinked, NoJobIs DEF End, JobOK
    <2>2. FaultsTyped'
      BY <1>1, <1>6, TypeIs DEF Fails, FaultsTyped
    <2> QED BY <1>3, <2>1, <2>2, TypeNext
  <1> QED BY <1>5, <1>6 DEF GetFilePost

LEMMA PutTypes ==
    ASSUME TypeOK, NEW d \in Devices, NEW w \in Workers, NEW op, NEW value, NEW next,
           PutFilePost(d, w, op, value, next), value \in PostType,
           next \in {"idle", "path"}, next = "path" => op = "rename"
    PROVE  TypeOK'
  <1> DEFINE j == job[d][w]
  <1> DEFINE id == j.fi.id
  <1>1. UNCHANGED <<disk, rows, asked, pulls, pull, follow, user, missed>>
    BY DEF PutFilePost
  <1>2. JobOK(j) /\ (j.fi # NoRow => j.fi.id \in DOMAIN posts) /\ j.step = "put" /\ j.op = op
    BY TypeIs DEF PutFilePost, JobsLinked
  <1>3. j # NoJob /\ j.fi # NoRow
    BY <1>2, NoJobIs, NoRowIs DEF JobOK, Renaming, Removing
  <1>4. id \in DOMAIN posts
    BY <1>2, <1>3
  <1>5. DiskTyped' /\ RowsTyped' /\ AskedTyped' /\ PullsTyped' /\ FollowTyped' /\ UserTyped'
    BY <1>1, TypeIs DEF follow, asked, user, DiskTyped,
       RowsTyped, AskedTyped, PullsTyped, FollowTyped, UserTyped, FaultsTyped, faults
  <1>6. /\ DOMAIN posts' = DOMAIN posts /\ ServerTyped' /\ NewsTyped' /\ FaultsTyped'
    <2> HIDE DEF j
    <2>1. CASE UNCHANGED <<server, news>> /\ (Works \/ Fails)
      BY <1>1, <2>1, TypeIs DEF server, ServerTyped, NewsTyped, FaultsTyped, Works, Fails
    <2>2. CASE posts' = [posts EXCEPT ![id] = value] /\ Changed(id) /\ (Works \/ Fails)
      <3>1. posts' \in Seq(PostType) /\ Len(posts') <= MaxPosts /\ DOMAIN posts' = DOMAIN posts
        BY <1>4, <2>2, PutIs, TypeIs DEF ServerTyped
      <3>2. ServerTyped' /\ NewsTyped'
        BY <1>4, <2>2, <3>1, ChangedTypes, TypeIs
      <3>3. FaultsTyped'
        BY <1>1, <2>2, TypeIs DEF Works, Fails, FaultsTyped
      <3> QED BY <3>1, <3>2, <3>3
    <2> QED BY <2>1, <2>2 DEF PutFilePost, j
  <1>7. \A e \in Devices : RowsLinked(e)' /\ QueueLinked(e)' /\ SyncLinked(e)'
    BY <1>1, <1>6, TypeIs, LinksKept DEF follow
  <1>8. DOMAIN job' = Devices /\ \A e \in Devices : JobsLinked(e)'
    <2>1. CASE End(d, w)
      BY <1>6, <2>1, TypeIs, GoesLinked, NoJobIs DEF End, JobOK
    <2>2. CASE next = "path" /\ Step(d, w, next)
      <3> DEFINE n == [j EXCEPT !.step = next]
      <3>1. JobOK(n) /\ n.fi = j.fi
        BY <1>2, <1>3, <2>2 DEF JobOK, Renaming, Removing
      <3>2. Goes(d, w, n)
        BY <2>2 DEF Step
      <3> HIDE DEF n, j
      <3> QED BY <1>2, <1>6, <3>1, <3>2, TypeIs, GoesLinked
    <2> QED BY <2>1, <2>2 DEF PutFilePost
  <1> QED BY <1>5, <1>6, <1>7, <1>8, TypeNext

LEMMA MovedIs ==
    ASSUME NEW j, Renaming(j), j.step \notin {"look", "get"}
    PROVE  /\ Moved(j) \in PostType /\ Moved(j).file = j.fi.file /\ Moved(j).path = j.new
           /\ At(Moved(j)) = j.new /\ Moved(j).name = j.new[2]
           /\ (Moved(j).deleted <=> j.got.deleted)
  <1> DEFINE r == [j.fi EXCEPT !.path = j.new, !.name = j.new[2], !.folder = j.new[1]]
  <1>1. j.fi \in Rows /\ j.got \in PostType /\ j.new \in Places
    BY DEF Renaming
  <1>2. j.new[1] \in Folders /\ j.new[2] \in Names /\ j.new = <<j.new[1], j.new[2]>>
    BY <1>1, PlaceIs
  <1>3. /\ r \in Rows /\ r.file = j.fi.file /\ r.path = j.new /\ r.name = j.new[2]
        /\ r.folder = j.new[1]
    BY <1>1, <1>2 DEF Rows
  <1>4. j.got.deleted \in BOOLEAN
    BY <1>1 DEF PostType
  <1>5. Moved(j) = Post(r, j.got.deleted)
    BY DEF Moved
  <1> HIDE DEF r
  <1> QED BY <1>2, <1>3, <1>4, <1>5, PostIs DEF At

LEMMA WorkTypes ==
    ASSUME TypeOK, NEW d \in Devices, NEW w \in Workers,
           UpdateFileMetaPost(d, w) \/ UpdateFilePost(d, w)
    PROVE  TypeOK'
  <1> DEFINE j == job[d][w]
  <1>1. JobOK(j)
    BY TypeIs DEF JobsLinked
  <1>2. CASE UpdateFileMetaPost(d, w)
    <2>1. j.op = "rename" /\ j.step = "put"
      BY <1>2 DEF UpdateFileMetaPost, PutFilePost
    <2>2. Renaming(j)
      BY <1>1, <2>1, NoJobIs DEF JobOK, Removing
    <2> QED BY <1>2, <2>1, <2>2, MovedIs, PutTypes DEF UpdateFileMetaPost
  <1>3. CASE UpdateFilePost(d, w)
    <2>1. j.op = "delete" /\ j.step = "put"
      BY <1>3 DEF UpdateFilePost, PutFilePost
    <2>2. j.got \in PostType
      BY <1>1, <2>1, NoJobIs DEF JobOK, Removing, Renaming
    <2>3. [j.got EXCEPT !.deleted = TRUE] \in PostType
      BY <2>2 DEF PostType
    <2> QED BY <1>3, <2>3, PutTypes DEF UpdateFilePost
  <1> QED BY <1>2, <1>3

\* The steps of a rename besides the requests.
LEMMA RenameTypes ==
    ASSUME TypeOK, NEW d \in Devices, NEW w \in Workers, BeginRename(d, w) \/ LookUp(d, w)
    PROVE  TypeOK'
  <1> DEFINE j == job[d][w]
  <1>1. UNCHANGED <<disk, rows, server, news, deletes, pulls, pull, follow, user, faults>>
    BY DEF BeginRename, LookUp, asked
  <1>2. /\ DiskTyped' /\ ServerTyped' /\ NewsTyped' /\ RowsTyped' /\ PullsTyped'
        /\ FollowTyped' /\ UserTyped' /\ FaultsTyped' /\ DOMAIN posts' = DOMAIN posts
        /\ \A e \in Devices : RowsLinked(e)' /\ QueueLinked(e)' /\ SyncLinked(e)'
    BY <1>1, TypeIs, LinksKept DEF server, follow, user, DiskTyped, ServerTyped, NewsTyped,
       RowsTyped, PullsTyped, FollowTyped, UserTyped, FaultsTyped, faults
  <1>3. CASE BeginRename(d, w)
    <2> DEFINE ask == Head(renames[d])
    <2>1. ask \in Moves /\ Tail(renames[d]) \in Seq(Moves)
      BY <1>3, TypeIs DEF BeginRename, AskedTyped
    <2>2. ask.old \in Places /\ ask.new \in Places
      BY <2>1 DEF Moves
    <2>3. AskedTyped'
      BY <1>3, <2>1, <2>2, TypeIs DEF BeginRename, AskedTyped
    <2>4. CASE UNCHANGED job
      BY <1>2, <2>3, <2>4, TypeIs, TypeNext, LinksKept
    <2> DEFINE n == [NoJob EXCEPT !.op = "rename", !.step = "look",
                                  !.old = ask.old, !.new = ask.new]
    <2>5. CASE Goes(d, w, n)
      <3>1. JobOK(n) /\ n.fi = NoRow
        BY <2>2 DEF NoJob, JobOK, Renaming
      <3> HIDE DEF n
      <3>2. DOMAIN job' = Devices /\ \A e \in Devices : JobsLinked(e)'
        BY <1>2, <2>5, <3>1, TypeIs, GoesLinked
      <3> QED BY <1>2, <2>3, <3>2, TypeNext
    <2> QED BY <1>3, <2>4, <2>5 DEF BeginRename
  <1>4. CASE LookUp(d, w)
    <2>1. AskedTyped'
      BY <1>4, TypeIs DEF LookUp, asked, AskedTyped
    <2>2. JobOK(j) /\ j.step = "look"
      BY <1>4, TypeIs DEF LookUp, JobsLinked
    <2>3. CASE End(d, w)
      <3>1. DOMAIN job' = Devices /\ \A e \in Devices : JobsLinked(e)'
        BY <1>2, <2>3, TypeIs, GoesLinked, NoJobIs DEF End, JobOK
      <3> QED BY <1>2, <2>1, <3>1, TypeNext
    <2>4. ASSUME NEW r \in QueryByName(rows[d], j.old),
                 Goes(d, w, [j EXCEPT !.step = "get", !.fi = r])
          PROVE  TypeOK'
      <3> DEFINE n == [j EXCEPT !.step = "get", !.fi = r]
      <3>1. rows[d] \in Seq(Rows)
        BY TypeIs DEF RowsTyped
      <3>2. Holds(rows[d], r) /\ r \in Rows
        BY <2>4, <3>1, ByNameIs, HeldIs
      <3>3. r.id \in DOMAIN posts
        BY <3>2, TypeIs DEF Holds, RowsLinked
      <3>4. JobOK(n) /\ n.fi = r
        BY <2>2, <3>2, NoRowIs, NoJobIs DEF JobOK, Renaming, Removing
      <3> HIDE DEF n
      <3>5. DOMAIN job' = Devices /\ \A e \in Devices : JobsLinked(e)'
        BY <1>2, <2>4, <3>3, <3>4, TypeIs, GoesLinked DEF n
      <3> QED BY <1>2, <2>1, <3>5, TypeNext
    <2> QED BY <1>4, <2>3, <2>4 DEF LookUp
  <1> QED BY <1>3, <1>4

\* An update keeps the ids of a table.
LEMMA UpdatedTable ==
    ASSUME TypeOK, NEW d \in Devices, NEW table \in Seq(Rows), Keyed(table),
           DOMAIN table = DOMAIN rows[d], \A i \in DOMAIN rows[d] : table[i].id = rows[d][i].id,
           rows' = [rows EXCEPT ![d] = table], sync' = sync, posts' = posts
    PROVE  RowsTyped' /\ \A e \in Devices : RowsLinked(e)' /\ SyncLinked(e)'
  <1>1. \A i \in DOMAIN table : table[i].id \in DOMAIN posts'
    BY TypeIs DEF RowsLinked
  <1> QED BY <1>1, TypeIs, RowsChanged

LEMMA SetTypes ==
    ASSUME TypeOK, NEW d \in Devices, NEW w \in Workers,
           SetFilepath(d, w) \/ SetFilename(d, w) \/ SetFileFolderPostId(d, w)
    PROVE  TypeOK'
  <1> DEFINE j == job[d][w]
  <1>1. UNCHANGED <<disk, server, news, renames, deletes, pulls, pull, follow, user, faults>>
    BY DEF SetFilepath, SetFilename, SetFileFolderPostId, Manifest, asked
  <1>2. /\ DiskTyped' /\ ServerTyped' /\ NewsTyped' /\ PullsTyped'
        /\ FollowTyped' /\ UserTyped' /\ FaultsTyped' /\ posts' = posts /\ sync' = sync
        /\ \A e \in Devices : QueueLinked(e)'
    BY <1>1, TypeIs, LinksKept DEF server, follow, user, DiskTyped, ServerTyped, NewsTyped,
       PullsTyped, FollowTyped, UserTyped, FaultsTyped, faults
  <1>3. JobOK(j) /\ j.step \in {"path", "name", "folder"} /\ (j.fi # NoRow => j.fi.id \in DOMAIN posts)
    BY TypeIs DEF SetFilepath, SetFilename, SetFileFolderPostId, Manifest, JobsLinked
  <1>4. Renaming(j)
    BY <1>3, NoJobIs DEF JobOK, Removing
  <1>5. j.new \in Places /\ j.new[1] \in Folders /\ j.new[2] \in Names
    BY <1>4, PlaceIs DEF Renaming
  <1>6. rows[d] \in Seq(Rows) /\ Keyed(rows[d])
    BY TypeIs DEF RowsTyped, RowsLinked
  <1>7. \A i \in DOMAIN rows[d] : rows[d][i] \in Rows
    BY <1>6
  <1> HIDE DEF j
  <1>8. CASE SetFilepath(d, w)
    <2> DEFINE table == set_filepath_for_id(rows[d], j.fi.id, j.new)
    <2>1. /\ table \in Seq(Rows) /\ Keyed(table) /\ DOMAIN table = DOMAIN rows[d]
          /\ \A i \in DOMAIN rows[d] : \/ table[i] = rows[d][i]
                                       \/ table[i] = [rows[d][i] EXCEPT !.path = j.new]
      BY <1>5, <1>6, SetPathIs
    <2>2. rows' = [rows EXCEPT ![d] = table] /\ Step(d, w, "name") /\ asked' = asked
      BY <1>8 DEF SetFilepath, Manifest, j
    <2> HIDE DEF table
    <2>3. \A i \in DOMAIN rows[d] : table[i].id = rows[d][i].id
      BY <1>7, <2>1 DEF Rows
    <2>4. RowsTyped' /\ \A e \in Devices : RowsLinked(e)' /\ SyncLinked(e)'
      BY <1>2, <2>1, <2>2, <2>3, UpdatedTable
    <2> DEFINE n == [j EXCEPT !.step = "name"]
    <2>5. JobOK(n) /\ n.fi = j.fi
      BY <1>3, <1>4 DEF JobOK, Renaming
    <2>6. Goes(d, w, n)
      BY <2>2 DEF Step, j
    <2> HIDE DEF n
    <2>7. DOMAIN job' = Devices /\ \A e \in Devices : JobsLinked(e)'
      BY <1>2, <1>3, <2>5, <2>6, TypeIs, GoesLinked
    <2>8. AskedTyped'
      BY <2>2, TypeIs DEF asked, AskedTyped
    <2> QED BY <1>2, <2>4, <2>7, <2>8, TypeNext
  <1>9. CASE SetFilename(d, w)
    <2> DEFINE table == set_filename_for_id(rows[d], j.fi.id, j.new[2])
    <2>1. /\ table \in Seq(Rows) /\ Keyed(table) /\ DOMAIN table = DOMAIN rows[d]
          /\ \A i \in DOMAIN rows[d] : \/ table[i] = rows[d][i]
                                       \/ table[i] = [rows[d][i] EXCEPT !.name = j.new[2]]
      BY <1>5, <1>6, SetNameIs
    <2>2. rows' = [rows EXCEPT ![d] = table] /\ Step(d, w, "folder") /\ asked' = asked
      BY <1>9 DEF SetFilename, Manifest, j
    <2> HIDE DEF table
    <2>3. \A i \in DOMAIN rows[d] : table[i].id = rows[d][i].id
      BY <1>7, <2>1 DEF Rows
    <2>4. RowsTyped' /\ \A e \in Devices : RowsLinked(e)' /\ SyncLinked(e)'
      BY <1>2, <2>1, <2>2, <2>3, UpdatedTable
    <2> DEFINE n == [j EXCEPT !.step = "folder"]
    <2>5. JobOK(n) /\ n.fi = j.fi
      BY <1>3, <1>4 DEF JobOK, Renaming
    <2>6. Goes(d, w, n)
      BY <2>2 DEF Step, j
    <2> HIDE DEF n
    <2>7. DOMAIN job' = Devices /\ \A e \in Devices : JobsLinked(e)'
      BY <1>2, <1>3, <2>5, <2>6, TypeIs, GoesLinked
    <2>8. AskedTyped'
      BY <2>2, TypeIs DEF asked, AskedTyped
    <2> QED BY <1>2, <2>4, <2>7, <2>8, TypeNext
  <1>10. CASE SetFileFolderPostId(d, w)
    <2> DEFINE table == set_folder_post_id(rows[d], j.fi.id, j.new[1])
    <2>1. /\ table \in Seq(Rows) /\ Keyed(table) /\ DOMAIN table = DOMAIN rows[d]
          /\ \A i \in DOMAIN rows[d] : \/ table[i] = rows[d][i]
                                       \/ table[i] = [rows[d][i] EXCEPT !.folder = j.new[1]]
      BY <1>5, <1>6, SetFolderIs
    <2>2. /\ rows' = [rows EXCEPT ![d] = table] /\ End(d, w)
          /\ pushes' = [pushes EXCEPT ![d] = @ \cup {j.new}] /\ UNCHANGED <<renames, deletes>>
      BY <1>10 DEF SetFileFolderPostId, j
    <2> HIDE DEF table
    <2>3. \A i \in DOMAIN rows[d] : table[i].id = rows[d][i].id
      BY <1>7, <2>1 DEF Rows
    <2>4. RowsTyped' /\ \A e \in Devices : RowsLinked(e)' /\ SyncLinked(e)'
      BY <1>2, <2>1, <2>2, <2>3, UpdatedTable
    <2>5. DOMAIN job' = Devices /\ \A e \in Devices : JobsLinked(e)'
      BY <1>2, <2>2, TypeIs, GoesLinked, NoJobIs DEF End, JobOK
    <2>6. AskedTyped'
      BY <1>5, <2>2, TypeIs DEF AskedTyped
    <2> QED BY <1>2, <2>4, <2>5, <2>6, TypeNext
  <1> QED BY <1>8, <1>9, <1>10

LEMMA BeginDeleteTypes ==
    ASSUME TypeOK, NEW d \in Devices, NEW w \in Workers, BeginDelete(d, w)
    PROVE  TypeOK'
  <1> DEFINE p == Head(deletes[d])
  <1> DEFINE fi == QueryForFile(rows[d], p)
  <1>1. /\ UNCHANGED <<disk, server, news, renames, pushes, pulls, pull, follow, user, faults>>
        /\ deletes' = [deletes EXCEPT ![d] = Tail(@)] /\ deletes[d] # << >>
    BY DEF BeginDelete
  <1>2. p \in Places /\ AskedTyped'
    BY <1>1, TypeIs DEF AskedTyped
  <1>3. /\ DiskTyped' /\ ServerTyped' /\ NewsTyped' /\ PullsTyped'
        /\ FollowTyped' /\ UserTyped' /\ FaultsTyped' /\ posts' = posts /\ sync' = sync
        /\ \A e \in Devices : QueueLinked(e)'
    BY <1>1, TypeIs, LinksKept DEF server, follow, user, DiskTyped, ServerTyped, NewsTyped,
       PullsTyped, FollowTyped, UserTyped, FaultsTyped, faults
  <1>4. CASE UNCHANGED <<rows, job>>
    <2>1. RowsTyped' /\ \A e \in Devices : RowsLinked(e)' /\ SyncLinked(e)' /\ JobsLinked(e)'
      BY <1>3, <1>4, TypeIs, LinksKept DEF RowsTyped
    <2>2. DOMAIN job' = Devices
      BY <1>4, TypeIs
    <2> QED BY <1>2, <1>3, <2>1, <2>2, TypeNext
  <1> DEFINE n == [NoJob EXCEPT !.op = "delete", !.step = "get", !.old = p, !.fi = fi]
  <1> DEFINE table == set_file_deleted_for_id(rows[d], fi.id)
  <1>5. CASE fi # NoRow /\ rows' = [rows EXCEPT ![d] = table] /\ Goes(d, w, n)
    <2>1. rows[d] \in Seq(Rows) /\ Keyed(rows[d])
      BY TypeIs DEF RowsTyped, RowsLinked
    <2>2. Holds(rows[d], fi) /\ fi \in Rows
      BY <1>5, <2>1, QueryIs
    <2>3. fi.id \in DOMAIN posts
      BY <2>2, TypeIs DEF Holds, RowsLinked
    <2>4. /\ table \in Seq(Rows) /\ Keyed(table) /\ DOMAIN table = DOMAIN rows[d]
          /\ \A i \in DOMAIN rows[d] : \/ table[i] = rows[d][i]
                                       \/ table[i] = [rows[d][i] EXCEPT !.deleted = TRUE]
      BY <2>1, SetDeletedIs
    <2>5. \A i \in DOMAIN rows[d] : rows[d][i] \in Rows
      BY <2>1
    <2>6. JobOK(n) /\ n.fi = fi
      <3> HIDE DEF fi, p
      <3> QED BY <1>2, <2>2 DEF NoJob, JobOK, Removing
    <2> HIDE DEF n, table, fi, p
    <2>7. \A i \in DOMAIN rows[d] : table[i].id = rows[d][i].id
      BY <2>4, <2>5 DEF Rows
    <2>8. RowsTyped' /\ \A e \in Devices : RowsLinked(e)' /\ SyncLinked(e)'
      BY <1>3, <1>5, <2>4, <2>7, UpdatedTable
    <2>9. DOMAIN job' = Devices /\ \A e \in Devices : JobsLinked(e)'
      BY <1>3, <1>5, <2>3, <2>6, TypeIs, GoesLinked
    <2> QED BY <1>2, <1>3, <2>8, <2>9, TypeNext
  <1> QED BY <1>4, <1>5 DEF BeginDelete

\* A row put into a table leaves it one, with the ids it had.
LEMMA InsertedTable ==
    ASSUME TypeOK, NEW d \in Devices, NEW r \in Rows, r.id \in DOMAIN posts',
           rows' = [rows EXCEPT ![d] = InsertFileInfo(@, r)],
           sync' = sync, DOMAIN posts \subseteq DOMAIN posts'
    PROVE  RowsTyped' /\ \A e \in Devices : RowsLinked(e)' /\ SyncLinked(e)'
  <1> DEFINE table == InsertFileInfo(rows[d], r)
  <1>1. rows[d] \in Seq(Rows) /\ Keyed(rows[d])
    BY TypeIs DEF RowsTyped, RowsLinked
  <1>2. /\ table \in Seq(Rows) /\ Keyed(table) /\ Holds(table, r)
        /\ \A x : Holds(table, x) => x = r \/ Holds(rows[d], x)
        /\ \A x : Holds(rows[d], x) => Holds(table, x) \/ Key(x) = Key(r)
    BY <1>1, InsertIs
  <1>3. rows' = [rows EXCEPT ![d] = table]
    BY TypeIs DEF RowsTyped
  <1> HIDE DEF table
  <1>4. \A i \in DOMAIN table : table[i].id \in DOMAIN posts'
    <2>1. \A x : Holds(rows[d], x) => x.id \in DOMAIN posts
      BY TypeIs DEF Holds, RowsLinked
    <2> QED BY <1>2, <2>1 DEF Holds
  <1>5. \A i \in DOMAIN rows[d] : \E n \in DOMAIN table : table[n].id = rows[d][i].id
    <2>1. \A x : Key(x) = Key(r) => x.id = r.id
      BY DEF Key
    <2> QED BY <1>2, <2>1 DEF Holds
  <1> QED BY <1>2, <1>3, <1>4, <1>5, TypeIs, RowsChanged

LEMMA PushTypes ==
    ASSUME TypeOK, NEW d \in Devices, NEW p \in Places, PushFile(d, p)
    PROVE  TypeOK'
  <1> DEFINE k == disk[d][p]
  <1> DEFINE fi == QueryForFile(rows[d], p)
  <1> DEFINE new == IF fi = NoRow THEN Row(p, Len(posts) + 1, k) ELSE [fi EXCEPT !.file = k]
  <1>1. /\ UNCHANGED <<disk, renames, deletes, pulls, job, pull, follow, user, faults>>
        /\ pushes' = [pushes EXCEPT ![d] = @ \ {p}]
    BY DEF PushFile
  <1>2. /\ DiskTyped' /\ AskedTyped' /\ PullsTyped'
        /\ FollowTyped' /\ UserTyped' /\ FaultsTyped' /\ sync' = sync /\ DOMAIN job' = Devices
    BY <1>1, TypeIs DEF follow, user, DiskTyped, AskedTyped, PullsTyped, FollowTyped, UserTyped, FaultsTyped, faults
  <1>3. CASE UNCHANGED <<rows, server, news>>
    <2>1. /\ ServerTyped' /\ NewsTyped' /\ RowsTyped'
          /\ \A e \in Devices : RowsLinked(e)' /\ JobsLinked(e)' /\ QueueLinked(e)' /\ SyncLinked(e)'
      BY <1>1, <1>3, TypeIs, LinksKept DEF server, follow, ServerTyped, NewsTyped, RowsTyped
    <2> QED BY <1>2, <2>1, TypeNext
  <1>4. CASE /\ k # None /\ fi.file # k /\ new.id <= MaxPosts
             /\ rows' = [rows EXCEPT ![d] = InsertFileInfo(@, new)]
             /\ posts' = [i \in DOMAIN posts \cup {new.id} |->
                            IF i = new.id THEN Post(new, FALSE) ELSE posts[i]]
             /\ Changed(new.id)
    <2>1. rows[d] \in Seq(Rows) /\ posts \in Seq(PostType) /\ MaxPosts \in Nat /\ Len(posts) <= MaxPosts
      BY TypeIs, FileNamesAssumption DEF RowsTyped, ServerTyped
    <2>2. k \in Files
      BY <1>4, TypeIs DEF DiskTyped
    <2> HIDE DEF k
    <2>3. /\ new \in Rows
          /\ (new.id = Len(posts) + 1 /\ new.id <= MaxPosts) \/ new.id \in DOMAIN posts
      <3>1. CASE fi = NoRow
        <4>1. Len(posts) + 1 \in Ids
          <5>1. new = Row(p, Len(posts) + 1, k)
            BY <3>1
          <5>2. Row(p, Len(posts) + 1, k).id = Len(posts) + 1
            BY DEF Row
          <5>3. Len(posts) + 1 <= MaxPosts
            BY <1>4, <5>1, <5>2
          <5> QED BY <2>1, <5>3 DEF Ids
        <4>2. Row(p, Len(posts) + 1, k) \in Rows /\ Row(p, Len(posts) + 1, k).id = Len(posts) + 1
          BY <2>2, <4>1, RowIs
        <4>3. new = Row(p, Len(posts) + 1, k)
          BY <3>1
        <4> HIDE DEF new
        <4> QED BY <1>4, <4>2, <4>3
      <3>2. CASE fi # NoRow
        <4>1. fi \in Rows /\ Holds(rows[d], fi)
          BY <2>1, <3>2, QueryIs
        <4>2. fi.id \in DOMAIN posts
          BY <4>1, TypeIs DEF Holds, RowsLinked
        <4>3. new = [fi EXCEPT !.file = k]
          BY <3>2
        <4> HIDE DEF new, fi
        <4>4. new \in Rows /\ new.id = fi.id
          BY <2>2, <4>1, <4>3 DEF Rows
        <4> QED BY <4>2, <4>4
      <3> QED BY <3>1, <3>2
    <2> HIDE DEF new, fi
    <2>4. Post(new, FALSE) \in PostType
      BY <2>3, PostIs
    <2>5. /\ posts' \in Seq(PostType) /\ Len(posts') <= MaxPosts
          /\ DOMAIN posts' = DOMAIN posts \cup {new.id}
      <3>1. CASE new.id \in DOMAIN posts
        <4>0. DOMAIN posts = 1 .. Len(posts) /\ DOMAIN posts \cup {new.id} = 1 .. Len(posts)
              /\ \A i \in 1 .. Len(posts) : posts[i] \in PostType
          BY <2>1, <3>1
        <4>1. DOMAIN posts' = 1 .. Len(posts) /\ \A i \in 1 .. Len(posts) : posts'[i] \in PostType
          BY <1>4, <2>4, <4>0
        <4>2. posts' = [i \in 1 .. Len(posts) |-> posts'[i]]
          BY <1>4, <4>1
        <4>3. posts' \in Seq(PostType) /\ Len(posts') = Len(posts)
          BY <2>1, <4>1, <4>2
        <4> QED BY <2>1, <3>1, <4>1, <4>3
      <3>2. CASE new.id = Len(posts) + 1 /\ new.id <= MaxPosts
        <4> DEFINE m == Len(posts) + 1
        <4>1. m \in Nat /\ DOMAIN posts = 1 .. Len(posts) /\ 1 .. m = DOMAIN posts \cup {m}
              /\ \A i \in 1 .. m : i # m => posts[i] \in PostType
          BY <2>1
        <4> HIDE DEF m
        <4>5. new.id = m
          BY <3>2 DEF m
        <4>2. DOMAIN posts' = 1 .. m /\ \A i \in 1 .. m : posts'[i] \in PostType
          BY <1>4, <2>4, <4>5, <4>1
        <4>3. posts' = [i \in 1 .. m |-> posts'[i]]
          BY <1>4, <4>2
        <4>4. posts' \in Seq(PostType) /\ Len(posts') = m
          BY <4>1, <4>2, <4>3
        <4> QED BY <2>1, <3>2, <4>1, <4>2, <4>4, <4>5
      <3> QED BY <2>3, <3>1, <3>2
    <2>6. ServerTyped' /\ NewsTyped'
      BY <1>4, <2>5, TypeIs, ChangedTypes
    <2>7. RowsTyped' /\ \A e \in Devices : RowsLinked(e)' /\ SyncLinked(e)'
      BY <1>2, <1>4, <2>3, <2>5, InsertedTable
    <2>8. \A e \in Devices : JobsLinked(e)' /\ QueueLinked(e)'
      BY <1>1, <2>5, TypeIs, LinksKept DEF follow
    <2> QED BY <1>2, <2>6, <2>7, <2>8, TypeNext
  <1> QED BY <1>3, <1>4 DEF PushFile

\* An element of a sequence put after another is one of either, and both are in it.
LEMMA JoinIs ==
    ASSUME NEW S, NEW s \in Seq(S), NEW t \in Seq(S)
    PROVE  /\ s \o t \in Seq(S) /\ Len(s \o t) = Len(s) + Len(t)
           /\ \A i \in DOMAIN s : i \in DOMAIN (s \o t) /\ (s \o t)[i] = s[i]
           /\ \A i \in DOMAIN t : Len(s) + i \in DOMAIN (s \o t) /\ (s \o t)[Len(s) + i] = t[i]
           /\ \A i \in DOMAIN (s \o t) :
                (i \in DOMAIN s /\ (s \o t)[i] = s[i])
                \/ (i - Len(s) \in DOMAIN t /\ (s \o t)[i] = t[i - Len(s)])
  OBVIOUS

\* A sequence of posts there are, each of live in it.
Polled(live, new) ==
  /\ new \in Seq(DOMAIN posts)
  /\ \A n \in DOMAIN new : new[n] \in live
  /\ \A i \in live : \E n \in DOMAIN new : new[n] = i

LEMMA PolledIs ==
    ASSUME TypeOK, NEW d \in Devices, NEW live, live \subseteq DOMAIN posts,
           NEW new, new = Kept(order, {n \in DOMAIN order : order[n] \in live})
    PROVE  Polled(live, new)
  <1> DEFINE keep == {n \in DOMAIN order : order[n] \in live}
  <1>1. order \in Seq(DOMAIN posts) /\ Range(order) = DOMAIN posts
    BY TypeIs DEF ServerTyped
  <1>2. keep \subseteq DOMAIN order /\ \A n \in DOMAIN order : order[n] \in live <=> n \in keep
    OBVIOUS
  <1>3. \A i \in live : \E n \in keep : order[n] = i
    BY <1>1 DEF Range
  <1>7. live \subseteq DOMAIN posts
    OBVIOUS
  <1> HIDE DEF keep
  <1>4. new = Kept(order, keep)
    BY DEF keep
  <1>6. /\ Kept(order, keep) \in Seq(DOMAIN posts)
        /\ \A i \in keep : \E n \in DOMAIN Kept(order, keep) : Kept(order, keep)[n] = order[i]
        /\ \A n \in DOMAIN Kept(order, keep) : \E i \in keep : Kept(order, keep)[n] = order[i]
    BY <1>1, <1>2, KeptIs
  <1>5. /\ new \in Seq(DOMAIN posts)
        /\ \A i \in keep : \E n \in DOMAIN new : new[n] = order[i]
        /\ \A n \in DOMAIN new : \E i \in keep : new[n] = order[i]
    BY <1>4, <1>6
  <1>8. ASSUME NEW n \in DOMAIN new PROVE new[n] \in live
    <2>1. PICK i \in keep : new[n] = order[i]
      BY <1>5
    <2> QED BY <1>2, <2>1
  <1>9. ASSUME NEW i \in live PROVE \E n \in DOMAIN new : new[n] = i
    <2>1. PICK m \in keep : order[m] = i
      BY <1>3
    <2> QED BY <1>5, <2>1
  <1> QED BY <1>5, <1>8, <1>9 DEF Polled

Items(new) == [i \in DOMAIN new |-> [id |-> new[i], post |-> posts[new[i]]]]

LEMMA PollTypes ==
    ASSUME TypeOK, NEW d \in Devices, Poll(d)
    PROVE  TypeOK'
  <1>1. UNCHANGED <<rows, server, asked, pulls, job, pull, user, failures>> /\ sync' = sync
    BY DEF Poll, PollDeletedFilePosts, PollFilePosts, follow, faults
  <1>2. Deleted(news[d]) \subseteq Nat
    BY TypeIs DEF Deleted, NewsTyped, ServerTyped
  <1>3. missed' = missed \/ missed' = [missed EXCEPT ![d] = @ \cup Deleted(news[d])]
    BY DEF Poll, PollDeletedFilePosts, PollFilePosts, faults
  <1>4. FaultsTyped'
    BY <1>1, <1>2, <1>3, TypeIs DEF FaultsTyped
  <1>5. /\ ServerTyped' /\ RowsTyped' /\ AskedTyped' /\ PullsTyped' /\ UserTyped' /\ FaultsTyped'
        /\ DOMAIN job' = Devices /\ posts' = posts
        /\ \A e \in Devices : RowsLinked(e)' /\ JobsLinked(e)' /\ SyncLinked(e)'
    BY <1>1, <1>4, TypeIs, LinksKept DEF server, asked, user, ServerTyped, RowsTyped, AskedTyped,
       PullsTyped, UserTyped
  <1>6. CASE PollDeletedFilePosts(d)
    <2>1. NewsTyped' /\ DiskTyped'
      BY <1>5, <1>6, TypeIs DEF PollDeletedFilePosts, NewsTyped, DiskTyped
    <2>2. FollowTyped' /\ \A e \in Devices : QueueLinked(e)'
      BY <1>5, <1>6, TypeIs, LinksKept DEF PollDeletedFilePosts, follow, FollowTyped
    <2> QED BY <1>5, <2>1, <2>2, TypeNext
  <1>7. CASE PollFilePosts(d)
    <2> DEFINE live == news[d] \ Deleted(news[d])
    <2> DEFINE new == Kept(order, {n \in DOMAIN order : order[n] \in live})
    <2>1. NewsTyped' /\ DiskTyped'
      BY <1>5, <1>7, TypeIs DEF PollFilePosts, NewsTyped, DiskTyped, Deleted
    <2>2. live \subseteq DOMAIN posts
      BY TypeIs DEF NewsTyped
    <2>3. new \in Seq(DOMAIN posts)
      <3> HIDE DEF live
      <3> QED BY <2>2, PolledIs DEF Polled
    <2>4. queue' = [queue EXCEPT ![d] = @ \o Items(new)]
      BY <1>7 DEF PollFilePosts, Items
    <2> HIDE DEF new
    <2>5. posts \in Seq(PostType) /\ Len(posts) <= MaxPosts /\ MaxPosts \in Nat
      BY TypeIs, FileNamesAssumption DEF ServerTyped
    <2>6. /\ Items(new) \in Seq([id : Ids, post : PostType])
          /\ \A i \in DOMAIN Items(new) : Items(new)[i].id \in DOMAIN posts
      <3>1. \A n \in DOMAIN new : new[n] \in DOMAIN posts /\ new[n] \in Ids /\ posts[new[n]] \in PostType
        BY <2>3, <2>5 DEF Ids
      <3>2. DOMAIN new = 1 .. Len(new) /\ Len(new) \in Nat
        BY <2>3
      <3>3. \A i \in 1 .. Len(new) : Items(new)[i] \in [id : Ids, post : PostType]
        BY <3>1, <3>2 DEF Items
      <3>4. Items(new) = [i \in 1 .. Len(new) |-> Items(new)[i]]
        BY <3>2 DEF Items
      <3> QED BY <3>1, <3>2, <3>3, <3>4 DEF Items
    <2>9. queue[d] \in Seq([id : Ids, post : PostType]) /\ queue'[d] = queue[d] \o Items(new)
          /\ queue' = [queue EXCEPT ![d] = queue'[d]]
      BY <2>4, TypeIs DEF FollowTyped
    <2>10. queue'[d] \in Seq([id : Ids, post : PostType])
      BY <2>6, <2>9
    <2>7. FollowTyped'
      <3>1. queue \in [Devices -> Seq([id : Ids, post : PostType])]
            /\ sync \in [Devices -> Waits \cup {NoSync}]
        BY TypeIs DEF FollowTyped
      <3>2. queue' \in [Devices -> Seq([id : Ids, post : PostType])]
        BY <2>9, <2>10, <3>1
      <3> QED BY <1>1, <3>1, <3>2 DEF FollowTyped
    <2>8. ASSUME NEW e \in Devices PROVE QueueLinked(e)'
      <3>1. CASE e = d
        <4>2. \A i \in DOMAIN queue'[d] :
                 (\E n \in DOMAIN queue[d] : queue'[d][i] = queue[d][n])
                 \/ (\E n \in DOMAIN Items(new) : queue'[d][i] = Items(new)[n])
          <5>1. PICK s : s = queue[d]
            OBVIOUS
          <5>2. PICK t : t = Items(new)
            OBVIOUS
          <5>3. PICK u : u = queue'[d]
            OBVIOUS
          <5>4. /\ s \in Seq([id : Ids, post : PostType]) /\ t \in Seq([id : Ids, post : PostType])
                /\ u = s \o t
            BY <2>6, <2>9, <5>1, <5>2, <5>3
          <5>5. \A i \in DOMAIN u : (i \in DOMAIN s /\ u[i] = s[i])
                                   \/ (i - Len(s) \in DOMAIN t /\ u[i] = t[i - Len(s)])
            BY <5>4, JoinIs
          <5>6. \A i \in DOMAIN u : (\E n \in DOMAIN s : u[i] = s[n]) \/ (\E n \in DOMAIN t : u[i] = t[n])
            BY <5>5
          <5> QED BY <5>1, <5>2, <5>3, <5>6
        <4> QED BY <1>5, <2>6, <3>1, <4>2, TypeIs DEF QueueLinked
      <3>2. CASE e # d
        BY <1>5, <2>4, <3>2, TypeIs, LinksKept DEF FollowTyped
      <3> QED BY <3>1, <3>2
    <2> QED BY <1>5, <2>1, <2>7, <2>8, TypeNext
  <1> QED BY <1>6, <1>7 DEF Poll

\* FileSync takes the first post of its queue.
LEMMA TakenIs ==
    ASSUME TypeOK, NEW d \in Devices, queue[d] # << >>, queue' = [queue EXCEPT ![d] = Tail(@)],
           sync' \in [Devices -> Waits \cup {NoSync}], posts' = posts
    PROVE  /\ Head(queue[d]) \in [id : Ids, post : PostType] /\ Head(queue[d]).id \in DOMAIN posts
           /\ Head(queue[d]).id \in Ids /\ Head(queue[d]).post \in PostType
           /\ queue[d] \in Seq([id : Ids, post : PostType]) /\ Len(queue[d]) \in Nat /\ Len(queue[d]) > 0
           /\ queue'[d] \in Seq([id : Ids, post : PostType]) /\ Len(queue'[d]) = Len(queue[d]) - 1
           /\ Head(queue[d]) = queue[d][1]
           /\ \A i \in 1 .. Len(queue'[d]) : queue'[d][i] = queue[d][i + 1]
           /\ \A e \in Devices \ {d} : queue'[e] = queue[e]
           /\ FollowTyped' /\ \A e \in Devices : QueueLinked(e)'
  <1> DEFINE Q == [id : Ids, post : PostType]
  <1>1. queue \in [Devices -> Seq(Q)]
    BY TypeIs DEF FollowTyped
  <1> HIDE DEF Q
  <1>2. queue[d] \in Seq(Q) /\ Len(queue[d]) \in Nat /\ Len(queue[d]) > 0
    BY <1>1
  <1>3. Head(queue[d]) \in Q /\ Head(queue[d]) = queue[d][1] /\ 1 \in DOMAIN queue[d]
    BY <1>2
  <1>4. queue'[d] = Tail(queue[d]) /\ \A e \in Devices \ {d} : queue'[e] = queue[e]
    BY <1>1
  <1>12. /\ Tail(queue[d]) \in Seq(Q) /\ Len(Tail(queue[d])) = Len(queue[d]) - 1
         /\ \A i \in 1 .. Len(queue[d]) - 1 : Tail(queue[d])[i] = queue[d][i + 1]
         /\ \A i \in 1 .. Len(queue[d]) - 1 : i + 1 \in DOMAIN queue[d]
    BY <1>2
  <1>5. /\ queue'[d] \in Seq(Q) /\ Len(queue'[d]) = Len(queue[d]) - 1
        /\ \A i \in 1 .. Len(queue'[d]) : queue'[d][i] = queue[d][i + 1] /\ i + 1 \in DOMAIN queue[d]
        /\ DOMAIN queue'[d] = 1 .. Len(queue'[d])
    <2>1. queue'[d] \in Seq(Q) /\ Len(queue'[d]) = Len(queue[d]) - 1
      BY <1>4, <1>12
    <2>2. \A i \in 1 .. Len(queue'[d]) : queue'[d][i] = queue[d][i + 1] /\ i + 1 \in DOMAIN queue[d]
      BY <1>4, <1>12, <2>1
    <2>3. DOMAIN queue'[d] = 1 .. Len(queue'[d])
      BY <2>1
    <2> QED BY <2>1, <2>2, <2>3
  <1>6. queue' \in [Devices -> Seq(Q)]
    BY <1>1, <1>4, <1>5
  <1>7. FollowTyped'
    BY <1>6 DEF FollowTyped, Q
  <1>8. \A i \in DOMAIN queue[d] : queue[d][i].id \in DOMAIN posts
    BY TypeIs DEF QueueLinked
  <1>9. QueueLinked(d)'
    BY <1>5, <1>8 DEF QueueLinked
  <1>10. \A e \in Devices \ {d} : QueueLinked(e)'
    BY <1>4, TypeIs, LinksKept
  <1>11. Head(queue[d]).id \in Ids /\ Head(queue[d]).post \in PostType
    BY <1>3 DEF Q
  <1> QED BY <1>2, <1>3, <1>4, <1>5, <1>7, <1>8, <1>9, <1>10, <1>11 DEF Q

LEMMA ProcessTypes ==
    ASSUME TypeOK, NEW d \in Devices, ProcessFilePost(d)
    PROVE  TypeOK'
  <1> DEFINE item == Head(queue[d])
  <1> DEFINE local == QueryForFileByPostId(rows[d], item.id)
  <1>1. /\ UNCHANGED <<disk, server, news, asked, job, pull, user, faults>>
        /\ sync[d] = NoSync /\ queue[d] # << >> /\ queue' = [queue EXCEPT ![d] = Tail(@)]
    BY DEF ProcessFilePost
  <1>2. /\ DiskTyped' /\ ServerTyped' /\ NewsTyped' /\ AskedTyped' /\ UserTyped' /\ FaultsTyped'
        /\ DOMAIN job' = Devices /\ posts' = posts /\ \A e \in Devices : JobsLinked(e)'
    BY <1>1, TypeIs, LinksKept DEF server, asked, user, DiskTyped, ServerTyped, NewsTyped, AskedTyped,
       UserTyped, FaultsTyped, faults
  <1>3. /\ rows[d] \in Seq(Rows) /\ pulls \in [Devices -> SUBSET Places]
        /\ pull \in [Devices -> Rows \cup {NoRow}] /\ sync \in [Devices -> Waits \cup {NoSync}]
    BY TypeIs DEF RowsTyped, PullsTyped, FollowTyped
  <1>4. CASE local = NoRow
    <2> DEFINE r == RowOf(item.post, item.id)
    <2>1. /\ rows' = [rows EXCEPT ![d] = InsertFileInfo(@, r)]
          /\ pulls' = [pulls EXCEPT ![d] = @ \cup {item.post.path}] /\ sync' = sync
      BY <1>4 DEF ProcessFilePost
    <2>2. /\ item.id \in Ids /\ item.post \in PostType /\ item.id \in DOMAIN posts
          /\ FollowTyped' /\ \A e \in Devices : QueueLinked(e)'
      BY <1>1, <1>2, <1>3, <2>1, TakenIs
    <2> HIDE DEF item
    <2>3. r \in Rows /\ r.id \in DOMAIN posts'
      BY <1>2, <2>2, RowOfIs
    <2> HIDE DEF r
    <2>4. RowsTyped' /\ \A e \in Devices : RowsLinked(e)' /\ SyncLinked(e)'
      BY <1>2, <2>1, <2>3, InsertedTable
    <2>5. item.post.path \in Places
      BY <2>2 DEF PostType
    <2>6. PullsTyped'
      BY <1>1, <1>3, <2>1, <2>5 DEF PullsTyped
    <2> QED BY <1>2, <2>2, <2>4, <2>6, TypeNext
  <1>5. CASE local # NoRow
    <2> DEFINE s == [step |-> "name", id |-> item.id, post |-> item.post, local |-> local]
    <2>1. sync' = [sync EXCEPT ![d] = s] /\ rows' = rows /\ pulls' = pulls
      BY <1>5 DEF ProcessFilePost
    <2>2. Holds(rows[d], local) /\ local \in Rows /\ local.id = item.id
      <3> HIDE DEF item
      <3> QED BY <1>3, <1>5, QueryByIdIs
    <2>3. queue \in [Devices -> Seq([id : Ids, post : PostType])]
      BY TypeIs DEF FollowTyped
    <2>4. item \in [id : Ids, post : PostType]
      <3> DEFINE Q == [id : Ids, post : PostType]
      <3>1. queue[d] \in Seq(Q)
        BY <2>3
      <3> HIDE DEF Q
      <3>2. Head(queue[d]) \in Q
        BY <1>1, <3>1
      <3> QED BY <3>2 DEF Q
    <2> HIDE DEF item, local
    <2>5. s \in Waits /\ s.id = item.id
      BY <2>2, <2>4 DEF Waits
    <2> HIDE DEF s
    <2>6. sync' \in [Devices -> Waits \cup {NoSync}]
      BY <1>3, <2>1, <2>5
    <2>7. FollowTyped' /\ \A e \in Devices : QueueLinked(e)'
      BY <1>1, <1>2, <2>6, TakenIs
    <2>8. RowsTyped' /\ PullsTyped' /\ \A e \in Devices : RowsLinked(e)'
      BY <1>1, <1>2, <2>1, TypeIs, LinksKept DEF RowsTyped, PullsTyped
    <2>9. ASSUME NEW e \in Devices PROVE SyncLinked(e)'
      <3>1. CASE e = d
        BY <1>3, <2>1, <2>2, <2>5, <3>1 DEF SyncLinked, Holds
      <3>2. CASE e # d
        BY <1>2, <1>3, <2>1, <3>2, TypeIs, LinksKept
      <3> QED BY <3>1, <3>2
    <2> QED BY <1>2, <2>7, <2>8, <2>9, TypeNext
  <1> QED BY <1>4, <1>5

\* What FileSync works on is what it was, and its row is there.
LEMMA SyncIs ==
    ASSUME TypeOK, NEW d \in Devices, sync[d].step # "idle",
           NEW fi, fi = QueryForFileByPostId(rows[d], sync[d].id)
    PROVE  /\ sync[d] \in Waits /\ sync[d].id \in Ids /\ sync[d].post \in PostType
           /\ sync[d].local \in Rows /\ sync[d] # NoSync
           /\ rows[d] \in Seq(Rows) /\ Keyed(rows[d]) /\ Holds(rows[d], fi) /\ fi \in Rows
           /\ fi.id = sync[d].id
  <1>1. /\ sync \in [Devices -> Waits \cup {NoSync}] /\ rows[d] \in Seq(Rows) /\ Keyed(rows[d])
        /\ SyncLinked(d)
    BY TypeIs DEF FollowTyped, RowsTyped, RowsLinked
  <1>2. sync[d] \in Waits /\ sync[d] # NoSync
    BY <1>1, NoSyncIs
  <1>3. \E i \in DOMAIN rows[d] : rows[d][i].id = sync[d].id
    BY <1>1, <1>2 DEF SyncLinked
  <1>4. Holds(rows[d], fi) /\ fi \in Rows /\ fi.id = sync[d].id
    BY <1>1, <1>3, QueryByIdIs DEF Holds
  <1> QED BY <1>1, <1>2, <1>4 DEF Waits

\* A step of FileSync leaves the post it works on and what it read.
LEMMA SyncStep ==
    ASSUME TypeOK, NEW d \in Devices, sync[d] \in Waits, NEW next \in {"name", "folder", "check"},
           sync' = [sync EXCEPT ![d].step = next]
    PROVE  /\ sync' \in [Devices -> Waits \cup {NoSync}] /\ sync'[d] = [sync[d] EXCEPT !.step = next]
           /\ \A e \in Devices \ {d} : sync'[e] = sync[e]
  <1>1. sync \in [Devices -> Waits \cup {NoSync}]
    BY TypeIs DEF FollowTyped
  <1>2. [sync[d] EXCEPT !.step = next] \in Waits
    BY DEF Waits
  <1> QED BY <1>1, <1>2

\* A file of a device is somewhere else.
LEMMA RenamedIs ==
    ASSUME DiskTyped, NEW d \in Devices, NEW p, NEW q \in Places, Free(d, p, q), p \in Places,
           disk' = [disk EXCEPT ![d] = Renamed(d, p, q)]
    PROVE  /\ DiskTyped' /\ p # q /\ disk'[d][p] = None /\ disk'[d][q] = disk[d][p]
           /\ \A x \in Places : x # p /\ x # q => disk'[d][x] = disk[d][x]
           /\ \A e \in Devices \ {d} : disk'[e] = disk[e]
  BY DEF DiskTyped, Renamed, Free

LEMMA RenameFileTypes ==
    ASSUME TypeOK, NEW d \in Devices, RenameFileLocalCache(d) \/ UpdateFilepath(d)
    PROVE  TypeOK'
  <1> DEFINE s == sync[d]
  <1> DEFINE fi == QueryForFileByPostId(rows[d], s.id)
  <1>1. /\ UNCHANGED <<server, news, asked, pulls, job, pull, queue, user, faults>>
        /\ s.step \in {"name", "folder"}
    BY DEF RenameFileLocalCache, UpdateFilepath
  <1>2. /\ ServerTyped' /\ NewsTyped' /\ AskedTyped' /\ PullsTyped' /\ UserTyped' /\ FaultsTyped'
        /\ DOMAIN job' = Devices /\ posts' = posts /\ queue' = queue
        /\ \A e \in Devices : JobsLinked(e)' /\ QueueLinked(e)'
    BY <1>1, TypeIs, LinksKept DEF server, asked, user, ServerTyped, NewsTyped, AskedTyped, PullsTyped,
       UserTyped, FaultsTyped, faults
  <1>3. /\ s \in Waits /\ s.id \in Ids /\ s.post \in PostType /\ s.local \in Rows /\ s # NoSync
        /\ rows[d] \in Seq(Rows) /\ Keyed(rows[d]) /\ Holds(rows[d], fi) /\ fi \in Rows /\ fi.id = s.id
    BY <1>1, SyncIs
  <1>4. PICK next \in {"name", "folder", "check"} : sync' = [sync EXCEPT ![d].step = next]
    BY DEF RenameFileLocalCache, UpdateFilepath
  <1>5. /\ sync' \in [Devices -> Waits \cup {NoSync}] /\ sync'[d] = [sync[d] EXCEPT !.step = next]
        /\ \A e \in Devices \ {d} : sync'[e] = sync[e]
    BY <1>3, <1>4, SyncStep
  <1>6. FollowTyped'
    BY <1>2, <1>5, TypeIs DEF FollowTyped
  <1>7. sync'[d].id = s.id
    BY <1>3, <1>5 DEF Waits
  <1> HIDE DEF s, fi
  <1>8. ASSUME NEW table \in Seq(Rows), Keyed(table), DOMAIN table = DOMAIN rows[d],
               \A i \in DOMAIN rows[d] : table[i].id = rows[d][i].id,
               rows' = [rows EXCEPT ![d] = table]
        PROVE  RowsTyped' /\ \A e \in Devices : RowsLinked(e)' /\ SyncLinked(e)'
    <2>1. rows'[d] = table /\ RowsTyped' /\ \A e \in Devices \ {d} : rows'[e] = rows[e]
      BY <1>8, TypeIs DEF RowsTyped
    <2>2. \A i \in DOMAIN rows[d] : rows[d][i].id \in DOMAIN posts
      BY TypeIs DEF RowsLinked
    <2>3. RowsLinked(d)'
      BY <1>2, <1>8, <2>1, <2>2 DEF RowsLinked
    <2>4. SyncLinked(d)'
      BY <1>3, <1>7, <1>8, <2>1 DEF SyncLinked, Holds
    <2>5. \A e \in Devices \ {d} : RowsLinked(e)' /\ SyncLinked(e)'
      BY <1>2, <1>5, <2>1, TypeIs, LinksKept
    <2> QED BY <2>1, <2>3, <2>4, <2>5
  <1>9. CASE UNCHANGED <<disk, rows>>
    <2>1. DiskTyped'
      BY <1>9, TypeIs DEF DiskTyped
    <2>2. rows' = [rows EXCEPT ![d] = rows[d]]
      BY <1>9, TypeIs DEF RowsTyped
    <2>3. RowsTyped' /\ \A e \in Devices : RowsLinked(e)' /\ SyncLinked(e)'
      BY <1>3, <1>8, <2>2
    <2> QED BY <1>2, <1>6, <2>1, <2>3, TypeNext
  <1>10. CASE /\ Free(d, At(fi), <<fi.folder, s.post.name>>)
              /\ disk' = [disk EXCEPT ![d] = Renamed(d, At(fi), <<fi.folder, s.post.name>>)]
              /\ rows' = [rows EXCEPT ![d] = set_filename_for_id(@, s.id, s.post.name)]
    <2> DEFINE q == <<fi.folder, s.post.name>>
    <2> DEFINE table == set_filename_for_id(rows[d], s.id, s.post.name)
    <2>1. s.post.name \in Names /\ q \in Places /\ At(fi) \in Places
      BY <1>3 DEF PostType, Rows, Places, At
    <2>2. rows' = [rows EXCEPT ![d] = table]
      BY <1>10, TypeIs DEF RowsTyped
    <2> HIDE DEF q
    <2>3. DiskTyped'
      BY <1>10, <2>1, TypeIs, RenamedIs DEF q
    <2>4. /\ table \in Seq(Rows) /\ Keyed(table) /\ DOMAIN table = DOMAIN rows[d]
          /\ \A i \in DOMAIN rows[d] : \/ table[i] = rows[d][i]
                                       \/ table[i] = [rows[d][i] EXCEPT !.name = s.post.name]
      BY <1>3, <2>1, SetNameIs
    <2> HIDE DEF table
    <2>5. \A i \in DOMAIN rows[d] : rows[d][i] \in Rows
      BY <1>3
    <2>6. \A i \in DOMAIN rows[d] : table[i].id = rows[d][i].id
      BY <2>4, <2>5 DEF Rows
    <2>7. RowsTyped' /\ \A e \in Devices : RowsLinked(e)' /\ SyncLinked(e)'
      BY <1>8, <2>2, <2>4, <2>6
    <2> QED BY <1>2, <1>6, <2>3, <2>7, TypeNext
  <1>11. CASE /\ Free(d, At(fi), <<s.post.folder, fi.name>>)
              /\ disk' = [disk EXCEPT ![d] = Renamed(d, At(fi), <<s.post.folder, fi.name>>)]
              /\ rows' = [rows EXCEPT ![d] = set_folder_post_id(@, s.id, s.post.folder)]
    <2> DEFINE q == <<s.post.folder, fi.name>>
    <2> DEFINE table == set_folder_post_id(rows[d], s.id, s.post.folder)
    <2>1. s.post.folder \in Folders /\ q \in Places /\ At(fi) \in Places
      BY <1>3 DEF PostType, Rows, Places, At
    <2>2. rows' = [rows EXCEPT ![d] = table]
      BY <1>11, TypeIs DEF RowsTyped
    <2> HIDE DEF q
    <2>3. DiskTyped'
      BY <1>11, <2>1, TypeIs, RenamedIs DEF q
    <2>4. /\ table \in Seq(Rows) /\ Keyed(table) /\ DOMAIN table = DOMAIN rows[d]
          /\ \A i \in DOMAIN rows[d] : \/ table[i] = rows[d][i]
                                       \/ table[i] = [rows[d][i] EXCEPT !.folder = s.post.folder]
      BY <1>3, <2>1, SetFolderIs
    <2> HIDE DEF table
    <2>5. \A i \in DOMAIN rows[d] : rows[d][i] \in Rows
      BY <1>3
    <2>6. \A i \in DOMAIN rows[d] : table[i].id = rows[d][i].id
      BY <2>4, <2>5 DEF Rows
    <2>7. RowsTyped' /\ \A e \in Devices : RowsLinked(e)' /\ SyncLinked(e)'
      BY <1>8, <2>2, <2>4, <2>6
    <2> QED BY <1>2, <1>6, <2>3, <2>7, TypeNext
  <1> QED BY <1>9, <1>10, <1>11 DEF RenameFileLocalCache, UpdateFilepath, s, fi

LEMMA CheckTypes ==
    ASSUME TypeOK, NEW d \in Devices, CheckFile(d)
    PROVE  TypeOK'
  <1> DEFINE s == sync[d]
  <1> DEFINE r == RowOf(s.post, s.id)
  <1>1. /\ UNCHANGED <<disk, server, news, asked, job, pull, queue, user, faults>>
        /\ s.step = "check" /\ sync' = [sync EXCEPT ![d] = NoSync]
        /\ rows' = rows \/ rows' = [rows EXCEPT ![d] = InsertFileInfo(@, r)]
        /\ pulls' = pulls \/ pulls' = [pulls EXCEPT ![d] = @ \cup {s.post.path}]
    BY DEF CheckFile
  <1>2. /\ DiskTyped' /\ ServerTyped' /\ NewsTyped' /\ AskedTyped' /\ UserTyped' /\ FaultsTyped'
        /\ DOMAIN job' = Devices /\ posts' = posts /\ queue' = queue
        /\ \A e \in Devices : JobsLinked(e)' /\ QueueLinked(e)'
    BY <1>1, TypeIs, LinksKept DEF server, asked, user, DiskTyped, ServerTyped, NewsTyped, AskedTyped,
       UserTyped, FaultsTyped, faults
  <1>3. /\ sync \in [Devices -> Waits \cup {NoSync}]
        /\ queue \in [Devices -> Seq([id : Ids, post : PostType])]
        /\ rows \in [Devices -> Seq(Rows)] /\ pulls \in [Devices -> SUBSET Places]
        /\ pull \in [Devices -> Rows \cup {NoRow}]
    BY TypeIs DEF FollowTyped, RowsTyped, PullsTyped
  <1>4. /\ s \in Waits /\ s.id \in Ids /\ s.post \in PostType /\ s # NoSync
        /\ rows[d] \in Seq(Rows) /\ Keyed(rows[d])
    BY <1>1, SyncIs
  <1>5. sync'[d] = NoSync /\ (\A e \in Devices \ {d} : sync'[e] = sync[e]) /\ FollowTyped'
    BY <1>1, <1>2, <1>3 DEF FollowTyped
  <1>6. s.id \in DOMAIN posts
    <2>1. SyncLinked(d) /\ RowsLinked(d)
      BY TypeIs
    <2> QED BY <1>4, <2>1 DEF SyncLinked, RowsLinked
  <1>7. s.post.path \in Places /\ r \in Rows /\ r.id = s.id
    BY <1>4, RowOfIs DEF PostType
  <1> HIDE DEF s, r
  <1>8. PullsTyped'
    <2>1. pulls' \in [Devices -> SUBSET Places]
      <3>1. CASE pulls' = pulls
        BY <1>3, <3>1
      <3>2. CASE pulls' = [pulls EXCEPT ![d] = @ \cup {s.post.path}]
        BY <1>3, <1>7, <3>2
      <3> QED BY <1>1, <3>1, <3>2
    <2> QED BY <1>1, <1>3, <2>1 DEF PullsTyped
  <1>9. \A e \in Devices : rows'[e] = rows[e] => RowsLinked(e)' /\ (e # d => SyncLinked(e)')
    BY <1>2, <1>5, TypeIs, LinksKept
  <1>10. SyncLinked(d)'
    BY <1>5 DEF SyncLinked
  <1>11. RowsTyped' /\ \A e \in Devices : RowsLinked(e)' /\ SyncLinked(e)'
    <2>1. CASE rows' = rows
      BY <1>3, <1>9, <1>10, <2>1 DEF RowsTyped
    <2>2. CASE rows' = [rows EXCEPT ![d] = InsertFileInfo(@, r)]
      <3> DEFINE table == InsertFileInfo(rows[d], r)
      <3>1. /\ table \in Seq(Rows) /\ Keyed(table)
            /\ \A x : Holds(table, x) => x = r \/ Holds(rows[d], x)
        BY <1>4, <1>7, InsertIs
      <3>2. rows'[d] = table /\ \A e \in Devices \ {d} : rows'[e] = rows[e]
        BY <1>3, <2>2
      <3> HIDE DEF table
      <3>3. RowsTyped'
        BY <1>3, <2>2, <3>1, <3>2 DEF RowsTyped
      <3>4. \A x : Holds(rows[d], x) => x.id \in DOMAIN posts
        BY TypeIs DEF Holds, RowsLinked
      <3>5. \A i \in DOMAIN table : table[i].id \in DOMAIN posts
        BY <1>6, <1>7, <3>1, <3>4 DEF Holds
      <3>6. RowsLinked(d)'
        BY <1>2, <3>1, <3>2, <3>5 DEF RowsLinked
      <3> QED BY <1>9, <1>10, <3>2, <3>3, <3>6
    <2> QED BY <1>1, <2>1, <2>2
  <1> QED BY <1>2, <1>5, <1>8, <1>11, TypeNext

LEMMA SyncTypes ==
    ASSUME TypeOK, NEW d \in Devices, Sync(d)
    PROVE  TypeOK'
  BY ProcessTypes, RenameFileTypes, CheckTypes DEF Sync

LEMMA PullTypes ==
    ASSUME TypeOK, NEW d \in Devices, EndPull(d) \/ \E p \in Places : BeginPull(d, p)
    PROVE  TypeOK'
  <1>1. /\ UNCHANGED <<rows, server, news, asked, job, follow, user>>
    BY DEF BeginPull, EndPull
  <1>2. /\ ServerTyped' /\ NewsTyped' /\ RowsTyped' /\ AskedTyped' /\ FollowTyped' /\ UserTyped'
        /\ DOMAIN job' = Devices /\ posts' = posts
        /\ \A e \in Devices : RowsLinked(e)' /\ JobsLinked(e)' /\ QueueLinked(e)' /\ SyncLinked(e)'
    BY <1>1, TypeIs, LinksKept DEF server, asked, user, follow, ServerTyped, NewsTyped, RowsTyped,
       AskedTyped, FollowTyped, UserTyped
  <1>3. /\ disk \in [Devices -> [Places -> Files \cup {None}]]
        /\ pulls \in [Devices -> SUBSET Places] /\ pull \in [Devices -> Rows \cup {NoRow}]
        /\ rows[d] \in Seq(Rows)
    BY TypeIs DEF DiskTyped, PullsTyped, RowsTyped
  <1>4. ASSUME NEW p \in Places, BeginPull(d, p) PROVE TypeOK'
    <2> DEFINE fi == QueryForFile(rows[d], p)
    <2>1. fi \in Rows \cup {NoRow}
      BY <1>3, QueryIs
    <2>2. /\ disk' = disk /\ pulls' = [pulls EXCEPT ![d] = @ \ {p}]
          /\ pull' = pull \/ pull' = [pull EXCEPT ![d] = fi]
      BY <1>4 DEF BeginPull
    <2> HIDE DEF fi
    <2>4. pull' \in [Devices -> Rows \cup {NoRow}]
      <3>1. CASE pull' = pull
        BY <1>3, <3>1
      <3>2. CASE pull' = [pull EXCEPT ![d] = fi]
        BY <1>3, <2>1, <3>2
      <3> QED BY <2>2, <3>1, <3>2
    <2>3. DiskTyped' /\ PullsTyped'
      BY <1>3, <2>2, <2>4 DEF DiskTyped, PullsTyped
    <2>5. FaultsTyped'
      BY <1>4, TypeIs DEF BeginPull, FaultsTyped, faults
    <2> QED BY <1>2, <2>3, <2>5, TypeNext
  <1>5. CASE EndPull(d)
    <2>1. pull[d] \in Rows
      BY <1>3, <1>5 DEF EndPull
    <2>2. At(pull[d]) \in Places /\ pull[d].file \in Files /\ pull[d].id \in Nat
      BY <2>1 DEF Rows, At, Places, Ids
    <2>3. DiskTyped'
      BY <1>3, <1>5, <2>2 DEF EndPull, Put, DiskTyped
    <2>5. FaultsTyped'
      BY <1>5, <2>2, TypeIs DEF EndPull, Works, Fails, FaultsTyped
    <2>4. PullsTyped'
      BY <1>3, <1>5 DEF EndPull, PullsTyped
    <2> QED BY <1>2, <2>3, <2>4, <2>5, TypeNext
  <1> QED BY <1>4, <1>5

LEMMA WorkersTypes ==
    ASSUME TypeOK, NEW d \in Devices, NEW w \in Workers, Rename(d, w) \/ Delete(d, w)
    PROVE  TypeOK'
  BY GetTypes, WorkTypes, RenameTypes, SetTypes, BeginDeleteTypes DEF Rename, Delete

LEMMA TypeStutters == TypeOK /\ UNCHANGED vars => TypeOK'
  <1> SUFFICES ASSUME TypeOK, UNCHANGED vars PROVE TypeOK'
    OBVIOUS
  <1>1. /\ DiskTyped' /\ ServerTyped' /\ NewsTyped' /\ RowsTyped' /\ AskedTyped' /\ PullsTyped'
        /\ FollowTyped' /\ UserTyped' /\ FaultsTyped' /\ DOMAIN job' = Devices
    BY TypeIs DEF vars, server, asked, follow, user, DiskTyped, ServerTyped, NewsTyped, RowsTyped,
       AskedTyped, PullsTyped, FollowTyped, UserTyped, FaultsTyped, faults
  <1>2. \A d \in Devices : RowsLinked(d)' /\ JobsLinked(d)' /\ QueueLinked(d)' /\ SyncLinked(d)'
    BY TypeIs, LinksKept DEF vars, server, follow
  <1> QED BY <1>1, <1>2, TypeNext

LEMMA TypeStep == TypeOK /\ [Next]_vars => TypeOK'
  <1> SUFFICES ASSUME TypeOK, [Next]_vars PROVE TypeOK'
    OBVIOUS
  <1>1. ASSUME NEW d \in Devices, User(d) PROVE TypeOK'
    BY <1>1, UserTypes
  <1>2. ASSUME NEW d \in Devices, Poll(d) PROVE TypeOK'
    BY <1>2, PollTypes
  <1>3. ASSUME NEW d \in Devices, Sync(d) PROVE TypeOK'
    BY <1>3, SyncTypes
  <1>4. ASSUME NEW d \in Devices, NEW p \in Places, PushFile(d, p) PROVE TypeOK'
    BY <1>4, PushTypes
  <1>5. ASSUME NEW d \in Devices, NEW p \in Places, BeginPull(d, p) PROVE TypeOK'
    BY <1>5, PullTypes
  <1>6. ASSUME NEW d \in Devices, EndPull(d) PROVE TypeOK'
    BY <1>6, PullTypes
  <1>7. ASSUME NEW d \in Devices, NEW w \in Workers, Rename(d, w) \/ Delete(d, w) PROVE TypeOK'
    BY <1>7, WorkersTypes
  <1>8. CASE UNCHANGED vars
    BY <1>8, TypeStutters
  <1> QED BY <1>1, <1>2, <1>3, <1>4, <1>5, <1>6, <1>7, <1>8 DEF Next, Transfers

\* Every variable keeps its kind of value.  A post a device knows of, in its table, in a
\* worker, in the queue of FileSync, is there; the key of the file table is one
\* (filestore.cpp, the primary key); the row FileSync works on stays in the table.
THEOREM TypeCorrect == Spec => []TypeOK
  <1>1. Init => TypeOK
    BY InitTyped
  <1>2. TypeOK /\ [Next]_vars => TypeOK'
    BY TypeStep
  <1> QED BY <1>1, <1>2, PTL DEF Spec

-----------------------------------------------------------------------------
(***************************************************************************)
(* Names belong to files                                                   *)
(***************************************************************************)
RowNamed(r) == owner[r.name] = r.file /\ owner[r.path[2]] = r.file
RowOwned(r) == RowNamed(r) /\ posts[r.id].file = r.file
PostOwned(x) == x.path = At(x) /\ owner[x.name] = x.file

DiskOwned == \A d \in Devices : \A p \in Places : disk[d][p] \in {None, owner[p[2]]}
HomeOwned == \A k \in Files : home[k] # Nowhere => owner[home[k][2]] = k
PostsOwned == \A i \in DOMAIN posts : PostOwned(posts[i])
MovesOwned ==
  \A d \in Devices : \A i \in DOMAIN renames[d] :
    owner[renames[d][i].old[2]] \in Files /\ owner[renames[d][i].new[2]] = owner[renames[d][i].old[2]]
RowsOwned(d) == \A i \in DOMAIN rows[d] : RowOwned(rows[d][i])
JobOwned(j) ==
  /\ j.fi # NoRow => RowOwned(j.fi)
  /\ j.op = "rename" =>
       /\ owner[j.old[2]] \in Files /\ owner[j.new[2]] = owner[j.old[2]]
       /\ j.fi # NoRow => j.fi.file = owner[j.old[2]]
  /\ j.got # NoPost => PostOwned(j.got) /\ j.got.file = j.fi.file
  /\ j.step \in {"look", "get"} => j.got = NoPost
JobsOwned(d) == \A w \in Workers : JobOwned(job[d][w])
Tells(id, x) == PostOwned(x) /\ posts[id].file = x.file
QueueOwned(d) == \A i \in DOMAIN queue[d] : Tells(queue[d][i].id, queue[d][i].post)
SyncOwned(d) == sync[d] # NoSync => Tells(sync[d].id, sync[d].post)
PullOwned(d) == pull[d] # NoRow => RowNamed(pull[d])

\* A patient user gives a name to one file: every file, row and post that has it is of
\* that file, on every device and in every task under way.
Owned ==
  /\ DiskOwned /\ HomeOwned /\ PostsOwned /\ MovesOwned
  /\ \A d \in Devices : RowsOwned(d) /\ JobsOwned(d) /\ QueueOwned(d) /\ SyncOwned(d) /\ PullOwned(d)

\* ... and nobody moves files on a device without a mover.
NamesInv == Owned /\ \A d \in Devices \ Movers : Quiet(d)

\* A name keeps its file, and a post too.
OwnersStay == \A n \in Names : owner[n] \in Files => owner'[n] = owner[n]
FilesStay == \A i \in DOMAIN posts : i \in DOMAIN posts' /\ posts'[i].file = posts[i].file

LEMMA NamedStays ==
    ASSUME OwnersStay, NEW r \in Rows, RowNamed(r)
    PROVE  RowNamed(r)'
  <1>1. r.name \in Names /\ r.path[2] \in Names /\ r.file \in Files
    BY PlaceIs DEF Rows
  <1> QED BY <1>1 DEF RowNamed, OwnersStay

LEMMA RowStays ==
    ASSUME OwnersStay, FilesStay, NEW r \in Rows, r.id \in DOMAIN posts, RowOwned(r)
    PROVE  RowOwned(r)'
  BY NamedStays DEF RowOwned, FilesStay

LEMMA PostStays ==
    ASSUME OwnersStay, NEW x \in PostType, PostOwned(x)
    PROVE  PostOwned(x)'
  <1>1. x.name \in Names /\ x.file \in Files
    BY DEF PostType
  <1> QED BY <1>1 DEF PostOwned, OwnersStay

LEMMA TellsStays ==
    ASSUME OwnersStay, FilesStay, NEW id \in DOMAIN posts, NEW x \in PostType, Tells(id, x)
    PROVE  Tells(id, x)'
  BY PostStays DEF Tells, FilesStay

LEMMA JobStays ==
    ASSUME OwnersStay, FilesStay, NEW j, JobOK(j), j.fi # NoRow => j.fi.id \in DOMAIN posts,
           JobOwned(j)
    PROVE  JobOwned(j)'
  <1>1. CASE j = NoJob
    BY <1>1, NoJobIs DEF JobOwned
  <1>2. CASE Renaming(j)
    <2>1. /\ j.fi \in Rows \cup {NoRow} /\ j.got \in PostType \cup {NoPost} /\ j.op = "rename"
          /\ j.old[2] \in Names /\ j.new[2] \in Names
      BY <1>2, PlaceIs DEF Renaming
    <2>2. j.fi # NoRow => RowOwned(j.fi)'
      BY <2>1, RowStays DEF JobOwned
    <2>3. j.got # NoPost => PostOwned(j.got)'
      BY <2>1, PostStays DEF JobOwned
    <2> QED BY <2>1, <2>2, <2>3 DEF JobOwned, OwnersStay
  <1>3. CASE Removing(j)
    <2>1. j.fi \in Rows /\ j.got \in PostType \cup {NoPost} /\ j.op = "delete"
      BY <1>3 DEF Removing
    <2>2. j.fi # NoRow => RowOwned(j.fi)'
      BY <2>1, RowStays DEF JobOwned
    <2>3. j.got # NoPost => PostOwned(j.got)'
      BY <2>1, PostStays DEF JobOwned
    <2> QED BY <2>1, <2>2, <2>3 DEF JobOwned
  <1> QED BY <1>1, <1>2, <1>3 DEF JobOK

\* What a step leaves as it is keeps its owner.
LEMMA OwnedKept ==
    ASSUME TypeOK, Owned, OwnersStay, FilesStay
    PROVE  /\ home' = home => HomeOwned'
           /\ disk' = disk => DiskOwned'
           /\ posts' = posts => PostsOwned'
           /\ renames' = renames => MovesOwned'
           /\ \A d \in Devices :
                /\ rows'[d] = rows[d] => RowsOwned(d)'
                /\ job'[d] = job[d] => JobsOwned(d)'
                /\ queue'[d] = queue[d] => QueueOwned(d)'
                /\ sync'[d] = sync[d] => SyncOwned(d)'
                /\ pull'[d] = pull[d] => PullOwned(d)'
  <1>1. home' = home => HomeOwned'
    <2>1. \A k \in Files : home[k] # Nowhere => home[k][2] \in Names
      BY TypeIs, PlaceIs DEF UserTyped
    <2> QED BY <2>1 DEF Owned, HomeOwned, OwnersStay
  <1>2. disk' = disk => DiskOwned'
    <2>1. \A d \in Devices : \A p \in Places : disk[d][p] # None => disk[d][p] \in Files /\ p[2] \in Names
      BY TypeIs, PlaceIs DEF DiskTyped
    <2> QED BY <2>1 DEF Owned, DiskOwned, OwnersStay
  <1>3. posts' = posts => PostsOwned'
    <2>1. \A i \in DOMAIN posts : posts[i] \in PostType
      BY TypeIs DEF ServerTyped
    <2> QED BY <2>1, PostStays DEF Owned, PostsOwned
  <1>4. renames' = renames => MovesOwned'
    <2>1. ASSUME NEW d \in Devices, NEW i \in DOMAIN renames[d]
          PROVE  renames[d][i].old[2] \in Names /\ renames[d][i].new[2] \in Names
      <3>1. renames[d] \in Seq(Moves)
        BY TypeIs DEF AskedTyped
      <3>2. renames[d][i] \in Moves
        BY <3>1
      <3> QED BY <3>2, PlaceIs DEF Moves
    <2> QED BY <2>1 DEF Owned, MovesOwned, OwnersStay
  <1>5. ASSUME NEW d \in Devices PROVE rows'[d] = rows[d] => RowsOwned(d)'
    <2>1. \A i \in DOMAIN rows[d] : rows[d][i] \in Rows /\ rows[d][i].id \in DOMAIN posts
      BY TypeIs DEF RowsTyped, RowsLinked
    <2> QED BY <2>1, RowStays DEF Owned, RowsOwned
  <1>6. ASSUME NEW d \in Devices PROVE job'[d] = job[d] => JobsOwned(d)'
    <2>1. \A w \in Workers : /\ JobOK(job[d][w]) /\ JobOwned(job[d][w])
                             /\ job[d][w].fi # NoRow => job[d][w].fi.id \in DOMAIN posts
      BY TypeIs DEF JobsLinked, Owned, JobsOwned
    <2>2. \A w \in Workers : job'[d] = job[d] => JobOwned(job[d][w])'
      BY <2>1, JobStays
    <2> QED BY <2>2 DEF JobsOwned, JobOwned, RowOwned, RowNamed, PostOwned
  <1>7. ASSUME NEW d \in Devices PROVE queue'[d] = queue[d] => QueueOwned(d)'
    <2>1. ASSUME NEW i \in DOMAIN queue[d]
          PROVE  queue[d][i].id \in DOMAIN posts /\ queue[d][i].post \in PostType
      <3> DEFINE Q == [id : Ids, post : PostType]
      <3>1. queue[d] \in Seq(Q) /\ QueueLinked(d)
        BY TypeIs DEF FollowTyped
      <3> HIDE DEF Q
      <3>2. queue[d][i] \in Q
        BY <3>1
      <3> QED BY <3>1, <3>2 DEF QueueLinked, Q
    <2> QED BY <2>1, TellsStays DEF Owned, QueueOwned
  <1>8. ASSUME NEW d \in Devices PROVE sync'[d] = sync[d] => SyncOwned(d)'
    <2>1. CASE sync[d] = NoSync
      BY <2>1 DEF SyncOwned
    <2>2. CASE sync[d] # NoSync
      <3>1. /\ sync[d] \in Waits /\ rows[d] \in Seq(Rows) /\ RowsLinked(d) /\ SyncLinked(d)
        BY <2>2, TypeIs DEF FollowTyped, RowsTyped
      <3>2. sync[d].id \in DOMAIN posts
        BY <2>2, <3>1 DEF RowsLinked, SyncLinked
      <3>3. sync[d].post \in PostType
        BY <3>1 DEF Waits
      <3>4. Tells(sync[d].id, sync[d].post)
        BY <2>2 DEF Owned, SyncOwned
      <3> DEFINE id == sync[d].id
      <3> DEFINE x == sync[d].post
      <3>5. OwnersStay /\ FilesStay /\ id \in DOMAIN posts /\ x \in PostType /\ Tells(id, x)
        BY <3>2, <3>3, <3>4
      <3>6. PostOwned(x) /\ posts[id].file = x.file /\ x.name \in Names /\ x.file \in Files
        BY <3>5 DEF Tells, PostType
      <3>7. sync'[d] = sync[d] => Tells(sync[d].id, sync[d].post)'
        BY <3>5, <3>6 DEF Tells, PostOwned, OwnersStay, FilesStay
      <3> QED BY <2>2, <3>7 DEF SyncOwned
    <2> QED BY <2>1, <2>2
  <1>9. ASSUME NEW d \in Devices PROVE pull'[d] = pull[d] => PullOwned(d)'
    <2>1. pull[d] \in Rows \cup {NoRow}
      BY TypeIs DEF PullsTyped
    <2>2. pull[d] # NoRow => RowNamed(pull[d])
      BY DEF Owned, PullOwned
    <2>3. pull[d] # NoRow => pull[d].name \in Names /\ pull[d].path[2] \in Names /\ pull[d].file \in Files
      BY <2>1, PlaceIs DEF Rows
    <2> QED BY <2>2, <2>3 DEF PullOwned, RowNamed, OwnersStay
  <1> QED BY <1>1, <1>2, <1>3, <1>4, <1>5, <1>6, <1>7, <1>8, <1>9

LEMMA DiskStays ==
    ASSUME TypeOK, DiskOwned, OwnersStay
    PROVE  \A e \in Devices : \A x \in Places : disk[e][x] \in {None, owner'[x[2]]}
  <1>1. \A e \in Devices : \A x \in Places : disk[e][x] # None => disk[e][x] \in Files /\ x[2] \in Names
    BY TypeIs, PlaceIs DEF DiskTyped
  <1> QED BY <1>1 DEF DiskOwned, OwnersStay

\* A name is taken by a file no other one had.
LEMMA TakesIs ==
    ASSUME TypeOK, Owned, Patient, NEW k \in Files, NEW p \in Places, Takes(k, p)
    PROVE  OwnersStay /\ owner'[p[2]] = k /\ home'[k] = p /\ HomeOwned'
           /\ \A j \in Files : j # k => home'[j] = home[j]
  <1>1. /\ owner \in [Names -> Files \cup {None}] /\ home \in [Files -> Places \cup {Nowhere}]
        /\ p[2] \in Names /\ None \notin Files
    BY TypeIs, PlaceIs, FilesAre DEF UserTyped
  <1>2. /\ owner[p[2]] \in {None, k} /\ home' = [home EXCEPT ![k] = p]
        /\ owner' = [owner EXCEPT ![p[2]] = IF @ = None THEN k ELSE @]
    BY DEF Takes
  <1>3. OwnersStay /\ owner'[p[2]] = k
    BY <1>1, <1>2 DEF OwnersStay
  <1>4. home'[k] = p /\ \A j \in Files : j # k => home'[j] = home[j]
    BY <1>1, <1>2
  <1>5. ASSUME NEW j \in Files, home'[j] # Nowhere PROVE owner'[home'[j][2]] = j
    <2>1. CASE j = k
      BY <1>3, <1>4, <2>1
    <2>2. CASE j # k
      <3>1. home[j] # Nowhere /\ home'[j] = home[j] /\ home[j][2] \in Names
        BY <1>1, <1>4, <1>5, <2>2, PlaceIs
      <3>2. owner[home[j][2]] = j
        BY <3>1 DEF Owned, HomeOwned
      <3> QED BY <1>3, <3>1, <3>2 DEF OwnersStay
    <2> QED BY <2>1, <2>2
  <1> QED BY <1>3, <1>4, <1>5 DEF HomeOwned

LEMMA UserOwned ==
    ASSUME TypeOK, Owned, Patient, NEW d \in Devices, User(d)
    PROVE  Owned'
  <1>1. PICK k \in Files : RemoveFile(d, k) \/ \E p \in Places : CreateFile(d, k, p) \/ MoveFile(d, k, p)
    BY DEF User
  <1>2. /\ UNCHANGED <<rows, server, job, pull, follow>>
    BY <1>1 DEF RemoveFile, CreateFile, MoveFile
  <1>3. FilesStay /\ posts' = posts /\ rows' = rows /\ job' = job /\ pull' = pull /\ queue' = queue
        /\ sync' = sync
    BY <1>2 DEF FilesStay, server, follow
  <1>4. /\ disk \in [Devices -> [Places -> Files \cup {None}]]
        /\ renames \in [Devices -> Seq(Moves)] /\ home \in [Files -> Places \cup {Nowhere}]
    BY TypeIs DEF DiskTyped, AskedTyped, UserTyped
  <1>5. ASSUME OwnersStay, HomeOwned', DiskOwned', MovesOwned' PROVE Owned'
    <2>1. /\ PostsOwned'
          /\ \A e \in Devices : RowsOwned(e)' /\ JobsOwned(e)' /\ QueueOwned(e)' /\ SyncOwned(e)' /\ PullOwned(e)'
      BY <1>3, <1>5, OwnedKept
    <2> QED BY <1>5, <2>1 DEF Owned
  <1>6. CASE RemoveFile(d, k)
    <2>1. owner' = owner /\ renames' = renames /\ home' = [home EXCEPT ![k] = Nowhere]
          /\ disk' = Put(d, home[k], None)
      BY <1>6 DEF RemoveFile
    <2>2. OwnersStay
      BY <2>1 DEF OwnersStay
    <2>3. HomeOwned'
      BY <1>4, <2>1 DEF HomeOwned, Owned
    <2>4. DiskOwned'
      BY <1>4, <2>1 DEF DiskOwned, Owned, Put
    <2> QED BY <1>3, <1>5, <2>1, <2>2, <2>3, <2>4, OwnedKept
  <1>7. ASSUME NEW p \in Places, CreateFile(d, k, p) PROVE Owned'
    <2>1. Takes(k, p) /\ renames' = renames /\ disk' = Put(d, p, k)
      BY <1>7 DEF CreateFile
    <2>2. OwnersStay /\ owner'[p[2]] = k /\ HomeOwned'
      BY <2>1, TakesIs
    <2>3. \A e \in Devices : \A x \in Places : disk[e][x] \in {None, owner'[x[2]]}
      BY <2>2, DiskStays DEF Owned
    <2>4. DiskOwned'
      BY <1>4, <2>1, <2>2, <2>3 DEF DiskOwned, Put
    <2>5. MovesOwned'
      BY <1>3, <2>1, <2>2, OwnedKept
    <2> QED BY <1>5, <2>2, <2>4, <2>5
  <1>8. ASSUME NEW q \in Places, MoveFile(d, k, q) PROVE Owned'
    <2> DEFINE p == home[k]
    <2>1. /\ Takes(k, q) /\ p # Nowhere /\ disk' = [disk EXCEPT ![d][p] = None, ![d][q] = k]
          /\ renames' = [renames EXCEPT ![d] = Append(@, [old |-> p, new |-> q])]
      BY <1>8 DEF MoveFile
    <2>2. OwnersStay /\ owner'[q[2]] = k /\ HomeOwned'
      BY <2>1, TakesIs
    <2>3. \A e \in Devices : \A x \in Places : disk[e][x] \in {None, owner'[x[2]]}
      BY <2>2, DiskStays DEF Owned
    <2>4. p \in Places /\ p[2] \in Names /\ owner[p[2]] = k
      BY <1>4, <2>1, PlaceIs DEF Owned, HomeOwned
    <2>5. owner'[p[2]] = k
      BY <2>2, <2>4 DEF OwnersStay
    <2> HIDE DEF p
    <2>6. DiskOwned'
      BY <1>4, <2>1, <2>2, <2>3, <2>4 DEF DiskOwned
    <2> DEFINE a == [old |-> p, new |-> q]
    <2>7. /\ renames[d] \in Seq(Moves) /\ a \in Moves /\ renames'[d] = Append(renames[d], a)
          /\ \A e \in Devices : e # d => renames'[e] = renames[e]
      BY <1>4, <2>1, <2>4 DEF Moves
    <2>8. a.old = p /\ a.new = q
      OBVIOUS
    <2> HIDE DEF a
    <2>9. \A e \in Devices : \A i \in DOMAIN renames[e] :
             /\ owner'[renames[e][i].old[2]] \in Files
             /\ owner'[renames[e][i].new[2]] = owner'[renames[e][i].old[2]]
      <3>1. ASSUME NEW e \in Devices, NEW i \in DOMAIN renames[e]
            PROVE  renames[e][i].old[2] \in Names /\ renames[e][i].new[2] \in Names
        <4>1. renames[e] \in Seq(Moves)
          BY <1>4
        <4>2. renames[e][i] \in Moves
          BY <4>1
        <4> QED BY <4>2, PlaceIs DEF Moves
      <3> QED BY <2>2, <3>1 DEF Owned, MovesOwned, OwnersStay
    <2>10. ASSUME NEW e \in Devices, NEW i \in DOMAIN renames'[e]
           PROVE  /\ owner'[renames'[e][i].old[2]] \in Files
                  /\ owner'[renames'[e][i].new[2]] = owner'[renames'[e][i].old[2]]
      <3>1. CASE e # d
        BY <2>7, <2>9, <2>10, <3>1
      <3>2. CASE e = d
        <4>1. \/ i \in DOMAIN renames[d] /\ renames'[d][i] = renames[d][i]
              \/ renames'[d][i] = a
          BY <2>7, <2>10, <3>2
        <4> QED BY <2>2, <2>5, <2>8, <2>9, <3>2, <4>1
      <3> QED BY <3>1, <3>2
    <2>11. MovesOwned'
      BY <2>10 DEF MovesOwned
    <2> QED BY <1>5, <2>2, <2>6, <2>11
  <1> QED BY <1>1, <1>6, <1>7, <1>8

LEMMA GoesOwned ==
    ASSUME TypeOK, Owned, OwnersStay, FilesStay, NEW d \in Devices, NEW w \in Workers, NEW j,
           Goes(d, w, j), JobOwned(j), JobOK(j), j.fi # NoRow => j.fi.id \in DOMAIN posts
    PROVE  \A e \in Devices : JobsOwned(e)'
  <1>1. DOMAIN job = Devices /\ JobsLinked(d)
    BY TypeIs
  <1>9. Goes(d, w, j)
    OBVIOUS
  <1>10. /\ DOMAIN job' = Devices /\ job'[d] = [v \in Workers |-> job'[d][v]]
         /\ job'[d][w] = j /\ \A v \in Workers \ {w} : job'[d][v] = job[d][v]
         /\ \A e \in Devices \ {d} : job'[e] = job[e]
    BY <1>1, <1>9, GoesIs
  <1>2. /\ job'[d][w] = j /\ \A v \in Workers \ {w} : job'[d][v] = job[d][v]
        /\ \A e \in Devices \ {d} : job'[e] = job[e]
    BY <1>10
  <1>3. \A e \in Devices \ {d} : JobsOwned(e)'
    BY <1>2, OwnedKept
  <1>4. JobOwned(j)'
    BY JobStays
  <1>5. ASSUME NEW v \in Workers \ {w} PROVE JobOwned(job'[d][v])
                                             /\ JobOK(job'[d][v])
                                             /\ (job'[d][v].fi # NoRow => job'[d][v].fi.id \in DOMAIN posts)
    BY <1>1, <1>2 DEF JobsLinked, Owned, JobsOwned
  <1>6. ASSUME NEW v \in Workers \ {w}, NEW i, i = job'[d][v]
        PROVE  JobOwned(i)'
    BY <1>5, <1>6, JobStays
  <1>7. ASSUME NEW v \in Workers PROVE JobOwned(job[d][v])'
    <2>1. CASE v = w
      BY <1>2, <1>4, <2>1 DEF JobOwned, RowOwned, RowNamed, PostOwned
    <2>2. CASE v # w
      BY <1>6, <2>2 DEF JobOwned, RowOwned, RowNamed, PostOwned
    <2> QED BY <2>1, <2>2
  <1>8. JobsOwned(d)'
    BY <1>7 DEF JobsOwned
  <1> QED BY <1>3, <1>8

LEMMA NoJobOwned == JobOwned(NoJob) /\ JobOK(NoJob) /\ (NoJob.fi # NoRow => NoJob.fi.id \in DOMAIN posts)
  BY NoJobIs DEF JobOwned, JobOK

LEMMA TableOwned ==
    ASSUME TypeOK, Owned, OwnersStay, FilesStay, NEW d \in Devices, NEW table \in Seq(Rows),
           rows' = [rows EXCEPT ![d] = table],
           \A n \in DOMAIN table : table[n].id \in DOMAIN posts /\ RowOwned(table[n])
    PROVE  \A e \in Devices : RowsOwned(e)'
  <1>1. rows'[d] = table /\ \A e \in Devices \ {d} : rows'[e] = rows[e]
    BY TypeIs DEF RowsTyped
  <1>2. \A e \in Devices \ {d} : RowsOwned(e)'
    BY <1>1, OwnedKept
  <1>3. \A n \in DOMAIN table : RowOwned(table[n])'
    BY RowStays
  <1>4. RowsOwned(d)'
    BY <1>1, <1>3 DEF RowsOwned, RowOwned, RowNamed
  <1> QED BY <1>2, <1>4

\* A row of a device is owned, and so is what a query finds.
LEMMA RowsAreOwned ==
    ASSUME TypeOK, Owned, NEW d \in Devices
    PROVE  /\ rows[d] \in Seq(Rows) /\ Keyed(rows[d])
           /\ \A n \in DOMAIN rows[d] :
                rows[d][n] \in Rows /\ rows[d][n].id \in DOMAIN posts /\ RowOwned(rows[d][n])
           /\ \A r : Holds(rows[d], r) => r \in Rows /\ r.id \in DOMAIN posts /\ RowOwned(r)
  <1>1. rows[d] \in Seq(Rows) /\ RowsLinked(d) /\ RowsOwned(d)
    BY TypeIs DEF RowsTyped, Owned
  <1>2. \A n \in DOMAIN rows[d] :
           rows[d][n] \in Rows /\ rows[d][n].id \in DOMAIN posts /\ RowOwned(rows[d][n])
    BY <1>1 DEF RowsLinked, RowsOwned
  <1> QED BY <1>1, <1>2 DEF Holds, RowsLinked

\* A worker with a task of a kind.
LEMMA JobIs ==
    ASSUME TypeOK, Owned, NEW d \in Devices, NEW w \in Workers, NEW j, j = job[d][w]
    PROVE  /\ JobOK(j) /\ JobOwned(j) /\ (j.fi # NoRow => j.fi.id \in DOMAIN posts)
           /\ j.step \in {"look", "path", "name", "folder"} \/ j.op = "rename" => Renaming(j)
           /\ j.op = "delete" => Removing(j)
           /\ j.fi # NoRow => j.fi \in Rows /\ RowOwned(j.fi)
           /\ j.got # NoPost => j.got \in PostType /\ PostOwned(j.got)
  <1>1. JobOK(j) /\ JobOwned(j) /\ (j.fi # NoRow => j.fi.id \in DOMAIN posts)
    BY TypeIs DEF JobsLinked, Owned, JobsOwned
  <1>2. j.step \in {"look", "path", "name", "folder"} \/ j.op = "rename" => Renaming(j)
    BY <1>1, NoJobIs DEF JobOK, Removing
  <1>3. j.op = "delete" => Removing(j)
    BY <1>1, NoJobIs DEF JobOK, Renaming
  <1>4. j.fi # NoRow => j.fi \in Rows
    BY <1>1, NoJobIs DEF JobOK, Renaming, Removing
  <1>5. j.got # NoPost => j.got \in PostType
    BY <1>1, NoJobIs DEF JobOK, Renaming, Removing
  <1> QED BY <1>1, <1>2, <1>3, <1>4, <1>5 DEF JobOwned

\* The parts of a worker's step that touch neither disk nor the follower's side.
LEMMA WorkOwned ==
    ASSUME TypeOK, Owned, UNCHANGED <<disk, pull, follow, user>>, FilesStay, PostsOwned',
           MovesOwned', \A e \in Devices : RowsOwned(e)' /\ JobsOwned(e)'
    PROVE  Owned'
  <1>1. OwnersStay /\ home' = home /\ disk' = disk /\ pull' = pull /\ queue' = queue /\ sync' = sync
    BY DEF OwnersStay, user, follow
  <1>2. /\ HomeOwned' /\ DiskOwned'
        /\ \A e \in Devices : QueueOwned(e)' /\ SyncOwned(e)' /\ PullOwned(e)'
    BY <1>1, OwnedKept
  <1> QED BY <1>2 DEF Owned

LEMMA StillOwners == UNCHANGED user => OwnersStay
  BY DEF user, OwnersStay
LEMMA StillFiles == posts' = posts => FilesStay
  BY DEF FilesStay

LEMMA GetOwned ==
    ASSUME TypeOK, Owned, NEW d \in Devices, NEW w \in Workers, NEW op, GetFilePost(d, w, op),
           op \in {"rename", "delete"}
    PROVE  Owned'
  <1>1. PICK j : j = job[d][w]
    OBVIOUS
  <1>2. /\ UNCHANGED <<disk, rows, server, news, asked, pulls, pull, follow, user>>
        /\ j.op = op /\ j.step = "get"
        /\ \/ Goes(d, w, [j EXCEPT !.step = "put", !.got = posts[j.fi.id]])
           \/ Goes(d, w, NoJob)
    BY <1>1 DEF GetFilePost, End
  <1>3. posts' = posts /\ rows' = rows /\ renames' = renames /\ OwnersStay /\ FilesStay
    BY <1>2, StillOwners, StillFiles DEF server, asked
  <1>4. /\ JobOK(j) /\ JobOwned(j) /\ (j.fi # NoRow => j.fi.id \in DOMAIN posts)
        /\ Renaming(j) \/ Removing(j)
    BY <1>1, <1>2, JobIs
  <1>5. j.fi \in Rows /\ j.fi # NoRow /\ j.fi.id \in DOMAIN posts
    BY <1>2, <1>4, NoRowIs DEF Renaming, Removing
  <1>6. posts[j.fi.id] \in PostType /\ posts[j.fi.id] # NoPost
        /\ PostOwned(posts[j.fi.id]) /\ posts[j.fi.id].file = j.fi.file
    BY <1>4, <1>5, TypeIs, NoPostIs DEF ServerTyped, Owned, PostsOwned, JobOwned, RowOwned
  <1>7. PICK n : n = [j EXCEPT !.step = "put", !.got = posts[j.fi.id]]
    OBVIOUS
  <1>8. Renaming(n) \/ Removing(n)
    BY <1>2, <1>4, <1>5, <1>6, <1>7 DEF Renaming, Removing
  <1>9. n.fi = j.fi /\ n.op = j.op /\ n.old = j.old /\ n.new = j.new /\ n.got = posts[j.fi.id]
    BY <1>4, <1>7 DEF Renaming, Removing
  <1>13. n.step = "put"
    BY <1>4, <1>7 DEF Renaming, Removing
  <1>10. JobOK(n) /\ JobOwned(n) /\ (n.fi # NoRow => n.fi.id \in DOMAIN posts)
    BY <1>4, <1>5, <1>6, <1>8, <1>9, <1>13 DEF JobOK, JobOwned
  <1>11. \A e \in Devices : JobsOwned(e)'
    BY <1>2, <1>3, <1>7, <1>10, GoesOwned, NoJobOwned
  <1>12. PostsOwned' /\ MovesOwned' /\ \A e \in Devices : RowsOwned(e)'
    BY <1>3, OwnedKept
  <1> QED BY <1>2, <1>3, <1>11, <1>12, WorkOwned

\* A worker puts a post of the file its row is of.
LEMMA PutOwned ==
    ASSUME TypeOK, Owned, NEW d \in Devices, NEW w \in Workers, NEW op, NEW value, NEW next,
           PutFilePost(d, w, op, value, next), op \in {"rename", "delete"},
           value \in PostType, PostOwned(value), value.file = job[d][w].fi.file,
           next \in {"idle", "path"}, next = "path" => op = "rename"
    PROVE  Owned' /\ FilesStay
  <1>1. PICK j : j = job[d][w]
    OBVIOUS
  <1> DEFINE id == j.fi.id
  <1>2. /\ UNCHANGED <<disk, rows, asked, pulls, pull, follow, user>>
        /\ j.op = op /\ j.step = "put"
        /\ posts' = posts \/ posts' = [posts EXCEPT ![id] = value]
        /\ \/ next = "path" /\ Goes(d, w, [j EXCEPT !.step = "path"])
           \/ Goes(d, w, NoJob)
    BY <1>1 DEF PutFilePost, End, Step, server
  <1>3. /\ JobOK(j) /\ JobOwned(j) /\ (j.fi # NoRow => j.fi.id \in DOMAIN posts)
        /\ Renaming(j) \/ Removing(j)
        /\ j.op = "rename" => Renaming(j)
    BY <1>1, <1>2, JobIs
  <1>4. j.fi \in Rows /\ j.fi # NoRow /\ id \in DOMAIN posts
    BY <1>1, <1>2, <1>3, JobIs, NoRowIs DEF Renaming, Removing
  <1>5. posts[id].file = value.file
    BY <1>1, <1>3, <1>4 DEF JobOwned, RowOwned
  <1>6. posts \in Seq(PostType)
    BY TypeIs DEF ServerTyped
  <1>7. FilesStay /\ PostsOwned' /\ OwnersStay
    <2>1. OwnersStay /\ owner' = owner
      BY <1>2, StillOwners DEF user
    <2>2. CASE posts' = posts
      BY <2>1, <2>2, StillFiles, OwnedKept
    <2>3. CASE posts' = [posts EXCEPT ![id] = value]
      <3>1. /\ DOMAIN posts' = DOMAIN posts /\ posts'[id] = value
            /\ \A i \in DOMAIN posts : i # id => posts'[i] = posts[i]
        BY <1>4, <1>6, <2>3
      <3>2. FilesStay
        BY <1>5, <3>1 DEF FilesStay
      <3>3. \A i \in DOMAIN posts' : posts'[i] = value \/ (posts'[i] = posts[i] /\ PostOwned(posts[i]))
        BY <3>1 DEF Owned, PostsOwned
      <3>4. \A i \in DOMAIN posts' : PostOwned(posts'[i])
        BY <3>3
      <3>5. PostsOwned'
        BY <2>1, <3>4 DEF PostsOwned, PostOwned
      <3> QED BY <2>1, <3>2, <3>5
    <2> QED BY <1>2, <2>2, <2>3
  <1>8. rows' = rows /\ renames' = renames
    BY <1>2 DEF asked
  <1>9. MovesOwned' /\ \A e \in Devices : RowsOwned(e)'
    BY <1>7, <1>8, OwnedKept
  <1>10. \A e \in Devices : JobsOwned(e)'
    <2>1. CASE Goes(d, w, NoJob)
      BY <1>7, <2>1, GoesOwned, NoJobOwned
    <2>2. CASE next = "path" /\ Goes(d, w, [j EXCEPT !.step = "path"])
      <3>1. PICK n : n = [j EXCEPT !.step = "path"]
        OBVIOUS
      <3>2. Renaming(j)
        BY <1>2, <1>3, <2>2
      <3>3. Renaming(n) /\ n.fi = j.fi /\ n.op = j.op /\ n.old = j.old /\ n.new = j.new /\ n.got = j.got
              /\ n.step = "path"
        BY <1>2, <3>1, <3>2 DEF Renaming
      <3>4. JobOK(n) /\ JobOwned(n) /\ (n.fi # NoRow => n.fi.id \in DOMAIN posts)
        BY <1>3, <3>3 DEF JobOK, JobOwned
      <3> QED BY <1>7, <2>2, <3>1, <3>4, GoesOwned
    <2> QED BY <1>2, <2>1, <2>2
  <1> QED BY <1>2, <1>7, <1>9, <1>10, WorkOwned

LEMMA WorkersPutOwned ==
    ASSUME TypeOK, Owned, NEW d \in Devices, NEW w \in Workers,
           UpdateFileMetaPost(d, w) \/ UpdateFilePost(d, w)
    PROVE  Owned' /\ FilesStay
  <1>1. PICK j : j = job[d][w]
    OBVIOUS
  <1>2. CASE UpdateFileMetaPost(d, w)
    <2>1. PutFilePost(d, w, "rename", Moved(j), "path") /\ j.op = "rename" /\ j.step = "put"
      BY <1>1, <1>2 DEF UpdateFileMetaPost, PutFilePost
    <2>2. Renaming(j) /\ j.fi # NoRow /\ JobOwned(j)
      BY <1>1, <2>1, JobIs DEF Renaming
    <2>3. /\ Moved(j) \in PostType /\ Moved(j).file = j.fi.file /\ Moved(j).path = j.new
          /\ At(Moved(j)) = j.new /\ Moved(j).name = j.new[2]
      BY <2>1, <2>2, MovedIs
    <2>4. PostOwned(Moved(j))
      BY <2>1, <2>2, <2>3 DEF PostOwned, JobOwned
    <2> QED BY <1>1, <2>1, <2>3, <2>4, PutOwned
  <1>3. CASE UpdateFilePost(d, w)
    <2>1. /\ PutFilePost(d, w, "delete", [j.got EXCEPT !.deleted = TRUE], "idle")
          /\ j.op = "delete" /\ j.step = "put"
      BY <1>1, <1>3 DEF UpdateFilePost, PutFilePost
    <2>2. Removing(j) /\ JobOwned(j)
      BY <1>1, <2>1, JobIs
    <2>3. j.got # NoPost /\ j.got \in PostType /\ PostOwned(j.got) /\ j.got.file = j.fi.file
      BY <2>1, <2>2 DEF Removing, JobOwned
    <2>4. PICK x : x = [j.got EXCEPT !.deleted = TRUE]
      OBVIOUS
    <2>5. x \in PostType /\ x.file = j.fi.file /\ PostOwned(x)
      BY <2>3, <2>4 DEF PostType, PostOwned, At
    <2> QED BY <1>1, <2>1, <2>4, <2>5, PutOwned
  <1> QED BY <1>2, <1>3

LEMMA BeginRenameOwned ==
    ASSUME TypeOK, Owned, NEW d \in Devices, NEW w \in Workers, BeginRename(d, w)
    PROVE  Owned'
  <1>1. PICK a : a = Head(renames[d])
    OBVIOUS
  <1>2. /\ UNCHANGED <<disk, rows, server, news, deletes, pulls, pull, follow, user, faults>>
        /\ renames[d] # << >> /\ renames' = [renames EXCEPT ![d] = Tail(@)]
        /\ \/ Goes(d, w, [NoJob EXCEPT !.op = "rename", !.step = "look", !.old = a.old, !.new = a.new])
           \/ job' = job
    BY <1>1 DEF BeginRename
  <1>3. posts' = posts /\ rows' = rows /\ OwnersStay /\ FilesStay /\ owner' = owner
    BY <1>2, StillOwners, StillFiles DEF server, user
  <1>4. renames \in [Devices -> Seq(Moves)]
    BY TypeIs DEF AskedTyped
  <1>5. renames[d] \in Seq(Moves) /\ Len(renames[d]) \in Nat /\ Len(renames[d]) > 0
    BY <1>2, <1>4
  <1>6. a \in Moves /\ 1 \in DOMAIN renames[d] /\ a = renames[d][1]
    BY <1>1, <1>2, <1>5
  <1>7. /\ a.old \in Places /\ a.new \in Places /\ owner[a.old[2]] \in Files
        /\ owner[a.new[2]] = owner[a.old[2]]
    BY <1>6 DEF Owned, MovesOwned, Moves
  <1>8. PICK n : n = [NoJob EXCEPT !.op = "rename", !.step = "look", !.old = a.old, !.new = a.new]
    OBVIOUS
  <1>9. Renaming(n) /\ n.fi = NoRow /\ n.got = NoPost /\ n.old = a.old /\ n.new = a.new
    BY <1>7, <1>8 DEF Renaming, NoJob
  <1>10. JobOK(n) /\ JobOwned(n) /\ (n.fi # NoRow => n.fi.id \in DOMAIN posts)
    BY <1>7, <1>9 DEF JobOK, JobOwned
  <1>11. \A e \in Devices : JobsOwned(e)'
    <2>1. CASE job' = job
      BY <1>3, <2>1, OwnedKept
    <2>2. CASE Goes(d, w, n)
      BY <1>3, <1>10, <2>2, GoesOwned
    <2> QED BY <1>2, <1>8, <2>1, <2>2
  <1>12. /\ renames'[d] = Tail(renames[d]) /\ \A e \in Devices : e # d => renames'[e] = renames[e]
    BY <1>2, <1>4
  <1>13. /\ DOMAIN Tail(renames[d]) = 1 .. Len(renames[d]) - 1
         /\ \A i \in 1 .. Len(renames[d]) - 1 :
              Tail(renames[d])[i] = renames[d][i + 1] /\ i + 1 \in DOMAIN renames[d]
    BY <1>5
  <1>14. ASSUME NEW e \in Devices, NEW i \in DOMAIN renames'[e]
         PROVE  \E m \in DOMAIN renames[e] : renames'[e][i] = renames[e][m]
    BY <1>12, <1>13, <1>14
  <1>15. MovesOwned'
    BY <1>3, <1>14 DEF MovesOwned, Owned
  <1>16. PostsOwned' /\ \A e \in Devices : RowsOwned(e)'
    BY <1>3, OwnedKept
  <1> QED BY <1>2, <1>3, <1>11, <1>15, <1>16, WorkOwned

LEMMA LookUpOwned ==
    ASSUME TypeOK, Owned, NEW d \in Devices, NEW w \in Workers, LookUp(d, w)
    PROVE  Owned'
  <1>1. PICK j : j = job[d][w]
    OBVIOUS
  <1>2. /\ UNCHANGED <<disk, rows, server, news, asked, pulls, pull, follow, user, faults>>
        /\ j.step = "look"
        /\ \/ \E r \in QueryByName(rows[d], j.old) : Goes(d, w, [j EXCEPT !.step = "get", !.fi = r])
           \/ Goes(d, w, NoJob)
    BY <1>1 DEF LookUp, End
  <1>3. /\ posts' = posts /\ rows' = rows /\ OwnersStay /\ FilesStay /\ owner' = owner
        /\ renames' = renames
    BY <1>2, StillOwners, StillFiles DEF server, user, asked
  <1>8. Renaming(j) /\ JobOwned(j)
    BY <1>1, <1>2, JobIs
  <1>4. Renaming(j) /\ JobOwned(j) /\ j.op = "rename"
    BY <1>8 DEF Renaming
  <1>5. ASSUME NEW r \in QueryByName(rows[d], j.old), Goes(d, w, [j EXCEPT !.step = "get", !.fi = r])
        PROVE  \A e \in Devices : JobsOwned(e)'
    <2>1. r \in Rows /\ r.id \in DOMAIN posts /\ RowOwned(r) /\ r.name = j.old[2]
      BY RowsAreOwned, ByNameIs
    <2>2. PICK n : n = [j EXCEPT !.step = "get", !.fi = r]
      OBVIOUS
    <2>3. Renaming(n) /\ n.fi = r /\ n.got = j.got /\ n.old = j.old /\ n.new = j.new /\ n.op = "rename"
      BY <1>2, <1>4, <2>1, <2>2, NoRowIs DEF Renaming
    <2>4. r.file = owner[j.old[2]]
      BY <2>1 DEF RowOwned, RowNamed
    <2>5. n.got = NoPost
      BY <1>2, <1>4, <2>3 DEF JobOwned
    <2>6. JobOK(n) /\ JobOwned(n) /\ (n.fi # NoRow => n.fi.id \in DOMAIN posts)
      BY <1>4, <2>1, <2>3, <2>4, <2>5 DEF JobOK, JobOwned
    <2> QED BY <1>3, <1>5, <2>2, <2>6, GoesOwned
  <1>6. \A e \in Devices : JobsOwned(e)'
    BY <1>2, <1>3, <1>5, GoesOwned, NoJobOwned
  <1>7. PostsOwned' /\ MovesOwned' /\ \A e \in Devices : RowsOwned(e)'
    BY <1>3, OwnedKept
  <1> QED BY <1>2, <1>3, <1>6, <1>7, WorkOwned

\* A row with another name of its file, or in another folder, is owned as well.
LEMMA FieldOwned ==
    ASSUME NEW r \in Rows, RowOwned(r)
    PROVE  /\ \A p \in Places : owner[p[2]] = r.file => RowOwned([r EXCEPT !.path = p])
           /\ \A n \in Names : owner[n] = r.file => RowOwned([r EXCEPT !.name = n])
           /\ \A f \in Folders : RowOwned([r EXCEPT !.folder = f])
           /\ RowOwned([r EXCEPT !.deleted = TRUE])
  BY DEF RowOwned, RowNamed, Rows

\* What is the same in a table after an update: each row, but for a field.
LEMMA UpdateOwned ==
    ASSUME TypeOK, Owned, OwnersStay, FilesStay, NEW d \in Devices, NEW table \in Seq(Rows),
           rows' = [rows EXCEPT ![d] = table], DOMAIN table = DOMAIN rows[d],
           \A n \in DOMAIN table : table[n].id = rows[d][n].id /\ RowOwned(table[n])
    PROVE  \A e \in Devices : RowsOwned(e)'
  <1>1. \A n \in DOMAIN table : table[n].id \in DOMAIN posts /\ RowOwned(table[n])
    BY RowsAreOwned
  <1> QED BY <1>1, TableOwned

LEMMA SetOwned ==
    ASSUME TypeOK, Owned, NEW d \in Devices, NEW w \in Workers,
           SetFilepath(d, w) \/ SetFilename(d, w) \/ SetFileFolderPostId(d, w)
    PROVE  Owned'
  <1>1. PICK j : j = job[d][w]
    OBVIOUS
  <1>2. /\ UNCHANGED <<disk, server, news, renames, deletes, pulls, pull, follow, user, faults>>
        /\ j.step \in {"path", "name", "folder"}
        /\ \/ Goes(d, w, NoJob)
           \/ \E s \in {"name", "folder"} : Goes(d, w, [j EXCEPT !.step = s])
    BY <1>1 DEF SetFilepath, SetFilename, SetFileFolderPostId, Manifest, asked, End, Step
  <1>3. posts' = posts /\ OwnersStay /\ FilesStay /\ renames' = renames
    BY <1>2, StillOwners, StillFiles DEF server
  <1>4. Renaming(j) /\ JobOwned(j) /\ (j.fi # NoRow => j.fi.id \in DOMAIN posts)
    BY <1>1, <1>2, JobIs
  <1>5. /\ j.op = "rename" /\ j.fi \in Rows /\ j.fi # NoRow /\ j.new \in Places
        /\ j.new[1] \in Folders /\ j.new[2] \in Names
    BY <1>2, <1>4, PlaceIs DEF Renaming
  <1>6. posts[j.fi.id].file = j.fi.file /\ owner[j.new[2]] = j.fi.file
    BY <1>4, <1>5 DEF JobOwned, RowOwned
  <1>7. /\ rows[d] \in Seq(Rows) /\ Keyed(rows[d])
        /\ \A n \in DOMAIN rows[d] : rows[d][n] \in Rows /\ RowOwned(rows[d][n])
    BY RowsAreOwned
  <1>8. \A n \in DOMAIN rows[d] : rows[d][n].id = j.fi.id => rows[d][n].file = owner[j.new[2]]
    BY <1>6, <1>7 DEF RowOwned
  <1>9. \A e \in Devices : JobsOwned(e)'
    <2>1. ASSUME NEW s \in {"name", "folder"}, Goes(d, w, [j EXCEPT !.step = s])
          PROVE  \A e \in Devices : JobsOwned(e)'
      <3>1. PICK n : n = [j EXCEPT !.step = s]
        OBVIOUS
      <3>2. Renaming(n) /\ n.fi = j.fi /\ n.op = j.op /\ n.old = j.old /\ n.new = j.new /\ n.got = j.got
            /\ n.step = s
        BY <1>2, <1>4, <3>1 DEF Renaming
      <3>3. JobOK(n) /\ JobOwned(n) /\ (n.fi # NoRow => n.fi.id \in DOMAIN posts)
        BY <1>4, <3>2 DEF JobOK, JobOwned
      <3> QED BY <1>3, <2>1, <3>1, <3>3, GoesOwned
    <2> QED BY <1>2, <1>3, <2>1, GoesOwned, NoJobOwned
  <1>10. \A e \in Devices : RowsOwned(e)'
    <2>1. CASE SetFilepath(d, w)
      <3>1. PICK table : table = set_filepath_for_id(rows[d], j.fi.id, j.new)
        OBVIOUS
      <3>2. rows' = [rows EXCEPT ![d] = table]
        BY <1>1, <2>1, <3>1 DEF SetFilepath, Manifest
      <3>3. /\ table \in Seq(Rows) /\ DOMAIN table = DOMAIN rows[d]
            /\ \A i \in DOMAIN rows[d] :
                 \/ table[i] = rows[d][i]
                 \/ rows[d][i].id = j.fi.id /\ table[i] = [rows[d][i] EXCEPT !.path = j.new]
        BY <1>5, <1>7, <3>1, SetPathIs
      <3>4. ASSUME NEW i \in DOMAIN table PROVE RowOwned(table[i]) /\ table[i].id = rows[d][i].id
        <4>1. PICK r : r = rows[d][i]
          OBVIOUS
        <4>2. r \in Rows /\ RowOwned(r)
          BY <1>7, <3>3, <3>4, <4>1
        <4>3. CASE table[i] = r
          BY <4>1, <4>2, <4>3
        <4>4. CASE r.id = j.fi.id /\ table[i] = [r EXCEPT !.path = j.new]
          <5>1. r.file = owner[j.new[2]]
            BY <1>8, <3>3, <3>4, <4>1, <4>4
          <5>2. RowOwned([r EXCEPT !.path = j.new])
            BY <1>5, <4>2, <5>1, FieldOwned
          <5>3. [r EXCEPT !.path = j.new].id = r.id
            BY <4>2 DEF Rows
          <5> QED BY <4>1, <4>4, <5>2, <5>3
        <4> QED BY <3>3, <3>4, <4>1, <4>3, <4>4
      <3> QED BY <1>3, <3>2, <3>3, <3>4, UpdateOwned
    <2>2. CASE SetFilename(d, w)
      <3>1. PICK table : table = set_filename_for_id(rows[d], j.fi.id, j.new[2])
        OBVIOUS
      <3>2. rows' = [rows EXCEPT ![d] = table]
        BY <1>1, <2>2, <3>1 DEF SetFilename, Manifest
      <3>3. /\ table \in Seq(Rows) /\ DOMAIN table = DOMAIN rows[d]
            /\ \A i \in DOMAIN rows[d] :
                 \/ table[i] = rows[d][i]
                 \/ rows[d][i].id = j.fi.id /\ table[i] = [rows[d][i] EXCEPT !.name = j.new[2]]
        BY <1>5, <1>7, <3>1, SetNameIs
      <3>4. ASSUME NEW i \in DOMAIN table PROVE RowOwned(table[i]) /\ table[i].id = rows[d][i].id
        <4>1. PICK r : r = rows[d][i]
          OBVIOUS
        <4>2. r \in Rows /\ RowOwned(r)
          BY <1>7, <3>3, <3>4, <4>1
        <4>3. CASE table[i] = r
          BY <4>1, <4>2, <4>3
        <4>4. CASE r.id = j.fi.id /\ table[i] = [r EXCEPT !.name = j.new[2]]
          <5>1. r.file = owner[j.new[2]]
            BY <1>8, <3>3, <3>4, <4>1, <4>4
          <5>2. RowOwned([r EXCEPT !.name = j.new[2]])
            BY <1>5, <4>2, <5>1, FieldOwned
          <5>3. [r EXCEPT !.name = j.new[2]].id = r.id
            BY <4>2 DEF Rows
          <5> QED BY <4>1, <4>4, <5>2, <5>3
        <4> QED BY <3>3, <3>4, <4>1, <4>3, <4>4
      <3> QED BY <1>3, <3>2, <3>3, <3>4, UpdateOwned
    <2>3. CASE SetFileFolderPostId(d, w)
      <3>1. PICK table : table = set_folder_post_id(rows[d], j.fi.id, j.new[1])
        OBVIOUS
      <3>2. rows' = [rows EXCEPT ![d] = table]
        BY <1>1, <2>3, <3>1, TypeIs DEF SetFileFolderPostId, RowsTyped
      <3>3. /\ table \in Seq(Rows) /\ DOMAIN table = DOMAIN rows[d]
            /\ \A i \in DOMAIN rows[d] :
                 \/ table[i] = rows[d][i]
                 \/ rows[d][i].id = j.fi.id /\ table[i] = [rows[d][i] EXCEPT !.folder = j.new[1]]
        BY <1>5, <1>7, <3>1, SetFolderIs
      <3>4. ASSUME NEW i \in DOMAIN table PROVE RowOwned(table[i]) /\ table[i].id = rows[d][i].id
        <4>1. PICK r : r = rows[d][i]
          OBVIOUS
        <4>2. r \in Rows /\ RowOwned(r)
          BY <1>7, <3>3, <3>4, <4>1
        <4>3. CASE table[i] = r
          BY <4>1, <4>2, <4>3
        <4>4. CASE r.id = j.fi.id /\ table[i] = [r EXCEPT !.folder = j.new[1]]
          <5>1. r.file = owner[j.new[2]]
            BY <1>8, <3>3, <3>4, <4>1, <4>4
          <5>2. RowOwned([r EXCEPT !.folder = j.new[1]])
            BY <1>5, <4>2, <5>1, FieldOwned
          <5>3. [r EXCEPT !.folder = j.new[1]].id = r.id
            BY <4>2 DEF Rows
          <5> QED BY <4>1, <4>4, <5>2, <5>3
        <4> QED BY <3>3, <3>4, <4>1, <4>3, <4>4
      <3> QED BY <1>3, <3>2, <3>3, <3>4, UpdateOwned
    <2> QED BY <2>1, <2>2, <2>3
  <1>11. PostsOwned' /\ MovesOwned'
    BY <1>3, OwnedKept
  <1> QED BY <1>2, <1>3, <1>9, <1>10, <1>11, WorkOwned

LEMMA BeginDeleteOwned ==
    ASSUME TypeOK, Owned, NEW d \in Devices, NEW w \in Workers, BeginDelete(d, w)
    PROVE  Owned'
  <1>1. PICK fi : fi = QueryForFile(rows[d], Head(deletes[d]))
    OBVIOUS
  <1>2. PICK p : p = Head(deletes[d])
    OBVIOUS
  <1>3. /\ UNCHANGED <<disk, server, news, renames, pushes, pulls, pull, follow, user, faults>>
        /\ \/ UNCHANGED <<rows, job>>
           \/ /\ fi # NoRow /\ rows' = [rows EXCEPT ![d] = set_file_deleted_for_id(@, fi.id)]
              /\ Goes(d, w, [NoJob EXCEPT !.op = "delete", !.step = "get", !.old = p, !.fi = fi])
        /\ deletes[d] # << >>
    BY <1>1, <1>2 DEF BeginDelete
  <1>4. posts' = posts /\ OwnersStay /\ FilesStay /\ renames' = renames
    BY <1>3, StillOwners, StillFiles DEF server
  <1>5. PostsOwned' /\ MovesOwned'
    BY <1>4, OwnedKept
  <1>6. CASE UNCHANGED <<rows, job>>
    <2>1. \A e \in Devices : RowsOwned(e)' /\ JobsOwned(e)'
      BY <1>4, <1>6, OwnedKept
    <2> QED BY <1>3, <1>4, <1>5, <2>1, WorkOwned
  <1>7. CASE /\ fi # NoRow /\ rows' = [rows EXCEPT ![d] = set_file_deleted_for_id(@, fi.id)]
             /\ Goes(d, w, [NoJob EXCEPT !.op = "delete", !.step = "get", !.old = p, !.fi = fi])
    <2>1. rows[d] \in Seq(Rows) /\ Keyed(rows[d]) /\ rows \in [Devices -> Seq(Rows)]
      BY TypeIs, RowsAreOwned DEF RowsTyped
    <2>2. Holds(rows[d], fi)
      BY <1>1, <1>7, <2>1, QueryIs
    <2>3. fi \in Rows /\ fi.id \in DOMAIN posts /\ RowOwned(fi)
      BY <2>2, RowsAreOwned
    <2>4. p \in Places
      BY <1>2, <1>3, TypeIs DEF AskedTyped
    <2>5. PICK n : n = [NoJob EXCEPT !.op = "delete", !.step = "get", !.old = p, !.fi = fi]
      OBVIOUS
    <2>6. Removing(n) /\ n.fi = fi /\ n.got = NoPost /\ n.op = "delete"
      BY <2>3, <2>4, <2>5 DEF NoJob, Removing
    <2>7. JobOK(n) /\ JobOwned(n) /\ (n.fi # NoRow => n.fi.id \in DOMAIN posts)
      BY <2>3, <2>6 DEF JobOK, JobOwned
    <2>8. \A e \in Devices : JobsOwned(e)'
      BY <1>4, <1>7, <2>5, <2>7, GoesOwned
    <2>9. PICK table : table = set_file_deleted_for_id(rows[d], fi.id)
      OBVIOUS
    <2>10. rows' = [rows EXCEPT ![d] = table]
      BY <1>7, <2>1, <2>9
    <2>11. /\ table \in Seq(Rows) /\ DOMAIN table = DOMAIN rows[d]
           /\ \A i \in DOMAIN rows[d] :
                \/ table[i] = rows[d][i]
                \/ rows[d][i].id = fi.id /\ table[i] = [rows[d][i] EXCEPT !.deleted = TRUE]
      BY <2>1, <2>9, SetDeletedIs
    <2>12. \A i \in DOMAIN rows[d] : rows[d][i] \in Rows /\ RowOwned(rows[d][i])
      BY RowsAreOwned
    <2>13. \A i \in DOMAIN table : RowOwned(table[i])
      BY <2>11, <2>12, FieldOwned
    <2>14. \A i \in DOMAIN table : table[i].id = rows[d][i].id
      BY <2>11, <2>12 DEF Rows
    <2>15. \A e \in Devices : RowsOwned(e)'
      BY <1>4, <2>10, <2>11, <2>13, <2>14, UpdateOwned
    <2> QED BY <1>3, <1>4, <1>5, <2>8, <2>15, WorkOwned
  <1> QED BY <1>3, <1>6, <1>7

LEMMA WorkersOwned ==
    ASSUME TypeOK, Owned, NEW d \in Devices, NEW w \in Workers, Rename(d, w) \/ Delete(d, w)
    PROVE  Owned'
  BY GetOwned, WorkersPutOwned, BeginRenameOwned, LookUpOwned, SetOwned, BeginDeleteOwned
  DEF Rename, Delete

LEMMA InsertOwned ==
    ASSUME TypeOK, Owned, OwnersStay, FilesStay, NEW d \in Devices, NEW r \in Rows,
           rows' = [rows EXCEPT ![d] = InsertFileInfo(@, r)],
           owner'[r.name] = r.file, owner'[r.path[2]] = r.file, posts'[r.id].file = r.file
    PROVE  \A e \in Devices : RowsOwned(e)'
  <1>1. rows[d] \in Seq(Rows) /\ Keyed(rows[d]) /\ rows \in [Devices -> Seq(Rows)]
    BY TypeIs, RowsAreOwned DEF RowsTyped
  <1>2. PICK table : table = InsertFileInfo(rows[d], r)
    OBVIOUS
  <1>3. /\ table \in Seq(Rows) /\ \A x : Holds(table, x) => x = r \/ Holds(rows[d], x)
    BY <1>1, <1>2, InsertIs
  <1>4. rows'[d] = table /\ \A e \in Devices \ {d} : rows'[e] = rows[e]
    BY <1>1, <1>2
  <1>5. RowOwned(r)'
    BY DEF RowOwned, RowNamed
  <1>6. \A x : Holds(rows[d], x) => x \in Rows /\ x.id \in DOMAIN posts /\ RowOwned(x)
    BY RowsAreOwned
  <1>7. \A x : Holds(rows[d], x) => RowOwned(x)'
    BY <1>6, RowStays
  <1>8. \A x : Holds(table, x) => RowOwned(x)'
    BY <1>3, <1>5, <1>7
  <1>9. \A n \in DOMAIN table : RowOwned(table[n])'
    BY <1>8 DEF Holds
  <1>10. RowsOwned(d)'
    BY <1>4, <1>9 DEF RowsOwned, RowOwned, RowNamed
  <1>11. \A e \in Devices \ {d} : RowsOwned(e)'
    BY <1>4, OwnedKept
  <1> QED BY <1>10, <1>11

\* A new file gets a post and a row, of the file that is at the place.
Posted(d, p, k, m, r) ==
  /\ k \in Files /\ owner[p[2]] = k /\ m \in Ids /\ m \notin DOMAIN posts /\ m = Len(posts) + 1
  /\ disk[d][p] = k /\ \A x : Holds(rows[d], x) => x.path # p
  /\ r \in Rows /\ r.id = m /\ r.file = k /\ r.name = p[2] /\ r.folder = p[1] /\ r.path = p
  /\ ~r.deleted /\ rows' = [rows EXCEPT ![d] = InsertFileInfo(@, r)]
  /\ DOMAIN posts' = DOMAIN posts \cup {m} /\ posts'[m] = Post(r, FALSE)
  /\ \A i \in DOMAIN posts : posts'[i] = posts[i]
  /\ Changed(m)

\* A push finds its file in the table, or makes a new post and a new row.
LEMMA PushIs ==
    ASSUME TypeOK, Owned, NEW d \in Devices, NEW p \in Places, PushFile(d, p)
    PROVE  \/ /\ UNCHANGED <<rows, server, news>>
              /\ disk[d][p] = None \/ \E x : Holds(rows[d], x) /\ x.path = p /\ x.file = disk[d][p]
           \/ \E k, m, r : Posted(d, p, k, m, r)
  <1>91. PICK k : k = disk[d][p]
    OBVIOUS
  <1>92. PICK m : m = Len(posts) + 1
    OBVIOUS
  <1>93. PICK r : r = Row(p, m, k)
    OBVIOUS
  <1> DEFINE fi == QueryForFile(rows[d], p)
  <1> DEFINE new == IF fi = NoRow THEN Row(p, Len(posts) + 1, disk[d][p])
                    ELSE [fi EXCEPT !.file = disk[d][p]]
  <1>1. \/ UNCHANGED <<rows, server, news>> /\ (disk[d][p] = None \/ fi.file = disk[d][p])
        \/ /\ disk[d][p] # None /\ fi.file # disk[d][p] /\ new.id <= MaxPosts
           /\ rows' = [rows EXCEPT ![d] = InsertFileInfo(@, new)]
           /\ posts' = [i \in DOMAIN posts \cup {new.id} |->
                          IF i = new.id THEN Post(new, FALSE) ELSE posts[i]]
           /\ Changed(new.id)
    BY DEF PushFile
  <1>7. new = IF fi = NoRow THEN r ELSE [fi EXCEPT !.file = k]
    BY <1>91, <1>92, <1>93
  <1> HIDE DEF new
  <1>2. rows[d] \in Seq(Rows) /\ \A x : Holds(rows[d], x) => x \in Rows /\ RowOwned(x)
    BY RowsAreOwned
  <1>3. \/ Holds(rows[d], fi) /\ fi \in Rows /\ fi.path = p
        \/ fi = NoRow /\ \A x : Holds(rows[d], x) => x.path # p
    BY <1>2, QueryIs
  <1> HIDE DEF fi
  <1>4. /\ k # None => k \in Files
        /\ k \in {None, owner[p[2]]}
    BY <1>91, TypeIs DEF DiskTyped, DiskOwned, Owned
  <1>5. CASE UNCHANGED <<rows, server, news>> /\ (k = None \/ fi.file = k)
    <2>1. CASE k = None
      BY <1>5, <1>91, <2>1
    <2>2. CASE fi.file = k /\ k # None
      <3>1. fi # NoRow
        BY <2>2, NoRowIs
      <3> QED BY <1>3, <1>5, <1>91, <2>2, <3>1
    <2> QED BY <1>5, <2>1, <2>2
  <1>6. CASE /\ k # None /\ fi.file # k /\ new.id <= MaxPosts
             /\ rows' = [rows EXCEPT ![d] = InsertFileInfo(@, new)]
             /\ posts' = [i \in DOMAIN posts \cup {new.id} |->
                            IF i = new.id THEN Post(new, FALSE) ELSE posts[i]]
             /\ Changed(new.id)
    <2>1. fi = NoRow /\ \A x : Holds(rows[d], x) => x.path # p
      <3>1. Holds(rows[d], fi) /\ fi.path = p => fi.file = owner[p[2]]
        BY <1>2 DEF RowOwned, RowNamed
      <3> QED BY <1>3, <1>4, <1>6, <3>1
    <2>2. new = r
      BY <1>7, <2>1
    <2>3. posts \in Seq(PostType) /\ MaxPosts \in Nat
      BY TypeIs, FileNamesAssumption DEF ServerTyped
    <2>4. m \in Nat /\ 1 <= m /\ m \notin DOMAIN posts
      BY <1>92, <2>3
    <2>5. r.id = m
      BY <1>93 DEF Row
    <2>6. m \in Ids
      BY <1>6, <2>2, <2>3, <2>4, <2>5 DEF Ids
    <2>7. /\ r \in Rows /\ r.id = m /\ r.file = k /\ r.name = p[2] /\ r.folder = p[1] /\ r.path = p
          /\ ~r.deleted
      BY <1>4, <1>6, <1>93, <2>6, RowIs
    <2>8. /\ DOMAIN posts' = DOMAIN posts \cup {m} /\ posts'[m] = Post(r, FALSE)
          /\ \A i \in DOMAIN posts : posts'[i] = posts[i]
      <3>1. posts' = [i \in DOMAIN posts \cup {m} |-> IF i = m THEN Post(r, FALSE) ELSE posts[i]]
        BY <1>6, <2>2, <2>5
      <3> QED BY <2>4, <3>1
    <2>9. new.id = m
      BY <2>2, <2>5
    <2>10. Changed(m)
      BY <1>6, <2>9 DEF Changed
    <2>11. rows' = [rows EXCEPT ![d] = InsertFileInfo(@, r)]
      BY <1>6, <2>2
    <2>12. k \in Files /\ owner[p[2]] = k
      BY <1>4, <1>6
    <2>13. Posted(d, p, k, m, r)
      BY <1>91, <1>92, <2>1, <2>4, <2>6, <2>7, <2>8, <2>10, <2>11, <2>12 DEF Posted
    <2> QED BY <2>13
  <1>8. \/ UNCHANGED <<rows, server, news>> /\ (k = None \/ fi.file = k)
        \/ /\ k # None /\ fi.file # k /\ new.id <= MaxPosts
           /\ rows' = [rows EXCEPT ![d] = InsertFileInfo(@, new)]
           /\ posts' = [i \in DOMAIN posts \cup {new.id} |->
                          IF i = new.id THEN Post(new, FALSE) ELSE posts[i]]
           /\ Changed(new.id)
    BY <1>1, <1>91
  <1> QED BY <1>8, <1>5, <1>6

LEMMA PushOwned ==
    ASSUME TypeOK, Owned, NEW d \in Devices, NEW p \in Places, PushFile(d, p)
    PROVE  Owned'
  <1>2. /\ UNCHANGED <<disk, renames, deletes, pulls, job, pull, follow, user, faults>>
    BY DEF PushFile
  <1>3. OwnersStay /\ owner' = owner
    BY <1>2, StillOwners DEF user
  <1>4. CASE UNCHANGED <<rows, server, news>>
    <2>1. FilesStay /\ posts' = posts /\ rows' = rows
      BY <1>4, StillFiles DEF server
    <2>2. PostsOwned' /\ MovesOwned' /\ \A e \in Devices : RowsOwned(e)' /\ JobsOwned(e)'
      BY <1>2, <1>3, <2>1, OwnedKept
    <2> QED BY <1>2, <2>1, <2>2, WorkOwned
  <1>5. ASSUME NEW k, NEW m, NEW r, Posted(d, p, k, m, r) PROVE Owned'
    <2>10. /\ k \in Files /\ owner[p[2]] = k /\ m \notin DOMAIN posts
           /\ r \in Rows /\ r.id = m /\ r.file = k /\ r.name = p[2] /\ r.folder = p[1] /\ r.path = p
           /\ rows' = [rows EXCEPT ![d] = InsertFileInfo(@, r)]
           /\ DOMAIN posts' = DOMAIN posts \cup {m} /\ posts'[m] = Post(r, FALSE)
           /\ \A i \in DOMAIN posts : posts'[i] = posts[i]
      BY <1>5 DEF Posted
    <2>1. FilesStay
      BY <2>10 DEF FilesStay
    <2>2. /\ Post(r, FALSE).file = k /\ Post(r, FALSE).name = p[2] /\ Post(r, FALSE).path = p
          /\ Post(r, FALSE).folder = p[1]
      BY <2>10, PostIs
    <2>3. p = <<p[1], p[2]>>
      BY PlaceIs
    <2>4. PostOwned(Post(r, FALSE))
      BY <2>10, <2>2, <2>3 DEF PostOwned, At
    <2>5. \A i \in DOMAIN posts' : PostOwned(posts'[i])
      BY <2>10, <2>4 DEF Owned, PostsOwned
    <2>6. PostsOwned'
      BY <1>3, <2>5 DEF PostsOwned, PostOwned
    <2>7. posts'[r.id].file = r.file
      BY <2>10, <2>2
    <2>8. \A e \in Devices : RowsOwned(e)'
      BY <1>3, <2>10, <2>1, <2>7, InsertOwned
    <2>9. MovesOwned' /\ \A e \in Devices : JobsOwned(e)'
      BY <1>2, <1>3, <2>1, OwnedKept
    <2> QED BY <1>2, <2>1, <2>6, <2>8, <2>9, WorkOwned
  <1> QED BY <1>4, <1>5, PushIs

\* The follower's steps leave posts, names and the tasks of the user as they are.
LEMMA FollowOwned ==
    ASSUME TypeOK, Owned, UNCHANGED <<server, job, user>>, renames' = renames, DiskOwned',
           \A e \in Devices : RowsOwned(e)' /\ QueueOwned(e)' /\ SyncOwned(e)' /\ PullOwned(e)'
    PROVE  Owned'
  <1>1. OwnersStay /\ FilesStay /\ home' = home /\ posts' = posts
    BY StillOwners, StillFiles DEF user, server
  <1>2. HomeOwned' /\ PostsOwned' /\ MovesOwned' /\ \A e \in Devices : JobsOwned(e)'
    BY <1>1, OwnedKept
  <1> QED BY <1>2 DEF Owned

\* Each element of the new queue was in the old one or is one of the new items.
Joined(d, new) ==
  /\ Len(queue[d]) \in Nat /\ DOMAIN queue[d] = 1 .. Len(queue[d])
  /\ DOMAIN queue'[d] = 1 .. Len(queue[d]) + Len(new)
  /\ \A i \in DOMAIN queue[d] : queue'[d][i] = queue[d][i]
  /\ \A i \in DOMAIN new : queue'[d][Len(queue[d]) + i] = Items(new)[i]
  /\ \A i \in DOMAIN queue'[d] :
       \/ i \in DOMAIN queue[d] /\ queue'[d][i] = queue[d][i]
       \/ i - Len(queue[d]) \in DOMAIN new /\ queue'[d][i] = Items(new)[i - Len(queue[d])]
  /\ \A e \in Devices \ {d} : queue'[e] = queue[e]
  /\ DOMAIN Items(new) = DOMAIN new

LEMMA ItemsJoin ==
    ASSUME TypeOK, NEW d \in Devices, NEW new \in Seq(DOMAIN posts),
           queue' = [queue EXCEPT ![d] = queue[d] \o Items(new)]
    PROVE  Joined(d, new)
  <1> DEFINE Q == [id : Ids, post : PostType]
  <1>1. posts \in Seq(PostType) /\ Len(posts) <= MaxPosts /\ MaxPosts \in Nat
    BY TypeIs, FileNamesAssumption DEF ServerTyped
  <1>2. \A n \in DOMAIN new : new[n] \in DOMAIN posts /\ new[n] \in Ids /\ posts[new[n]] \in PostType
    BY <1>1 DEF Ids
  <1>3. DOMAIN new = 1 .. Len(new) /\ Len(new) \in Nat
    OBVIOUS
  <1>4. \A i \in 1 .. Len(new) : Items(new)[i] \in Q
    BY <1>2, <1>3 DEF Items
  <1>5. Items(new) = [i \in 1 .. Len(new) |-> Items(new)[i]]
    BY <1>3 DEF Items
  <1>6. queue \in [Devices -> Seq(Q)]
    BY TypeIs DEF FollowTyped
  <1> HIDE DEF Q
  <1>7. Items(new) \in Seq(Q) /\ Len(Items(new)) = Len(new) /\ DOMAIN Items(new) = DOMAIN new
    BY <1>3, <1>4, <1>5
  <1>8. queue[d] \in Seq(Q) /\ queue'[d] = queue[d] \o Items(new)
        /\ \A e \in Devices \ {d} : queue'[e] = queue[e]
    BY <1>6
  <1>11. PICK t : t = Items(new)
    OBVIOUS
  <1>12. PICK s : s = queue[d]
    OBVIOUS
  <1>13. t \in Seq(Q) /\ s \in Seq(Q) /\ Len(t) = Len(new) /\ DOMAIN t = DOMAIN new /\ queue'[d] = s \o t
    BY <1>7, <1>8, <1>11, <1>12
  <1>14. /\ s \o t \in Seq(Q) /\ Len(s \o t) = Len(s) + Len(t)
         /\ \A i \in DOMAIN s : i \in DOMAIN (s \o t) /\ (s \o t)[i] = s[i]
         /\ \A i \in DOMAIN t : Len(s) + i \in DOMAIN (s \o t) /\ (s \o t)[Len(s) + i] = t[i]
         /\ \A i \in DOMAIN (s \o t) :
                (i \in DOMAIN s /\ (s \o t)[i] = s[i])
                \/ (i - Len(s) \in DOMAIN t /\ (s \o t)[i] = t[i - Len(s)])
    <2>1. ASSUME NEW S, NEW x \in Seq(S), NEW y \in Seq(S)
          PROVE  /\ x \o y \in Seq(S) /\ Len(x \o y) = Len(x) + Len(y)
                 /\ \A i \in DOMAIN x : i \in DOMAIN (x \o y) /\ (x \o y)[i] = x[i]
                 /\ \A i \in DOMAIN y : Len(x) + i \in DOMAIN (x \o y) /\ (x \o y)[Len(x) + i] = y[i]
                 /\ \A i \in DOMAIN (x \o y) :
                      (i \in DOMAIN x /\ (x \o y)[i] = x[i])
                      \/ (i - Len(x) \in DOMAIN y /\ (x \o y)[i] = y[i - Len(x)])
      BY JoinIs
    <2>2. s \in Seq(Q) /\ t \in Seq(Q)
      BY <1>13
    <2> QED BY <2>1, <2>2
  <1>9. /\ queue'[d] \in Seq(Q) /\ Len(queue'[d]) = Len(queue[d]) + Len(new)
        /\ \A i \in DOMAIN queue[d] : queue'[d][i] = queue[d][i]
        /\ \A i \in DOMAIN new : queue'[d][Len(queue[d]) + i] = Items(new)[i]
        /\ \A i \in DOMAIN queue'[d] :
             \/ i \in DOMAIN queue[d] /\ queue'[d][i] = queue[d][i]
             \/ i - Len(queue[d]) \in DOMAIN new /\ queue'[d][i] = Items(new)[i - Len(queue[d])]
    BY <1>11, <1>12, <1>13, <1>14
  <1>10. Len(queue[d]) \in Nat /\ DOMAIN queue[d] = 1 .. Len(queue[d])
         /\ DOMAIN queue'[d] = 1 .. Len(queue'[d])
    BY <1>8, <1>9
  <1> QED BY <1>7, <1>8, <1>9, <1>10 DEF Joined


\* What a step of the follower leaves as it is.
LEMMA FollowKept ==
    ASSUME TypeOK, Owned, UNCHANGED <<server, user>>
    PROVE  /\ OwnersStay /\ FilesStay /\ owner' = owner /\ posts' = posts
           /\ disk' = disk => DiskOwned'
           /\ \A e \in Devices :
                /\ rows'[e] = rows[e] => RowsOwned(e)'
                /\ queue'[e] = queue[e] => QueueOwned(e)'
                /\ sync'[e] = sync[e] => SyncOwned(e)'
                /\ pull'[e] = pull[e] => PullOwned(e)'
  <1>1. OwnersStay /\ FilesStay /\ owner' = owner /\ posts' = posts
    BY StillOwners, StillFiles DEF user, server
  <1> QED BY <1>1, OwnedKept

LEMMA PollOwned ==
    ASSUME TypeOK, Owned, NEW d \in Devices, Poll(d)
    PROVE  Owned'
  <1>1. /\ UNCHANGED <<rows, server, asked, job, pull, user>> /\ sync' = sync /\ UNCHANGED <<server, user>>
        /\ UNCHANGED <<server, job, user>> /\ renames' = renames /\ rows' = rows /\ pull' = pull
    BY DEF Poll, PollDeletedFilePosts, PollFilePosts, follow, asked
  <1>2. /\ owner' = owner /\ posts' = posts /\ (disk' = disk => DiskOwned')
        /\ \A e \in Devices : /\ RowsOwned(e)' /\ SyncOwned(e)' /\ PullOwned(e)'
                              /\ queue'[e] = queue[e] => QueueOwned(e)'
    BY <1>1, FollowKept
  <1>3. CASE PollDeletedFilePosts(d)
    <2>1. queue' = queue /\ \A e \in Devices : \A p \in Places : disk'[e][p] \in {None, disk[e][p]}
      BY <1>3, TypeIs DEF PollDeletedFilePosts, follow, DiskTyped
    <2>2. DiskOwned'
      BY <1>2, <2>1 DEF DiskOwned, Owned
    <2> QED BY <1>1, <1>2, <2>1, <2>2, FollowOwned
  <1>4. CASE PollFilePosts(d)
    <2> DEFINE live == news[d] \ Deleted(news[d])
    <2> DEFINE new == Kept(order, {n \in DOMAIN order : order[n] \in live})
    <2>1. /\ disk' = disk /\ queue' = [queue EXCEPT ![d] = @ \o Items(new)]
      BY <1>4 DEF PollFilePosts, Items
    <2>2. live \subseteq DOMAIN posts
      BY TypeIs DEF NewsTyped
    <2> HIDE DEF live
    <2>3. new \in Seq(DOMAIN posts)
      BY <2>2, PolledIs DEF Polled
    <2> HIDE DEF new
    <2>4. posts \in Seq(PostType) /\ Len(posts) <= MaxPosts /\ MaxPosts \in Nat
      BY TypeIs, FileNamesAssumption DEF ServerTyped
    <2>5. queue' = [queue EXCEPT ![d] = queue[d] \o Items(new)]
      BY <2>1, TypeIs DEF FollowTyped
    <2>6. /\ \A i \in DOMAIN queue'[d] :
               \/ \E n \in DOMAIN queue[d] : queue'[d][i] = queue[d][n]
               \/ \E n \in DOMAIN Items(new) : queue'[d][i] = Items(new)[n]
      <3>1. Joined(d, new)
        BY <2>3, <2>5, ItemsJoin
      <3>2. DOMAIN Items(new) = DOMAIN new
        BY <3>1 DEF Joined
      <3>3. ASSUME NEW i \in DOMAIN queue'[d]
            PROVE  \/ \E n \in DOMAIN queue[d] : queue'[d][i] = queue[d][n]
                   \/ \E n \in DOMAIN Items(new) : queue'[d][i] = Items(new)[n]
        <4>1. \/ i \in DOMAIN queue[d] /\ queue'[d][i] = queue[d][i]
              \/ i - Len(queue[d]) \in DOMAIN new /\ queue'[d][i] = Items(new)[i - Len(queue[d])]
          BY <3>1 DEF Joined
        <4> QED BY <3>2, <4>1
      <3> QED BY <3>3
    <2>7. \A n \in DOMAIN Items(new) : Items(new)[n].id \in DOMAIN posts
                                       /\ Items(new)[n].post = posts[Items(new)[n].id]
      BY <2>3 DEF Items
    <2>8. \A n \in DOMAIN Items(new) : Tells(Items(new)[n].id, Items(new)[n].post)
      BY <2>7 DEF Tells, Owned, PostsOwned
    <2>9. \A n \in DOMAIN queue[d] : Tells(queue[d][n].id, queue[d][n].post)
      BY DEF Owned, QueueOwned
    <2>10. \A i \in DOMAIN queue'[d] : Tells(queue'[d][i].id, queue'[d][i].post)
      BY <2>6, <2>8, <2>9
    <2>11. QueueOwned(d)'
      BY <1>2, <2>10 DEF QueueOwned, Tells, PostOwned
    <2>12. \A e \in Devices : QueueOwned(e)'
      BY <1>2, <2>5, <2>11, TypeIs DEF FollowTyped
    <2> QED BY <1>1, <1>2, <2>1, <2>12, FollowOwned
  <1> QED BY <1>3, <1>4 DEF Poll

\* FileSync takes the first post of its queue, which is owned as the others are.
Took(d, item) ==
  /\ item.id \in DOMAIN posts /\ item.id \in Ids /\ item.post \in PostType /\ Tells(item.id, item.post)
  /\ Len(queue[d]) \in Nat /\ Len(queue[d]) > 0 /\ DOMAIN queue[d] = 1 .. Len(queue[d])
  /\ DOMAIN queue'[d] = 1 .. Len(queue'[d]) /\ Len(queue'[d]) = Len(queue[d]) - 1
  /\ item = queue[d][1] /\ \A i \in 1 .. Len(queue'[d]) : queue'[d][i] = queue[d][i + 1]
  /\ \A e \in Devices \ {d} : queue'[e] = queue[e]
  /\ \A n \in DOMAIN queue'[d] : Tells(queue'[d][n].id, queue'[d][n].post)

LEMMA TookIs ==
    ASSUME TypeOK, Owned, NEW d \in Devices, ProcessFilePost(d), NEW item, item = Head(queue[d])
    PROVE  Took(d, item)
  <1>1. item = Head(queue[d])
    OBVIOUS
  <1>3. /\ sync[d] = NoSync /\ queue[d] # << >> /\ queue' = [queue EXCEPT ![d] = Tail(@)]
        /\ UNCHANGED server
    BY DEF ProcessFilePost
  <1>5. posts' = posts
    BY <1>3 DEF server
  <1>6. TypeOK'
    BY ProcessTypes
  <1>7. sync' \in [Devices -> Waits \cup {NoSync}] /\ sync \in [Devices -> Waits \cup {NoSync}]
    BY <1>6, TypeIs DEF FollowTyped, TypeOK, Typed
  <1>8. /\ item \in [id : Ids, post : PostType] /\ item.id \in DOMAIN posts
        /\ item.id \in Ids /\ item.post \in PostType
        /\ Len(queue[d]) \in Nat /\ Len(queue[d]) > 0 /\ DOMAIN queue[d] = 1 .. Len(queue[d])
        /\ DOMAIN queue'[d] = 1 .. Len(queue'[d]) /\ Len(queue'[d]) = Len(queue[d]) - 1
        /\ item = queue[d][1] /\ \A i \in 1 .. Len(queue'[d]) : queue'[d][i] = queue[d][i + 1]
        /\ \A e \in Devices \ {d} : queue'[e] = queue[e]
    <2>1. /\ Head(queue[d]) \in [id : Ids, post : PostType] /\ Head(queue[d]).id \in DOMAIN posts
          /\ Head(queue[d]).id \in Ids /\ Head(queue[d]).post \in PostType
          /\ queue[d] \in Seq([id : Ids, post : PostType]) /\ Len(queue[d]) \in Nat /\ Len(queue[d]) > 0
          /\ queue'[d] \in Seq([id : Ids, post : PostType]) /\ Len(queue'[d]) = Len(queue[d]) - 1
          /\ Head(queue[d]) = queue[d][1]
          /\ \A i \in 1 .. Len(queue'[d]) : queue'[d][i] = queue[d][i + 1]
          /\ \A e \in Devices \ {d} : queue'[e] = queue[e]
      BY <1>3, <1>5, <1>7, TakenIs
    <2> DEFINE Q == [id : Ids, post : PostType]
    <2>2. queue[d] \in Seq(Q) /\ queue'[d] \in Seq(Q)
      BY <2>1
    <2> HIDE DEF Q
    <2>3. DOMAIN queue[d] = 1 .. Len(queue[d]) /\ DOMAIN queue'[d] = 1 .. Len(queue'[d])
      BY <2>2
    <2> QED BY <1>1, <2>1, <2>3
  <1>9. \A n \in DOMAIN queue[d] : Tells(queue[d][n].id, queue[d][n].post)
    BY DEF Owned, QueueOwned
  <1>15. 1 \in DOMAIN queue[d] /\ \A n \in DOMAIN queue'[d] : n + 1 \in DOMAIN queue[d]
    BY <1>8
  <1>10. Tells(item.id, item.post) /\ \A n \in DOMAIN queue'[d] : Tells(queue'[d][n].id, queue'[d][n].post)
    BY <1>8, <1>9, <1>15
  <1> QED BY <1>8, <1>10 DEF Took

LEMMA ProcessOwned ==
    ASSUME TypeOK, Owned, NEW d \in Devices, ProcessFilePost(d)
    PROVE  Owned'
  <1>1. PICK item : item = Head(queue[d])
    OBVIOUS
  <1>2. PICK local : local = QueryForFileByPostId(rows[d], item.id)
    OBVIOUS
  <1>3. /\ UNCHANGED <<disk, server, news, asked, job, pull, user, faults>>
        /\ sync[d] = NoSync /\ queue[d] # << >> /\ queue' = [queue EXCEPT ![d] = Tail(@)]
        /\ \/ local = NoRow /\ rows' = [rows EXCEPT ![d] = InsertFileInfo(@, RowOf(item.post, item.id))]
              /\ sync' = sync
           \/ rows' = rows
              /\ sync' = [sync EXCEPT ![d] = [step |-> "name", id |-> item.id, post |-> item.post,
                                              local |-> local]]
    BY <1>1, <1>2 DEF ProcessFilePost
  <1>4. /\ UNCHANGED <<server, user>> /\ UNCHANGED <<server, job, user>> /\ renames' = renames
        /\ disk' = disk /\ pull' = pull
    BY <1>3 DEF asked
  <1>5. /\ owner' = owner /\ posts' = posts /\ OwnersStay /\ FilesStay /\ DiskOwned'
        /\ \A e \in Devices : /\ PullOwned(e)' /\ (rows'[e] = rows[e] => RowsOwned(e)')
                              /\ sync'[e] = sync[e] => SyncOwned(e)'
                              /\ queue'[e] = queue[e] => QueueOwned(e)'
    BY <1>4, FollowKept
  <1>7. sync \in [Devices -> Waits \cup {NoSync}]
    BY TypeIs DEF FollowTyped
  <1>16. Took(d, item)
    BY <1>1, TookIs
  <1>8. /\ item.id \in Ids /\ item.post \in PostType /\ \A e \in Devices \ {d} : queue'[e] = queue[e]
    BY <1>16 DEF Took
  <1>10. Tells(item.id, item.post) /\ \A n \in DOMAIN queue'[d] : Tells(queue'[d][n].id, queue'[d][n].post)
    BY <1>16 DEF Took
  <1>11. QueueOwned(d)'
    BY <1>5, <1>10 DEF QueueOwned, Tells, PostOwned
  <1>12. \A e \in Devices : QueueOwned(e)'
    BY <1>5, <1>8, <1>11
  <1>13. CASE rows' = [rows EXCEPT ![d] = InsertFileInfo(@, RowOf(item.post, item.id))] /\ sync' = sync
    <2>1. PICK r : r = RowOf(item.post, item.id)
      OBVIOUS
    <2>2. /\ r \in Rows /\ r.id = item.id /\ r.file = item.post.file /\ r.name = item.post.name
          /\ r.path = item.post.path /\ r.path = <<item.post.folder, item.post.name>>
      BY <1>8, <1>10, <2>1, RowOfIs DEF Tells, PostOwned, At
    <2>3. owner'[r.name] = r.file /\ owner'[r.path[2]] = r.file /\ posts'[r.id].file = r.file
      BY <1>5, <1>10, <2>2 DEF Tells, PostOwned
    <2>4. \A e \in Devices : RowsOwned(e)'
      BY <1>5, <1>13, <2>1, <2>2, <2>3, InsertOwned
    <2> QED BY <1>4, <1>5, <1>12, <1>13, <2>4, FollowOwned
  <1>14. CASE /\ rows' = rows
              /\ sync' = [sync EXCEPT ![d] = [step |-> "name", id |-> item.id, post |-> item.post,
                                              local |-> local]]
    <2>1. sync'[d].id = item.id /\ sync'[d].post = item.post /\ \A e \in Devices \ {d} : sync'[e] = sync[e]
      BY <1>7, <1>14
    <2>2. SyncOwned(d)'
      BY <1>5, <1>10, <2>1 DEF SyncOwned, Tells, PostOwned
    <2> QED BY <1>4, <1>5, <1>12, <1>14, <2>1, <2>2, FollowOwned
  <1> QED BY <1>3, <1>13, <1>14

\* What FileSync works on, with its owner.
LEMMA SyncOwnedIs ==
    ASSUME TypeOK, Owned, NEW d \in Devices, sync[d].step # "idle", NEW s, s = sync[d],
           NEW fi, fi = QueryForFileByPostId(rows[d], s.id)
    PROVE  /\ s \in Waits /\ s # NoSync /\ s.id \in Ids /\ s.id \in DOMAIN posts
           /\ s.post \in PostType /\ s.local \in Rows /\ Tells(s.id, s.post)
           /\ Holds(rows[d], fi) /\ fi \in Rows /\ fi.id = s.id /\ RowOwned(fi)
           /\ fi.file = s.post.file /\ fi.file \in Files
           /\ fi.name \in Names /\ fi.folder \in Folders
           /\ s.post.name \in Names /\ s.post.folder \in Folders /\ s.post.file \in Files
  <1>1. /\ s \in Waits /\ s.id \in Ids /\ s.post \in PostType /\ s.local \in Rows /\ s # NoSync
        /\ Holds(rows[d], fi) /\ fi \in Rows /\ fi.id = s.id
    BY SyncIs
  <1>2. s.id \in DOMAIN posts /\ RowOwned(fi)
    BY <1>1, RowsAreOwned
  <1>3. Tells(s.id, s.post)
    BY <1>1 DEF Owned, SyncOwned
  <1>4. fi.file = s.post.file
    BY <1>1, <1>2, <1>3 DEF RowOwned, Tells
  <1> QED BY <1>1, <1>2, <1>3, <1>4 DEF Rows, PostType

\* FileSync moves a file from p to q, of the same owner, and a field of its rows.
Relocated(d, p, q, table) ==
  /\ p \in Places /\ q \in Places /\ Free(d, p, q)
  /\ owner[p[2]] = posts[sync[d].id].file /\ owner[q[2]] = posts[sync[d].id].file
  /\ disk' = [disk EXCEPT ![d] = Renamed(d, p, q)] /\ rows' = [rows EXCEPT ![d] = table]
  /\ table \in Seq(Rows) /\ DOMAIN table = DOMAIN rows[d]
  /\ \A n \in DOMAIN table :
       /\ table[n].id = rows[d][n].id /\ table[n].path = rows[d][n].path
       /\ (table[n].deleted <=> rows[d][n].deleted) /\ RowOwned(table[n])

LEMMA RelocatesIs ==
    ASSUME TypeOK, Owned, NEW d \in Devices, RenameFileLocalCache(d) \/ UpdateFilepath(d)
    PROVE  /\ UNCHANGED <<disk, rows>> \/ \E p, q, table : Relocated(d, p, q, table)
           /\ sync[d] \in Waits /\ sync[d] # NoSync /\ sync'[d] # NoSync /\ sync[d].id \in DOMAIN posts
           /\ sync'[d].id = sync[d].id /\ sync'[d].post = sync[d].post /\ sync'[d].local = sync[d].local
           /\ \A e \in Devices \ {d} : sync'[e] = sync[e]
  <1>1. PICK s : s = sync[d]
    OBVIOUS
  <1>2. PICK fi : fi = QueryForFileByPostId(rows[d], s.id)
    OBVIOUS
  <1>3. s.step \in {"name", "folder"}
    BY <1>1 DEF RenameFileLocalCache, UpdateFilepath
  <1>4. /\ s \in Waits /\ s # NoSync /\ s.id \in Ids /\ s.id \in DOMAIN posts
        /\ s.post \in PostType /\ s.local \in Rows /\ Tells(s.id, s.post)
        /\ Holds(rows[d], fi) /\ fi \in Rows /\ fi.id = s.id /\ RowOwned(fi)
        /\ fi.file = s.post.file /\ fi.file \in Files
        /\ fi.name \in Names /\ fi.folder \in Folders
        /\ s.post.name \in Names /\ s.post.folder \in Folders /\ s.post.file \in Files
    BY <1>1, <1>2, <1>3, SyncOwnedIs
  <1>5. PICK next \in {"name", "folder", "check"} : sync' = [sync EXCEPT ![d].step = next]
    BY DEF RenameFileLocalCache, UpdateFilepath
  <1>6. /\ sync' \in [Devices -> Waits \cup {NoSync}] /\ sync'[d] = [sync[d] EXCEPT !.step = next]
        /\ \A e \in Devices \ {d} : sync'[e] = sync[e]
    BY <1>1, <1>4, <1>5, SyncStep
  <1>7. sync'[d].id = s.id /\ sync'[d].post = s.post /\ sync'[d].local = s.local /\ sync'[d].step = next
    BY <1>1, <1>4, <1>6 DEF Waits
  <1>8. sync'[d] # NoSync
    BY <1>7, NoSyncIs
  <1>9. posts[s.id].file = fi.file /\ owner[fi.name] = fi.file /\ owner[s.post.name] = fi.file
    BY <1>4 DEF RowOwned, RowNamed, Tells, PostOwned
  <1>10. PICK p : p = At(fi)
    OBVIOUS
  <1>11. p \in Places /\ p[2] = fi.name /\ owner[p[2]] = posts[s.id].file
    BY <1>4, <1>9, <1>10 DEF At, Places
  <1>12. /\ rows[d] \in Seq(Rows) /\ Keyed(rows[d]) /\ rows \in [Devices -> Seq(Rows)]
         /\ \A n \in DOMAIN rows[d] : rows[d][n] \in Rows /\ RowOwned(rows[d][n])
    BY RowsAreOwned, TypeIs DEF RowsTyped
  <1>13. \A n \in DOMAIN rows[d] : rows[d][n].id = s.id => rows[d][n].file = fi.file
    BY <1>9, <1>12 DEF RowOwned
  <1>14. CASE UNCHANGED <<disk, rows>>
    BY <1>1, <1>4, <1>6, <1>7, <1>8, <1>14
  <1>15. CASE /\ Free(d, At(fi), <<fi.folder, s.post.name>>)
              /\ disk' = [disk EXCEPT ![d] = Renamed(d, At(fi), <<fi.folder, s.post.name>>)]
              /\ rows' = [rows EXCEPT ![d] = set_filename_for_id(@, s.id, s.post.name)]
    <2>1. PICK q : q = <<fi.folder, s.post.name>>
      OBVIOUS
    <2>2. PICK table : table = set_filename_for_id(rows[d], s.id, s.post.name)
      OBVIOUS
    <2>3. q \in Places /\ owner[q[2]] = posts[s.id].file
      BY <1>4, <1>9, <2>1 DEF Places
    <2>4. /\ table \in Seq(Rows) /\ DOMAIN table = DOMAIN rows[d]
          /\ \A i \in DOMAIN rows[d] :
               \/ table[i] = rows[d][i]
               \/ rows[d][i].id = s.id /\ table[i] = [rows[d][i] EXCEPT !.name = s.post.name]
      BY <1>4, <1>12, <2>2, SetNameIs
    <2>5. ASSUME NEW i \in DOMAIN table
          PROVE  /\ table[i].id = rows[d][i].id /\ table[i].path = rows[d][i].path
                 /\ (table[i].deleted <=> rows[d][i].deleted) /\ RowOwned(table[i])
      <3>1. PICK r : r = rows[d][i]
        OBVIOUS
      <3>2. r \in Rows /\ RowOwned(r)
        BY <1>12, <2>4, <2>5, <3>1
      <3>3. CASE table[i] = r
        BY <3>1, <3>2, <3>3
      <3>4. CASE r.id = s.id /\ table[i] = [r EXCEPT !.name = s.post.name]
        <4>1. r.file = fi.file
          BY <1>13, <2>4, <2>5, <3>1, <3>4
        <4>2. RowOwned([r EXCEPT !.name = s.post.name])
          BY <1>4, <1>9, <3>2, <4>1, FieldOwned
        <4> QED BY <3>1, <3>2, <3>4, <4>2 DEF Rows
      <3> QED BY <2>4, <2>5, <3>1, <3>3, <3>4
    <2>6. Relocated(d, p, q, table)
      BY <1>1, <1>10, <1>11, <1>12, <1>15, <2>1, <2>2, <2>3, <2>4, <2>5 DEF Relocated
    <2> QED BY <1>1, <1>4, <1>6, <1>7, <1>8, <2>6
  <1>16. CASE /\ Free(d, At(fi), <<s.post.folder, fi.name>>)
              /\ disk' = [disk EXCEPT ![d] = Renamed(d, At(fi), <<s.post.folder, fi.name>>)]
              /\ rows' = [rows EXCEPT ![d] = set_folder_post_id(@, s.id, s.post.folder)]
    <2>1. PICK q : q = <<s.post.folder, fi.name>>
      OBVIOUS
    <2>2. PICK table : table = set_folder_post_id(rows[d], s.id, s.post.folder)
      OBVIOUS
    <2>3. q \in Places /\ owner[q[2]] = posts[s.id].file
      BY <1>4, <1>9, <2>1 DEF Places
    <2>4. /\ table \in Seq(Rows) /\ DOMAIN table = DOMAIN rows[d]
          /\ \A i \in DOMAIN rows[d] :
               \/ table[i] = rows[d][i]
               \/ rows[d][i].id = s.id /\ table[i] = [rows[d][i] EXCEPT !.folder = s.post.folder]
      BY <1>4, <1>12, <2>2, SetFolderIs
    <2>5. ASSUME NEW i \in DOMAIN table
          PROVE  /\ table[i].id = rows[d][i].id /\ table[i].path = rows[d][i].path
                 /\ (table[i].deleted <=> rows[d][i].deleted) /\ RowOwned(table[i])
      <3>1. PICK r : r = rows[d][i]
        OBVIOUS
      <3>2. r \in Rows /\ RowOwned(r)
        BY <1>12, <2>4, <2>5, <3>1
      <3>3. CASE table[i] = r
        BY <3>1, <3>2, <3>3
      <3>4. CASE r.id = s.id /\ table[i] = [r EXCEPT !.folder = s.post.folder]
        <4>1. RowOwned([r EXCEPT !.folder = s.post.folder])
          BY <1>4, <3>2, FieldOwned
        <4> QED BY <3>1, <3>2, <3>4, <4>1 DEF Rows
      <3> QED BY <2>4, <2>5, <3>1, <3>3, <3>4
    <2>6. Relocated(d, p, q, table)
      BY <1>1, <1>10, <1>11, <1>12, <1>16, <2>1, <2>2, <2>3, <2>4, <2>5 DEF Relocated
    <2> QED BY <1>1, <1>4, <1>6, <1>7, <1>8, <2>6
  <1>17. \/ UNCHANGED <<disk, rows>>
         \/ /\ Free(d, At(fi), <<fi.folder, s.post.name>>)
            /\ disk' = [disk EXCEPT ![d] = Renamed(d, At(fi), <<fi.folder, s.post.name>>)]
            /\ rows' = [rows EXCEPT ![d] = set_filename_for_id(@, s.id, s.post.name)]
         \/ /\ Free(d, At(fi), <<s.post.folder, fi.name>>)
            /\ disk' = [disk EXCEPT ![d] = Renamed(d, At(fi), <<s.post.folder, fi.name>>)]
            /\ rows' = [rows EXCEPT ![d] = set_folder_post_id(@, s.id, s.post.folder)]
    BY <1>1, <1>2 DEF RenameFileLocalCache, UpdateFilepath
  <1> QED BY <1>14, <1>15, <1>16, <1>17

LEMMA RelocateOwned ==
    ASSUME TypeOK, Owned, NEW d \in Devices, RenameFileLocalCache(d) \/ UpdateFilepath(d)
    PROVE  Owned'
  <1>1. /\ UNCHANGED <<server, user>> /\ UNCHANGED <<server, job, user>> /\ renames' = renames
        /\ pull' = pull /\ queue' = queue
    BY DEF RenameFileLocalCache, UpdateFilepath, asked
  <1>2. /\ owner' = owner /\ posts' = posts /\ OwnersStay /\ FilesStay
        /\ disk' = disk => DiskOwned'
        /\ \A e \in Devices : /\ PullOwned(e)' /\ QueueOwned(e)' /\ (rows'[e] = rows[e] => RowsOwned(e)')
                              /\ sync'[e] = sync[e] => SyncOwned(e)'
    BY <1>1, FollowKept
  <1>3. /\ UNCHANGED <<disk, rows>> \/ \E p, q, table : Relocated(d, p, q, table)
        /\ sync[d] # NoSync /\ sync'[d].id = sync[d].id /\ sync'[d].post = sync[d].post
        /\ \A e \in Devices \ {d} : sync'[e] = sync[e]
    BY RelocatesIs
  <1>4. \A e \in Devices : SyncOwned(e)'
    <2>1. Tells(sync[d].id, sync[d].post)
      BY <1>3 DEF Owned, SyncOwned
    <2>2. SyncOwned(d)'
      BY <1>2, <1>3, <2>1 DEF SyncOwned, Tells, PostOwned
    <2> QED BY <1>2, <1>3, <2>2
  <1>5. CASE UNCHANGED <<disk, rows>>
    <2>1. disk' = disk /\ rows' = rows
      BY <1>5
    <2> QED BY <1>1, <1>2, <1>4, <2>1, FollowOwned
  <1>6. ASSUME NEW p, NEW q, NEW table, Relocated(d, p, q, table)
        PROVE  Owned'
    <2>1. /\ p \in Places /\ q \in Places /\ Free(d, p, q) /\ owner[p[2]] = owner[q[2]]
          /\ disk' = [disk EXCEPT ![d] = Renamed(d, p, q)] /\ rows' = [rows EXCEPT ![d] = table]
          /\ table \in Seq(Rows) /\ DOMAIN table = DOMAIN rows[d]
          /\ \A n \in DOMAIN table : table[n].id = rows[d][n].id /\ RowOwned(table[n])
      BY <1>6 DEF Relocated
    <2>2. \A e \in Devices : RowsOwned(e)'
      BY <1>2, <2>1, UpdateOwned
    <2>6. DiskTyped
      BY TypeIs
    <2>3. /\ disk'[d][p] = None /\ disk'[d][q] = disk[d][p]
          /\ \A x \in Places : x # p /\ x # q => disk'[d][x] = disk[d][x]
          /\ \A e \in Devices \ {d} : disk'[e] = disk[e]
      BY <2>1, <2>6 DEF DiskTyped, Renamed, Free
    <2>4. \A e \in Devices : \A x \in Places : disk'[e][x] \in {None, owner[x[2]]}
      <3>1. disk[d][p] \in {None, owner[p[2]]}
        BY <2>1 DEF Owned, DiskOwned
      <3> QED BY <2>1, <2>3, <3>1 DEF Owned, DiskOwned
    <2>5. DiskOwned'
      BY <1>2, <2>4 DEF DiskOwned
    <2> QED BY <1>1, <1>2, <1>4, <2>2, <2>5, FollowOwned
  <1> QED BY <1>3, <1>5, <1>6

\* The last step of FileSync writes the row of its post, or none.
LEMMA CheckIs ==
    ASSUME TypeOK, Owned, NEW d \in Devices, CheckFile(d), NEW s, s = sync[d],
           NEW r, r = RowOf(s.post, s.id)
    PROVE  /\ s \in Waits /\ s # NoSync /\ s.id \in DOMAIN posts /\ s.post \in PostType
           /\ Tells(s.id, s.post) /\ s.local \in Rows
           /\ r \in Rows /\ r.id = s.id /\ r.file = s.post.file /\ r.name = s.post.name
           /\ r.path = s.post.path /\ r.path = At(s.post) /\ ~r.deleted
           /\ owner[r.name] = r.file /\ owner[r.path[2]] = r.file /\ posts[r.id].file = r.file
           /\ rows' = rows \/ rows' = [rows EXCEPT ![d] = InsertFileInfo(@, r)]
           /\ sync'[d] = NoSync /\ \A e \in Devices \ {d} : sync'[e] = sync[e]
  <1>1. /\ sync[d].step # "idle"
        /\ rows' = rows \/ rows' = [rows EXCEPT ![d] = InsertFileInfo(@, r)]
        /\ sync' = [sync EXCEPT ![d] = NoSync]
    BY DEF CheckFile
  <1>2. PICK fi : fi = QueryForFileByPostId(rows[d], s.id)
    OBVIOUS
  <1>3. /\ s \in Waits /\ s # NoSync /\ s.id \in Ids /\ s.id \in DOMAIN posts
        /\ s.post \in PostType /\ s.local \in Rows /\ Tells(s.id, s.post)
        /\ s.post.name \in Names
    BY <1>1, <1>2, SyncOwnedIs
  <1>4. /\ r \in Rows /\ r.id = s.id /\ r.file = s.post.file /\ r.name = s.post.name
        /\ r.path = s.post.path /\ ~r.deleted
    BY <1>3, RowOfIs
  <1>5. s.post.path = At(s.post) /\ At(s.post)[2] = s.post.name /\ owner[s.post.name] = s.post.file
        /\ posts[s.id].file = s.post.file
    BY <1>3 DEF Tells, PostOwned, At
  <1>6. sync'[d] = NoSync /\ \A e \in Devices \ {d} : sync'[e] = sync[e]
    BY <1>1, TypeIs DEF FollowTyped
  <1> QED BY <1>1, <1>3, <1>4, <1>5, <1>6

LEMMA CheckOwned ==
    ASSUME TypeOK, Owned, NEW d \in Devices, CheckFile(d)
    PROVE  Owned'
  <1>1. /\ UNCHANGED <<server, user>> /\ UNCHANGED <<server, job, user>> /\ renames' = renames
        /\ pull' = pull /\ queue' = queue /\ disk' = disk
    BY DEF CheckFile, asked
  <1>2. /\ owner' = owner /\ posts' = posts /\ OwnersStay /\ FilesStay /\ DiskOwned'
        /\ \A e \in Devices : /\ PullOwned(e)' /\ QueueOwned(e)' /\ (rows'[e] = rows[e] => RowsOwned(e)')
                              /\ sync'[e] = sync[e] => SyncOwned(e)'
    BY <1>1, FollowKept
  <1>3. PICK s : s = sync[d]
    OBVIOUS
  <1>4. PICK r : r = RowOf(s.post, s.id)
    OBVIOUS
  <1>5. /\ r \in Rows /\ owner[r.name] = r.file /\ owner[r.path[2]] = r.file /\ posts[r.id].file = r.file
        /\ rows' = rows \/ rows' = [rows EXCEPT ![d] = InsertFileInfo(@, r)]
        /\ sync'[d] = NoSync /\ \A e \in Devices \ {d} : sync'[e] = sync[e]
    BY <1>3, <1>4, CheckIs
  <1>6. \A e \in Devices : SyncOwned(e)'
    <2>1. SyncOwned(d)'
      BY <1>5 DEF SyncOwned
    <2> QED BY <1>2, <1>5, <2>1
  <1>7. owner'[r.name] = r.file /\ owner'[r.path[2]] = r.file /\ posts'[r.id].file = r.file
    BY <1>2, <1>5
  <1>8. \A e \in Devices : RowsOwned(e)'
    <2>1. CASE rows' = rows
      BY <1>2, <2>1
    <2>2. CASE rows' = [rows EXCEPT ![d] = InsertFileInfo(@, r)]
      BY <1>2, <1>5, <1>7, <2>2, InsertOwned
    <2> QED BY <1>5, <2>1, <2>2
  <1> QED BY <1>1, <1>2, <1>6, <1>8, FollowOwned

LEMMA PullsOwned ==
    ASSUME TypeOK, Owned, NEW d \in Devices, EndPull(d) \/ \E p \in Places : BeginPull(d, p)
    PROVE  Owned'
  <1>1. /\ UNCHANGED <<server, user>> /\ UNCHANGED <<server, job, user>> /\ renames' = renames
        /\ queue' = queue /\ sync' = sync /\ rows' = rows
    BY DEF BeginPull, EndPull, asked, follow
  <1>2. /\ owner' = owner /\ (disk' = disk => DiskOwned')
        /\ \A e \in Devices : /\ QueueOwned(e)' /\ RowsOwned(e)' /\ SyncOwned(e)'
                              /\ pull'[e] = pull[e] => PullOwned(e)'
    BY <1>1, FollowKept
  <1>3. /\ disk \in [Devices -> [Places -> Files \cup {None}]] /\ pull \in [Devices -> Rows \cup {NoRow}]
    BY TypeIs DEF DiskTyped, PullsTyped
  <1>4. ASSUME NEW p \in Places, BeginPull(d, p) PROVE Owned'
    <2>1. PICK fi : fi = QueryForFile(rows[d], p)
      OBVIOUS
    <2>2. disk' = disk /\ (pull' = pull \/ pull' = [pull EXCEPT ![d] = fi])
      BY <1>4, <2>1 DEF BeginPull
    <2>3. fi # NoRow => RowNamed(fi)
      BY <2>1, RowsAreOwned, QueryIs DEF RowOwned
    <2>4. \A e \in Devices : PullOwned(e)'
      <3>1. CASE pull' = pull
        BY <1>2, <3>1
      <3>2. CASE pull' = [pull EXCEPT ![d] = fi]
        <4>1. pull'[d] = fi /\ \A e \in Devices \ {d} : pull'[e] = pull[e]
          BY <1>3, <3>2
        <4>2. PullOwned(d)'
          BY <1>2, <2>3, <4>1 DEF PullOwned, RowNamed
        <4> QED BY <1>2, <4>1, <4>2
      <3> QED BY <2>2, <3>1, <3>2
    <2> QED BY <1>1, <1>2, <2>2, <2>4, FollowOwned
  <1>5. CASE EndPull(d)
    <2>1. /\ pull[d] # NoRow /\ pull' = [pull EXCEPT ![d] = NoRow]
          /\ disk' = disk \/ disk' = [disk EXCEPT ![d][At(pull[d])] = pull[d].file]
      BY <1>5 DEF EndPull, Put
    <2>2. pull[d] \in Rows /\ RowNamed(pull[d])
      BY <1>3, <2>1 DEF Owned, PullOwned
    <2>7. At(pull[d]) \in Places /\ owner[At(pull[d])[2]] = pull[d].file
      BY <2>2 DEF Rows, RowNamed, At, Places
    <2>3. pull'[d] = NoRow /\ \A e \in Devices \ {d} : pull'[e] = pull[e]
      BY <1>3, <2>1
    <2>4. \A e \in Devices : PullOwned(e)'
      <3>1. PullOwned(d)'
        BY <2>3 DEF PullOwned
      <3> QED BY <1>2, <2>3, <3>1
    <2>6. DiskOwned'
      <3>1. CASE disk' = [disk EXCEPT ![d][At(pull[d])] = pull[d].file]
        <4>1. \A e \in Devices : \A x \in Places : disk'[e][x] \in {None, owner[x[2]]}
          BY <1>3, <2>7, <3>1 DEF Owned, DiskOwned
        <4> QED BY <1>2, <4>1 DEF DiskOwned
      <3> QED BY <1>2, <2>1, <3>1
    <2> QED BY <1>1, <1>2, <2>4, <2>6, FollowOwned
  <1> QED BY <1>4, <1>5

LEMMA OwnedStutters == TypeOK /\ Owned /\ UNCHANGED vars => Owned'
  <1> SUFFICES ASSUME TypeOK, Owned, UNCHANGED vars PROVE Owned'
    OBVIOUS
  <1>1. /\ UNCHANGED <<server, user>> /\ UNCHANGED <<server, job, user>> /\ renames' = renames
        /\ disk' = disk /\ rows' = rows /\ queue' = queue /\ sync' = sync /\ pull' = pull
    BY DEF vars, asked, follow
  <1> QED BY <1>1, FollowKept, FollowOwned

LEMMA OwnedStep == Patient /\ TypeOK /\ Owned /\ [Next]_vars => Owned'
  <1> SUFFICES ASSUME Patient, TypeOK, Owned, [Next]_vars PROVE Owned'
    OBVIOUS
  <1>1. ASSUME NEW d \in Devices, User(d) PROVE Owned'
    BY <1>1, UserOwned
  <1>2. ASSUME NEW d \in Devices, Poll(d) PROVE Owned'
    BY <1>2, PollOwned
  <1>3. ASSUME NEW d \in Devices, Sync(d) PROVE Owned'
    BY <1>3, ProcessOwned, RelocateOwned, CheckOwned DEF Sync
  <1>4. ASSUME NEW d \in Devices, NEW p \in Places, PushFile(d, p) PROVE Owned'
    BY <1>4, PushOwned
  <1>5. ASSUME NEW d \in Devices, NEW p \in Places, BeginPull(d, p) PROVE Owned'
    BY <1>5, PullsOwned
  <1>6. ASSUME NEW d \in Devices, EndPull(d) PROVE Owned'
    BY <1>6, PullsOwned
  <1>7. ASSUME NEW d \in Devices, NEW w \in Workers, Rename(d, w) \/ Delete(d, w) PROVE Owned'
    BY <1>7, WorkersOwned
  <1>8. CASE UNCHANGED vars
    BY <1>8, OwnedStutters
  <1> QED BY <1>1, <1>2, <1>3, <1>4, <1>5, <1>6, <1>7, <1>8 DEF Next, Transfers

-----------------------------------------------------------------------------
(***************************************************************************)
(* What the others leave alone                                             *)
(***************************************************************************)
Acts(e) ==
  \/ User(e) \/ Poll(e) \/ Sync(e) \/ Transfers(e)
  \/ \E w \in Workers : Rename(e, w) \/ Delete(e, w)

\* What a post says stays until the devices are told of it.
NewsTold(d) ==
  /\ news[d] \subseteq news'[d]
  /\ \A i \in DOMAIN posts' \ news'[d] : i \in DOMAIN posts /\ posts'[i] = posts[i]

\* No task of the user, and none that could be one.
LEMMA QuietActs ==
    ASSUME NEW d \in Devices, Quiet(d), Acts(d), d \notin Movers
    PROVE  Poll(d) \/ Sync(d) \/ EndPull(d) \/ \E p \in Places : BeginPull(d, p)
  <1>1. ~User(d)
    BY DEF User, CreateFile, MoveFile, RemoveFile
  <1>2. \A p \in Places : ~PushFile(d, p)
    BY DEF PushFile, Quiet
  <1>3. ASSUME NEW w \in Workers PROVE ~Rename(d, w) /\ ~Delete(d, w)
    <2>1. /\ renames[d] = << >> /\ deletes[d] = << >> /\ job[d][w].step = "idle"
          /\ job[d][w].op = "none"
      BY NoJobIs DEF Quiet
    <2>2. ~GetFilePost(d, w, "rename") /\ ~GetFilePost(d, w, "delete")
      BY <2>1 DEF GetFilePost
    <2>3. ~UpdateFileMetaPost(d, w) /\ ~UpdateFilePost(d, w)
      BY <2>1 DEF UpdateFileMetaPost, UpdateFilePost, PutFilePost
    <2>4. ~BeginRename(d, w) /\ ~BeginDelete(d, w) /\ ~LookUp(d, w)
      BY <2>1 DEF BeginRename, BeginDelete, LookUp
    <2>5. ~SetFilepath(d, w) /\ ~SetFilename(d, w) /\ ~SetFileFolderPostId(d, w)
      BY <2>1 DEF SetFilepath, SetFilename, SetFileFolderPostId, Manifest
    <2> QED BY <2>2, <2>3, <2>4, <2>5 DEF Rename, Delete
  <1> QED BY <1>1, <1>2, <1>3 DEF Acts, Transfers

LEMMA ChangedTold ==
    ASSUME NewsTyped, NEW id, Changed(id), NEW d \in Devices,
           DOMAIN posts' = DOMAIN posts \cup {id},
           \A i \in DOMAIN posts : i # id => posts'[i] = posts[i]
    PROVE  NewsTold(d)
  <1>1. news'[d] = news[d] \cup {id}
    BY DEF Changed
  <1> QED BY <1>1 DEF NewsTold

LEMMA SameTold ==
    ASSUME NEW d \in Devices, posts' = posts, news[d] \subseteq news'[d]
    PROVE  NewsTold(d)
  BY DEF NewsTold

LEMMA WorkerElsewhere ==
    ASSUME TypeOK, NEW e \in Devices, NEW w \in Workers, Rename(e, w) \/ Delete(e, w),
           NEW d \in Devices, d # e
    PROVE  /\ UNCHANGED <<disk, pulls, pull, follow>> /\ rows'[d] = rows[d]
           /\ renames'[d] = renames[d] /\ deletes'[d] = deletes[d] /\ pushes'[d] = pushes[d]
           /\ job'[d] = job[d] /\ NewsTold(d)
  <1>1. /\ disk' = disk /\ pulls' = pulls /\ pull' = pull /\ follow' = follow
        /\ \A x \in Devices \ {e} :
             /\ rows'[x] = rows[x] /\ renames'[x] = renames[x] /\ deletes'[x] = deletes[x]
             /\ pushes'[x] = pushes[x]
    <2>1. /\ rows \in [Devices -> Seq(Rows)] /\ renames \in [Devices -> Seq(Moves)]
          /\ deletes \in [Devices -> Seq(Places)] /\ pushes \in [Devices -> SUBSET Places]
      BY TypeIs DEF RowsTyped, AskedTyped
    <2>2. ASSUME NEW op, GetFilePost(e, w, op)
          PROVE  UNCHANGED <<disk, pulls, pull, follow, rows, renames, deletes, pushes>>
      BY <2>2 DEF GetFilePost, asked
    <2>3. ASSUME NEW op, NEW v, NEW n, PutFilePost(e, w, op, v, n)
          PROVE  UNCHANGED <<disk, pulls, pull, follow, rows, renames, deletes, pushes>>
      BY <2>3 DEF PutFilePost, asked
    <2>4. CASE BeginRename(e, w)
      BY <2>1, <2>4 DEF BeginRename
    <2>5. CASE LookUp(e, w)
      BY <2>5 DEF LookUp, asked
    <2>6. CASE SetFilepath(e, w)
      BY <2>1, <2>6 DEF SetFilepath, Manifest, asked
    <2>7. CASE SetFilename(e, w)
      BY <2>1, <2>7 DEF SetFilename, Manifest, asked
    <2>8. CASE SetFileFolderPostId(e, w)
      BY <2>1, <2>8 DEF SetFileFolderPostId
    <2>9. CASE BeginDelete(e, w)
      BY <2>1, <2>9 DEF BeginDelete
    <2> QED BY <2>2, <2>3, <2>4, <2>5, <2>6, <2>7, <2>8, <2>9
            DEF Rename, Delete, UpdateFileMetaPost, UpdateFilePost
  <1>2. job'[d] = job[d]
    <2>1. DOMAIN job = Devices
      BY TypeIs
    <2>2. \A j : Goes(e, w, j) => job'[d] = job[d]
      BY <2>1 DEF Goes
    <2> QED BY <2>2 DEF Rename, Delete, BeginRename, LookUp, GetFilePost, UpdateFileMetaPost,
            UpdateFilePost, PutFilePost, SetFilepath, SetFilename, SetFileFolderPostId, Manifest,
            BeginDelete, End, Step
  <1>3. NewsTold(d)
    <2>1. CASE UNCHANGED <<server, news>>
      BY <2>1, SameTold DEF server
    <2>2. ASSUME NEW op, NEW v, NEW n, PutFilePost(e, w, op, v, n), op \in {"rename", "delete"}
          PROVE  NewsTold(d)
      <3>1. PICK id : id = job[e][w].fi.id
        OBVIOUS
      <3>2. \/ UNCHANGED <<server, news>>
            \/ posts' = [posts EXCEPT ![id] = v] /\ Changed(id)
        BY <2>2, <3>1 DEF PutFilePost
      <3>3. id \in DOMAIN posts
        <4>1. PICK j : j = job[e][w]
          OBVIOUS
        <4>2. JobOK(j) /\ (j.fi # NoRow => j.fi.id \in DOMAIN posts) /\ j.op = op /\ j.step = "put"
          BY <2>2, <4>1, TypeIs DEF JobsLinked, PutFilePost
        <4>3. Renaming(j) \/ Removing(j)
          BY <2>2, <4>2, NoJobIs DEF JobOK
        <4>4. j.fi # NoRow
          BY <4>2, <4>3, NoRowIs DEF Renaming, Removing
        <4> QED BY <3>1, <4>1, <4>2, <4>4
      <3>4. CASE posts' = [posts EXCEPT ![id] = v] /\ Changed(id)
        <4>1. DOMAIN posts' = DOMAIN posts \cup {id} /\ \A i \in DOMAIN posts : i # id => posts'[i] = posts[i]
          BY <3>3, <3>4
        <4> QED BY <3>4, <4>1, ChangedTold, TypeIs
      <3> QED BY <2>1, <3>2, <3>4
    <2>3. \A op : GetFilePost(e, w, op) => UNCHANGED <<server, news>>
      BY DEF GetFilePost
    <2>4. /\ BeginRename(e, w) => UNCHANGED <<server, news>>
          /\ LookUp(e, w) => UNCHANGED <<server, news>>
          /\ BeginDelete(e, w) => UNCHANGED <<server, news>>
          /\ SetFileFolderPostId(e, w) => UNCHANGED <<server, news>>
      BY DEF BeginRename, LookUp, BeginDelete, SetFileFolderPostId
    <2>5. /\ SetFilepath(e, w) => UNCHANGED <<server, news>>
          /\ SetFilename(e, w) => UNCHANGED <<server, news>>
      BY DEF SetFilepath, SetFilename, Manifest
    <2> QED BY <2>1, <2>2, <2>3, <2>4, <2>5 DEF Rename, Delete, UpdateFileMetaPost, UpdateFilePost
  <1> QED BY <1>1, <1>2, <1>3

\* A step of one device leaves another one, which is told of the posts it changes.
LEMMA Elsewhere ==
    ASSUME TypeOK, Owned, NEW e \in Devices, Acts(e), NEW d \in Devices, d # e
    PROVE  /\ disk'[d] = disk[d] /\ rows'[d] = rows[d] /\ renames'[d] = renames[d]
           /\ deletes'[d] = deletes[d] /\ pushes'[d] = pushes[d] /\ pulls'[d] = pulls[d]
           /\ job'[d] = job[d] /\ pull'[d] = pull[d] /\ queue'[d] = queue[d] /\ sync'[d] = sync[d]
           /\ NewsTold(d)
  <1>1. /\ disk \in [Devices -> [Places -> Files \cup {None}]] /\ rows \in [Devices -> Seq(Rows)]
        /\ renames \in [Devices -> Seq(Moves)]
        /\ deletes \in [Devices -> Seq(Places)] /\ pushes \in [Devices -> SUBSET Places]
        /\ pulls \in [Devices -> SUBSET Places] /\ pull \in [Devices -> Rows \cup {NoRow}]
        /\ news \in [Devices -> SUBSET DOMAIN posts] /\ sync \in [Devices -> Waits \cup {NoSync}]
        /\ queue \in [Devices -> Seq([id : Ids, post : PostType])]
    BY TypeIs DEF DiskTyped, RowsTyped, AskedTyped, PullsTyped, NewsTyped, FollowTyped
  <1> DEFINE Same ==
        /\ disk'[d] = disk[d] /\ rows'[d] = rows[d] /\ renames'[d] = renames[d]
        /\ deletes'[d] = deletes[d] /\ pushes'[d] = pushes[d] /\ pulls'[d] = pulls[d]
        /\ job'[d] = job[d] /\ pull'[d] = pull[d] /\ queue'[d] = queue[d] /\ sync'[d] = sync[d]
        /\ NewsTold(d)
  <1>2. ASSUME User(e) PROVE Same
    <2>1. PICK k \in Files : RemoveFile(e, k) \/ \E p \in Places : CreateFile(e, k, p) \/ MoveFile(e, k, p)
      BY <1>2 DEF User
    <2>2. UNCHANGED <<rows, server, news, pulls, job, pull, follow>>
      BY <2>1 DEF RemoveFile, CreateFile, MoveFile
    <2>3. disk'[d] = disk[d] /\ renames'[d] = renames[d] /\ deletes'[d] = deletes[d] /\ pushes'[d] = pushes[d]
      BY <1>1, <2>1 DEF RemoveFile, CreateFile, MoveFile, Put
    <2> QED BY <2>2, <2>3, SameTold DEF server, follow
  <1>3. ASSUME Poll(e) PROVE Same
    <2>1. UNCHANGED <<rows, server, asked, pulls, job, pull>> /\ sync' = sync
      BY <1>3 DEF Poll, PollDeletedFilePosts, PollFilePosts, follow
    <2>2. disk'[d] = disk[d] /\ news'[d] = news[d] /\ queue'[d] = queue[d]
      <3>1. CASE PollDeletedFilePosts(e)
        BY <1>1, <3>1 DEF PollDeletedFilePosts, follow
      <3>2. CASE PollFilePosts(e)
        BY <1>1, <3>2 DEF PollFilePosts
      <3> QED BY <1>3, <3>1, <3>2 DEF Poll
    <2> QED BY <2>1, <2>2, SameTold DEF server, asked
  <1>4. ASSUME Sync(e) PROVE Same
    <2>1. CASE ProcessFilePost(e)
      <3>1. UNCHANGED <<disk, server, news, asked, job, pull>>
        BY <2>1 DEF ProcessFilePost
      <3>2. rows'[d] = rows[d] /\ pulls'[d] = pulls[d] /\ queue'[d] = queue[d] /\ sync'[d] = sync[d]
        BY <1>1, <2>1 DEF ProcessFilePost
      <3> QED BY <3>1, <3>2, SameTold DEF server, asked
    <2>2. CASE RenameFileLocalCache(e) \/ UpdateFilepath(e)
      <3>1. UNCHANGED <<server, news, asked, pulls, job, pull, queue>>
        BY <2>2 DEF RenameFileLocalCache, UpdateFilepath
      <3>2. rows'[d] = rows[d] /\ disk'[d] = disk[d] /\ sync'[d] = sync[d]
        BY <1>1, <2>2 DEF RenameFileLocalCache, UpdateFilepath
      <3> QED BY <3>1, <3>2, SameTold DEF server, asked
    <2>3. CASE CheckFile(e)
      <3>1. UNCHANGED <<disk, server, news, asked, job, pull, queue>>
        BY <2>3 DEF CheckFile
      <3>2. rows'[d] = rows[d] /\ pulls'[d] = pulls[d] /\ sync'[d] = sync[d]
        BY <1>1, <2>3 DEF CheckFile
      <3> QED BY <3>1, <3>2, SameTold DEF server, asked
    <2> QED BY <1>4, <2>1, <2>2, <2>3 DEF Sync
  <1>5. ASSUME NEW p \in Places, PushFile(e, p) PROVE Same
    <2>1. UNCHANGED <<disk, renames, deletes, pulls, job, pull, follow>> /\ pushes'[d] = pushes[d]
      BY <1>1, <1>5 DEF PushFile
    <2>2. rows'[d] = rows[d] /\ NewsTold(d)
      <3>1. CASE UNCHANGED <<rows, server, news>>
        BY <3>1, SameTold DEF server
      <3>2. ASSUME NEW k, NEW m, NEW r, Posted(e, p, k, m, r)
            PROVE  rows'[d] = rows[d] /\ NewsTold(d)
        <4>1. rows' = [rows EXCEPT ![e] = InsertFileInfo(@, r)] /\ Changed(m)
              /\ DOMAIN posts' = DOMAIN posts \cup {m} /\ \A i \in DOMAIN posts : posts'[i] = posts[i]
          BY <3>2 DEF Posted
        <4> QED BY <1>1, <4>1, ChangedTold, TypeIs
      <3> QED BY <1>5, <3>1, <3>2, PushIs
    <2> QED BY <2>1, <2>2 DEF follow
  <1>6. ASSUME NEW p \in Places, BeginPull(e, p) PROVE Same
    <2>1. UNCHANGED <<disk, rows, server, news, asked, job, follow>>
      BY <1>6 DEF BeginPull
    <2>2. pulls'[d] = pulls[d] /\ pull'[d] = pull[d]
      BY <1>1, <1>6 DEF BeginPull
    <2> QED BY <2>1, <2>2, SameTold DEF server, asked, follow
  <1>7. ASSUME EndPull(e) PROVE Same
    <2>1. UNCHANGED <<rows, server, news, asked, pulls, job, follow>>
      BY <1>7 DEF EndPull
    <2>2. disk'[d] = disk[d] /\ pull'[d] = pull[d]
      BY <1>1, <1>7 DEF EndPull, Put
    <2> QED BY <2>1, <2>2, SameTold DEF server, asked, follow
  <1>8. ASSUME NEW w \in Workers, Rename(e, w) \/ Delete(e, w) PROVE Same
    BY <1>8, WorkerElsewhere DEF follow
  <1> HIDE DEF Same
  <1>9. Same
    BY <1>2, <1>3, <1>4, <1>5, <1>6, <1>7, <1>8 DEF Acts, Transfers
  <1> QED BY <1>9 DEF Same

\* A post, its place and its file.
LEMMA PostHas ==
    ASSUME TypeOK, Owned, NEW i \in DOMAIN posts, NEW x, x = posts[i]
    PROVE  /\ x \in PostType /\ PostOwned(x) /\ x.path = At(x) /\ At(x) \in Places /\ i \in Ids /\ i # 0
           /\ At(x)[2] = x.name /\ owner[At(x)[2]] = x.file /\ x.file \in Files /\ x.file # None
  <1>1. posts \in Seq(PostType) /\ Len(posts) <= MaxPosts /\ MaxPosts \in Nat
    BY TypeIs, FileNamesAssumption DEF ServerTyped
  <1>2. x \in PostType /\ i \in Ids /\ i # 0
    BY <1>1 DEF Ids
  <1>3. PostOwned(x)
    BY DEF Owned, PostsOwned
  <1>4. At(x) \in Places /\ At(x)[2] = x.name
    BY <1>2 DEF PostType, At, Places
  <1> QED BY <1>2, <1>3, <1>4, FilesAre DEF PostOwned, PostType

LEMMA QuietStays ==
    ASSUME TypeOK, Owned, NEW e \in Devices, Acts(e), NEW d \in Devices \ Movers, Quiet(d)
    PROVE  Quiet(d)'
  <1>1. CASE d # e
    <2>1. /\ renames'[d] = renames[d] /\ deletes'[d] = deletes[d] /\ pushes'[d] = pushes[d]
          /\ job'[d] = job[d]
      BY <1>1, Elsewhere
    <2> QED BY <2>1 DEF Quiet
  <1>2. CASE d = e
    <2>1. Poll(d) \/ Sync(d) \/ EndPull(d) \/ \E p \in Places : BeginPull(d, p)
      BY <1>2, QuietActs
    <2>2. /\ renames' = renames /\ deletes' = deletes /\ pushes' = pushes /\ job' = job
      BY <2>1 DEF Poll, PollDeletedFilePosts, PollFilePosts, Sync, ProcessFilePost,
         RenameFileLocalCache, UpdateFilepath, CheckFile, EndPull, BeginPull, asked
    <2> QED BY <2>2 DEF Quiet
  <1> QED BY <1>1, <1>2

LEMMA NextActs == [Next]_vars => UNCHANGED vars \/ \E e \in Devices : Acts(e)
  BY DEF Next, Acts

LEMMA WorkersFiles ==
    ASSUME TypeOK, Owned, NEW d \in Devices, NEW w \in Workers, Rename(d, w) \/ Delete(d, w)
    PROVE  FilesStay
  <1>1. CASE UpdateFileMetaPost(d, w) \/ UpdateFilePost(d, w)
    BY <1>1, WorkersPutOwned
  <1>2. CASE posts' = posts
    BY <1>2, StillFiles
  <1>3. \/ UpdateFileMetaPost(d, w) \/ UpdateFilePost(d, w)
        \/ posts' = posts
    BY DEF Rename, Delete, BeginRename, LookUp, GetFilePost, SetFilepath, SetFilename,
       SetFileFolderPostId, Manifest, BeginDelete, server
  <1> QED BY <1>1, <1>2, <1>3

\* A post keeps its file.
LEMMA FilesAlways ==
    ASSUME TypeOK, Owned, NEW e \in Devices, Acts(e)
    PROVE  FilesStay
  <1>1. CASE posts' = posts
    BY <1>1, StillFiles
  <1>2. ASSUME User(e) \/ Poll(e) \/ Sync(e) \/ EndPull(e) \/ \E p \in Places : BeginPull(e, p)
        PROVE  posts' = posts
    BY <1>2 DEF User, RemoveFile, CreateFile, MoveFile, Poll, PollDeletedFilePosts, PollFilePosts, Sync,
       ProcessFilePost, RenameFileLocalCache, UpdateFilepath, CheckFile, EndPull, BeginPull, server
  <1>3. ASSUME NEW p \in Places, PushFile(e, p) PROVE FilesStay
    <2>1. ASSUME NEW k, NEW m, NEW r, Posted(e, p, k, m, r) PROVE FilesStay
      BY <2>1 DEF Posted, FilesStay
    <2>2. UNCHANGED <<rows, server, news>> => posts' = posts
      BY DEF server
    <2> QED BY <1>1, <1>3, <2>1, <2>2, PushIs
  <1>4. ASSUME NEW w \in Workers, Rename(e, w) \/ Delete(e, w) PROVE FilesStay
    BY <1>4, WorkersFiles
  <1> QED BY <1>1, <1>2, <1>3, <1>4 DEF Acts, Transfers

\* The invariant holds at first, ...
LEMMA InitNames == Init /\ Patient => NamesInv
  <1> SUFFICES ASSUME Init, Patient PROVE NamesInv
    OBVIOUS
  <1> DEFINE K == DOMAIN Known
  <1> DEFINE row(k) == Row(Known[k], k, k)
  <1>1. /\ disk = [d \in Devices |-> [p \in Places |->
                     IF \E k \in K : Known[k] = p THEN CHOOSE k \in K : Known[k] = p ELSE None]]
        /\ rows = [d \in Devices |-> [k \in K |-> row(k)]]
        /\ posts = [k \in K |-> Post(row(k), FALSE)]
        /\ news = [d \in Devices |-> {}] /\ queue = [d \in Devices |-> << >>]
        /\ renames = [d \in Devices |-> << >>] /\ deletes = [d \in Devices |-> << >>]
        /\ pushes = [d \in Devices |-> {}] /\ pulls = [d \in Devices |-> {}]
        /\ job = [d \in Devices |-> [w \in Workers |-> NoJob]]
        /\ pull = [d \in Devices |-> NoRow] /\ sync = [d \in Devices |-> NoSync]
        /\ home = [k \in Files |-> IF k \in K THEN Known[k] ELSE Nowhere]
        /\ owner = [n \in Names |-> IF \E k \in K : Known[k][2] = n
                                   THEN CHOOSE k \in K : Known[k][2] = n ELSE None]
    BY DEF Init
  <1>2. K \subseteq Files /\ Known \in [K -> Places]
    BY FileNamesAssumption DEF Places
  <1>3. PICK c \in Nat : K = 1 .. c /\ c <= MaxPosts
    <2>1. IsFiniteSet(K)
      BY FileNamesAssumption, FS_Subset
    <2>2. Cardinality(K) \in Nat
      BY <2>1, FS_CardinalityType
    <2> QED BY <2>2, FileNamesAssumption
  <1>13. MaxPosts \in Nat
    BY FileNamesAssumption
  <1>4. \A j, k \in K : Known[j][2] = Known[k][2] => j = k
    BY FileNamesAssumption
  <1> HIDE DEF K
  <1>5. ASSUME NEW k \in K
        PROVE  /\ k \in Ids /\ row(k) \in Rows /\ row(k).id = k /\ row(k).file = k
               /\ row(k).name = Known[k][2] /\ row(k).folder = Known[k][1] /\ row(k).path = Known[k]
               /\ ~row(k).deleted
    <2>1. k \in Ids /\ k \in Files /\ Known[k] \in Places
      BY <1>2, <1>3, <1>13 DEF Ids
    <2>2. row(k) = Row(Known[k], k, k)
      OBVIOUS
    <2> HIDE DEF row
    <2> QED BY <2>1, <2>2, RowIs
  <1> HIDE DEF row
  <1>6. ASSUME NEW k \in K
        PROVE  /\ owner[Known[k][2]] = k /\ Known[k] \in Places /\ k \in Files
               /\ \A d \in Devices : disk[d][Known[k]] = k
    <2>1. Known[k] \in Places /\ Known[k][2] \in Names /\ k \in Files
      BY <1>2, PlaceIs
    <2>2. (CHOOSE j \in K : Known[j][2] = Known[k][2]) = k
      BY <1>4
    <2>3. (CHOOSE j \in K : Known[j] = Known[k]) = k
      BY <1>4
    <2> QED BY <1>1, <2>1, <2>2, <2>3
  <1>7. ASSUME NEW k \in K
        PROVE  /\ posts[k].name = Known[k][2] /\ posts[k].path = Known[k] /\ posts[k].file = k
               /\ At(posts[k]) = Known[k] /\ PostOwned(posts[k])
    <2>4. PICK r : r = row(k)
      OBVIOUS
    <2>1. posts[k] = Post(r, FALSE)
      BY <1>1, <2>4
    <2>5. /\ r \in Rows /\ r.file = k /\ r.name = Known[k][2] /\ r.folder = Known[k][1]
          /\ r.path = Known[k]
      BY <1>5, <2>4
    <2>6. /\ Post(r, FALSE).file = r.file /\ Post(r, FALSE).name = r.name
          /\ Post(r, FALSE).path = r.path /\ Post(r, FALSE).folder = r.folder
      BY <2>5, PostIs
    <2>2. /\ posts[k].name = Known[k][2] /\ posts[k].path = Known[k] /\ posts[k].file = k
          /\ posts[k].folder = Known[k][1]
      BY <2>1, <2>5, <2>6
    <2>3. Known[k] = <<Known[k][1], Known[k][2]>>
      BY <1>6, PlaceIs
    <2> QED BY <1>6, <2>2, <2>3 DEF At, PostOwned
  <1>8. DOMAIN posts = K /\ \A d \in Devices : DOMAIN rows[d] = K /\ \A k \in K : rows[d][k] = row(k)
    BY <1>1
  <1>9. Owned
    <2>1. DiskOwned
      <3>1. ASSUME NEW d \in Devices, NEW p \in Places, disk[d][p] # None
            PROVE  disk[d][p] = owner[p[2]]
        <4>1. PICK k \in K : Known[k] = p
          BY <1>1, <3>1
        <4> QED BY <1>6, <4>1
      <3> QED BY <3>1 DEF DiskOwned
    <2>2. HomeOwned
      BY <1>1, <1>6 DEF HomeOwned
    <2>3. PostsOwned
      BY <1>7, <1>8 DEF PostsOwned
    <2>4. MovesOwned
      BY <1>1 DEF MovesOwned
    <2>5. ASSUME NEW d \in Devices PROVE RowsOwned(d)
      <3>1. \A k \in K : RowOwned(row(k))
        BY <1>5, <1>6, <1>7 DEF RowOwned, RowNamed
      <3> QED BY <1>8, <3>1 DEF RowsOwned
    <2>6. ASSUME NEW d \in Devices PROVE JobsOwned(d) /\ QueueOwned(d) /\ SyncOwned(d) /\ PullOwned(d)
      BY <1>1, NoJobOwned DEF JobsOwned, QueueOwned, SyncOwned, PullOwned
    <2> QED BY <2>1, <2>2, <2>3, <2>4, <2>5, <2>6 DEF Owned
  <1>10. \A d \in Devices : Quiet(d)
    BY <1>1 DEF Quiet
  <1> QED BY <1>9, <1>10 DEF NamesInv

\* ... every step keeps it.
LEMMA NamesStep == Patient /\ TypeOK /\ NamesInv /\ [Next]_vars => NamesInv'
  <1> SUFFICES ASSUME Patient, TypeOK, NamesInv, [Next]_vars PROVE NamesInv'
    OBVIOUS
  <1>1. Owned /\ Owned'
    BY OwnedStep DEF NamesInv
  <1>2. CASE UNCHANGED vars
    <2>1. ASSUME NEW d \in Devices \ Movers PROVE Quiet(d)'
      BY <1>2 DEF NamesInv, Quiet, vars, asked
    <2> QED BY <1>1, <2>1 DEF NamesInv
  <1>3. ASSUME NEW e \in Devices, Acts(e) PROVE NamesInv'
    <2>1. ASSUME NEW d \in Devices \ Movers PROVE Quiet(d)'
      BY <1>1, <1>3, QuietStays DEF NamesInv
    <2> QED BY <1>1, <2>1 DEF NamesInv
  <1> QED BY <1>2, <1>3, NextActs

\* A patient user gives a name to one file, and no device ever gives it to another: every
\* file, row, post and task that has the name is of that file, whatever is late, fails or
\* is done twice (FileSync::ProcessFilePost, PullTask, PushTask, RenameTask).
THEOREM NamesKept == Spec => [](Patient => Owned)
  <1>1. CASE Patient
    <2>1. Init => NamesInv /\ TypeOK
      BY <1>1, InitTyped, InitNames
    <2>2. TypeOK /\ NamesInv /\ [Next]_vars => TypeOK' /\ NamesInv'
      BY <1>1, TypeStep, NamesStep
    <2>3. NamesInv => (Patient => Owned)
      BY DEF NamesInv
    <2> QED BY <2>1, <2>2, <2>3, PTL DEF Spec
  <1>2. CASE ~Patient
    <2>1. Patient => Owned
      BY <1>2
    <2> QED BY <2>1, PTL DEF Spec
  <1> QED BY <1>1, <1>2

-----------------------------------------------------------------------------
(***************************************************************************)
(* The device on which files are moved                                     *)
(***************************************************************************)
\* What it has of a file: the changes it was asked for and those at work, the pushes
\* that wait, the rows and the posts.
Of(p) == owner[p[2]]
Asks(d, k) == {m \in Moves : Of(m.old) = k /\ \E i \in DOMAIN renames[d] : renames[d][i] = m}
Dels(d, k) == {p \in Places : Of(p) = k /\ \E i \in DOMAIN deletes[d] : deletes[d][i] = p}
Jobs(d, k) == {w \in Workers : job[d][w] # NoJob /\ Of(job[d][w].old) = k}
Pushes(d, k) == {p \in pushes[d] : Of(p) = k}
RowsOf(d, k) == {r \in Rows : r.file = k /\ Holds(rows[d], r)}
PostsOf(k) == {i \in DOMAIN posts : posts[i].file = k}

RowsPath(d, k, p) == \A r \in RowsOf(d, k) : r.path = p
RowsName(d, k, p) == \A r \in RowsOf(d, k) : r.name = p[2]
RowsFolder(d, k, p) == \A r \in RowsOf(d, k) : r.folder = p[1]
RowsAt(d, k, p) == RowsPath(d, k, p) /\ RowsName(d, k, p) /\ RowsFolder(d, k, p)
PostsAt(k, p) == \A i \in PostsOf(k) : ~posts[i].deleted /\ At(posts[i]) = p
In(d, k, p) == RowsAt(d, k, p) /\ PostsAt(k, p)

\* How far a task has come: the post first, then path, name and folder of the row.
WorksOn(d, k, j) ==
  \/ j.op = "delete" /\ home[k] = Nowhere
  \/ /\ j.op = "rename" /\ home[k] = j.new
     /\ j.step \in {"look", "get", "put"} => In(d, k, j.old)
     /\ j.step = "put" => ~j.got.deleted
     /\ j.step \in {"path", "name", "folder"} => PostsAt(k, j.new)
     /\ j.step \in {"name", "folder"} => RowsPath(d, k, j.new)
     /\ j.step = "folder" => RowsName(d, k, j.new)

Idle(d, k) == Asks(d, k) = {} /\ Dels(d, k) = {} /\ Jobs(d, k) = {}

\* A file has one task at most, and between tasks row and post are where it is.
Told(d, k) ==
  /\ \A v, w \in Jobs(d, k) : v = w
  /\ Asks(d, k) # {} => Dels(d, k) = {} /\ Jobs(d, k) = {} /\ Pushes(d, k) = {}
  /\ Dels(d, k) # {} => Jobs(d, k) = {} /\ Pushes(d, k) = {}
  /\ Jobs(d, k) # {} => Pushes(d, k) = {}
  /\ ~Idle(d, k) => PostsOf(k) # {}
  /\ \A m \in Asks(d, k) : home[k] = m.new /\ In(d, k, m.old)
  /\ \A p \in Dels(d, k) : home[k] = Nowhere /\ RowsPath(d, k, p)
  /\ \A w \in Jobs(d, k) : WorksOn(d, k, job[d][w])
  /\ \A p \in Pushes(d, k) : home[k] = p
  /\ Idle(d, k) =>
       IF home[k] = Nowhere THEN \A i \in PostsOf(k) : posts[i].deleted
       ELSE In(d, k, home[k]) /\ (Pushes(d, k) = {} => PostsOf(k) # {})

\* A post has one row, a file one post, and a request that waits is not doubled.
Unique(d) ==
  /\ Alike(rows[d])
  /\ \A i \in DOMAIN posts : \E n \in DOMAIN rows[d] : rows[d][n].id = i
  /\ \A i, j \in DOMAIN posts : posts[i].file = posts[j].file => i = j
  /\ \A i, j \in DOMAIN renames[d] : Of(renames[d][i].old) = Of(renames[d][j].old) => i = j
  /\ \A i, j \in DOMAIN deletes[d] : Of(deletes[d][i]) = Of(deletes[d][j]) => i = j

\* Whatever waits is of a file.
Filed(d) ==
  /\ \A i \in DOMAIN deletes[d] : Of(deletes[d][i]) \in Files
  /\ \A p \in pushes[d] : Of(p) \in Files
  /\ \A w \in Workers : job[d][w] # NoJob => Of(job[d][w].old) \in Files
  /\ \A w \in Workers : job[d][w].op = "delete" => job[d][w].fi.file = Of(job[d][w].old)
  /\ \A k \in Files : home[k] # Nowhere => disk[d][home[k]] = k

\* The device does not follow, and so no one else touches its files.
Deaf(d) == queue[d] = << >> /\ sync[d] = NoSync /\ pulls[d] = {} /\ pull[d] = NoRow

SentInv ==
  \A d \in Movers : Movers = {d} /\ d \notin Followers =>
    /\ Deaf(d)
    /\ failures = 0 => Unique(d) /\ Filed(d) /\ \A k \in Files : Told(d, k)

\* What a step leaves as it is of a file.
SameTasks(d, k) ==
  /\ Asks(d, k)' = Asks(d, k) /\ Dels(d, k)' = Dels(d, k) /\ Pushes(d, k)' = Pushes(d, k)
  /\ Jobs(d, k)' = Jobs(d, k) /\ \A w \in Jobs(d, k) : job'[d][w] = job[d][w]
SameRecords(d, k) ==
  /\ RowsOf(d, k)' = RowsOf(d, k)
  /\ PostsOf(k)' = PostsOf(k) /\ \A i \in PostsOf(k) : posts'[i] = posts[i]
Same(d, k) == SameTasks(d, k) /\ SameRecords(d, k) /\ home'[k] = home[k]

LEMMA SameIn ==
    ASSUME NEW d, NEW k, SameRecords(d, k)
    PROVE  /\ \A p : RowsPath(d, k, p) => RowsPath(d, k, p)'
           /\ \A p : RowsName(d, k, p) => RowsName(d, k, p)'
           /\ \A p : PostsAt(k, p) => PostsAt(k, p)'
           /\ \A p : In(d, k, p) => In(d, k, p)'
  <1>1. RowsOf(d, k)' = RowsOf(d, k)
    BY DEF SameRecords
  <1>2. PostsOf(k)' = PostsOf(k) /\ \A i \in PostsOf(k) : posts'[i] = posts[i]
    BY DEF SameRecords
  <1>3. ASSUME NEW p PROVE RowsPath(d, k, p) => RowsPath(d, k, p)'
    BY <1>1 DEF RowsPath
  <1>4. ASSUME NEW p PROVE RowsName(d, k, p) => RowsName(d, k, p)'
    BY <1>1 DEF RowsName
  <1>5. ASSUME NEW p PROVE RowsFolder(d, k, p) => RowsFolder(d, k, p)'
    BY <1>1 DEF RowsFolder
  <1>6. ASSUME NEW p PROVE PostsAt(k, p) => PostsAt(k, p)'
    BY <1>2 DEF PostsAt, At
  <1>7. ASSUME NEW p PROVE In(d, k, p) => In(d, k, p)'
    BY <1>3, <1>4, <1>5, <1>6 DEF In, RowsAt
  <1> QED BY <1>3, <1>4, <1>6, <1>7

LEMMA ToldSame ==
    ASSUME NEW d, NEW k, Told(d, k), Same(d, k)
    PROVE  Told(d, k)'
  <1>1. /\ Asks(d, k)' = Asks(d, k) /\ Dels(d, k)' = Dels(d, k) /\ Pushes(d, k)' = Pushes(d, k)
        /\ Jobs(d, k)' = Jobs(d, k) /\ home'[k] = home[k]
        /\ PostsOf(k)' = PostsOf(k) /\ Idle(d, k)' = Idle(d, k)
    BY DEF Same, SameTasks, SameRecords, Idle
  <1>2. /\ \A w \in Jobs(d, k) : job'[d][w] = job[d][w]
        /\ \A i \in PostsOf(k) : posts'[i] = posts[i]
    BY DEF Same, SameTasks, SameRecords
  <1>3. /\ \A p : RowsPath(d, k, p) => RowsPath(d, k, p)'
        /\ \A p : RowsName(d, k, p) => RowsName(d, k, p)'
        /\ \A p : PostsAt(k, p) => PostsAt(k, p)'
        /\ \A p : In(d, k, p) => In(d, k, p)'
    BY SameIn DEF Same
  <1>4. \A v, w \in Jobs(d, k)' : v = w
    BY <1>1 DEF Told
  <1>5. /\ Asks(d, k)' # {} => Dels(d, k)' = {} /\ Jobs(d, k)' = {} /\ Pushes(d, k)' = {}
        /\ Dels(d, k)' # {} => Jobs(d, k)' = {} /\ Pushes(d, k)' = {}
        /\ Jobs(d, k)' # {} => Pushes(d, k)' = {}
        /\ ~Idle(d, k)' => PostsOf(k)' # {}
    BY <1>1 DEF Told
  <1>6. \A m \in Asks(d, k)' : home'[k] = m.new /\ In(d, k, m.old)'
    BY <1>1, <1>3 DEF Told
  <1>7. \A p \in Dels(d, k)' : home'[k] = Nowhere /\ RowsPath(d, k, p)'
    BY <1>1, <1>3 DEF Told
  <1>8. ASSUME NEW w \in Jobs(d, k)' PROVE WorksOn(d, k, job[d][w])'
    <2>1. w \in Jobs(d, k) /\ WorksOn(d, k, job[d][w]) /\ job'[d][w] = job[d][w]
      BY <1>1, <1>2, <1>8 DEF Told
    <2> QED BY <1>1, <1>3, <2>1 DEF WorksOn
  <1>9. \A p \in Pushes(d, k)' : home'[k] = p
    BY <1>1 DEF Told
  <1>10. Idle(d, k)' =>
           IF home'[k] = Nowhere THEN \A i \in PostsOf(k)' : posts'[i].deleted
           ELSE In(d, k, home[k])' /\ (Pushes(d, k)' = {} => PostsOf(k)' # {})
    BY <1>1, <1>2, <1>3 DEF Told
  <1> QED BY <1>4, <1>5, <1>6, <1>7, <1>8, <1>9, <1>10 DEF Told

\* The rows and posts of the device, and who they are of.
LEMMA RecordsAre ==
    ASSUME TypeOK, Owned, NEW d \in Devices
    PROVE  /\ rows[d] \in Seq(Rows) /\ Keyed(rows[d])
           /\ \A r : Holds(rows[d], r) =>
                /\ r \in Rows /\ r.id \in DOMAIN posts /\ posts[r.id].file = r.file /\ r.file \in Files
                /\ Of(r.path) = r.file /\ owner[r.name] = r.file
           /\ \A i \in DOMAIN posts :
                /\ posts[i] \in PostType /\ posts[i].file \in Files /\ posts[i].path = At(posts[i])
  <1>1. /\ rows[d] \in Seq(Rows) /\ Keyed(rows[d])
        /\ \A r : Holds(rows[d], r) => r \in Rows /\ r.id \in DOMAIN posts /\ RowOwned(r)
    BY RowsAreOwned
  <1>2. \A r \in Rows : r.file \in Files
    BY DEF Rows
  <1>3. ASSUME NEW i \in DOMAIN posts
        PROVE  posts[i] \in PostType /\ posts[i].file \in Files /\ posts[i].path = At(posts[i])
    <2>1. PICK x : x = posts[i]
      OBVIOUS
    <2> QED BY <2>1, PostHas
  <1> QED BY <1>1, <1>2, <1>3 DEF RowOwned, RowNamed, Of

\* With one post for a file, its rows are the rows of that post.
LEMMA OnePost ==
    ASSUME TypeOK, Owned, NEW d \in Devices, Unique(d), NEW k \in Files
    PROVE  /\ \A r \in RowsOf(d, k) : r.id \in PostsOf(k)
           /\ \A i \in PostsOf(k) : \E r \in RowsOf(d, k) : r.id = i
           /\ \A i, j \in PostsOf(k) : i = j
           /\ \A r, s \in RowsOf(d, k) : r = s
           /\ \A i \in PostsOf(k) : \A r : Holds(rows[d], r) => (r.id = i <=> r \in RowsOf(d, k))
  <1>1. \A r : Holds(rows[d], r) =>
          r \in Rows /\ r.id \in DOMAIN posts /\ posts[r.id].file = r.file
    BY RecordsAre
  <1>2. \A r \in RowsOf(d, k) : r.id \in PostsOf(k)
    BY <1>1 DEF RowsOf, PostsOf
  <1>3. \A i, j \in PostsOf(k) : i = j
    BY DEF Unique, PostsOf
  <1>4. ASSUME NEW i \in PostsOf(k) PROVE \E r \in RowsOf(d, k) : r.id = i
    <2>1. i \in DOMAIN posts /\ posts[i].file = k
      BY DEF PostsOf
    <2>2. PICK n \in DOMAIN rows[d] : rows[d][n].id = i
      BY <2>1 DEF Unique
    <2>3. PICK r : r = rows[d][n]
      OBVIOUS
    <2>4. Holds(rows[d], r) /\ r.id = i
      BY <2>2, <2>3 DEF Holds
    <2>5. r \in RowsOf(d, k)
      BY <1>1, <2>1, <2>4 DEF RowsOf
    <2> QED BY <2>4, <2>5
  <1>5. ASSUME NEW r \in RowsOf(d, k), NEW s \in RowsOf(d, k) PROVE r = s
    <2>1. r.id = s.id
      BY <1>2, <1>3
    <2>2. PICK n \in DOMAIN rows[d] : rows[d][n] = r
      BY DEF RowsOf, Holds
    <2>3. PICK m \in DOMAIN rows[d] : rows[d][m] = s
      BY DEF RowsOf, Holds
    <2>4. n = m
      BY <2>1, <2>2, <2>3 DEF Unique, Alike
    <2> QED BY <2>2, <2>3, <2>4
  <1>6. ASSUME NEW i \in PostsOf(k), NEW r, Holds(rows[d], r) PROVE r.id = i <=> r \in RowsOf(d, k)
    <2>1. posts[i].file = k
      BY DEF PostsOf
    <2>2. r.id = i => r \in RowsOf(d, k)
      BY <1>1, <1>6, <2>1 DEF RowsOf
    <2>3. r \in RowsOf(d, k) => r.id = i
      BY <1>2, <1>3
    <2> QED BY <2>2, <2>3
  <1> QED BY <1>2, <1>3, <1>4, <1>5, <1>6

\* A file whose place has no task has been told of.
LEMMA RestIs ==
    ASSUME TypeOK, Owned, NEW d \in Devices, NEW k \in Files, Told(d, k), Filed(d),
           home[k] # Nowhere, ~Busy(d, home[k])
    PROVE  /\ Idle(d, k) /\ Pushes(d, k) = {} /\ PostsOf(k) # {} /\ In(d, k, home[k])
  <1>1. home[k] \in Places
    BY TypeIs DEF UserTyped
  <1>2. Asks(d, k) = {}
    <2> SUFFICES ASSUME NEW m \in Asks(d, k) PROVE FALSE
      OBVIOUS
    <2>1. PICK i \in DOMAIN renames[d] : renames[d][i] = m
      BY DEF Asks
    <2>2. home[k] = m.new
      BY DEF Told
    <2> QED BY <2>1, <2>2 DEF Busy
  <1>3. Dels(d, k) = {}
    BY DEF Told
  <1>4. Jobs(d, k) = {}
    <2> SUFFICES ASSUME NEW w \in Jobs(d, k) PROVE FALSE
      OBVIOUS
    <2>1. WorksOn(d, k, job[d][w]) /\ w \in Workers
      BY DEF Told, Jobs
    <2>2. home[k] = job[d][w].new
      BY <2>1 DEF WorksOn
    <2> QED BY <2>1, <2>2 DEF Busy
  <1>5. Pushes(d, k) = {}
    <2> SUFFICES ASSUME NEW p \in Pushes(d, k) PROVE FALSE
      OBVIOUS
    <2>1. home[k] = p /\ p \in pushes[d]
      BY DEF Told, Pushes
    <2> QED BY <2>1 DEF Busy
  <1>6. Idle(d, k)
    BY <1>2, <1>3, <1>4 DEF Idle
  <1> QED BY <1>5, <1>6 DEF Told

Neat(d) == Unique(d) /\ Filed(d) /\ \A k \in Files : Told(d, k)

\* A worker with a task, and the file it is about.
AtWork(d, w, j, k) ==
  /\ j = job[d][w] /\ j # NoJob /\ k = Of(j.old) /\ k \in Files /\ (Renaming(j) \/ Removing(j))
  /\ Jobs(d, k) = {w} /\ Asks(d, k) = {} /\ Dels(d, k) = {} /\ Pushes(d, k) = {} /\ PostsOf(k) # {}
  /\ WorksOn(d, k, j)
  /\ j.fi # NoRow => j.fi \in Rows /\ j.fi.file = k /\ j.fi.id \in PostsOf(k)

LEMMA AtWorkIs ==
    ASSUME TypeOK, Owned, NEW d \in Devices, Neat(d), NEW w \in Workers, job[d][w].step # "idle"
    PROVE  \E j, k : AtWork(d, w, j, k)
  <1>1. PICK j : j = job[d][w]
    OBVIOUS
  <1>2. PICK k : k = Of(j.old)
    OBVIOUS
  <1>3. j # NoJob
    BY <1>1, NoJobIs
  <1>4. /\ JobOwned(j) /\ (Renaming(j) \/ Removing(j)) /\ (j.fi # NoRow => j.fi.id \in DOMAIN posts)
        /\ (j.fi # NoRow => j.fi \in Rows /\ RowOwned(j.fi))
    BY <1>1, <1>3, JobIs DEF JobOK
  <1>5. k \in Files /\ (j.op = "delete" => j.fi.file = k)
    BY <1>1, <1>2, <1>3 DEF Neat, Filed
  <1>6. w \in Jobs(d, k)
    BY <1>1, <1>2, <1>3 DEF Jobs
  <1>7. Told(d, k)
    BY <1>5 DEF Neat
  <1>8. /\ Jobs(d, k) = {w} /\ Asks(d, k) = {} /\ Dels(d, k) = {} /\ Pushes(d, k) = {}
        /\ PostsOf(k) # {} /\ WorksOn(d, k, j)
    BY <1>1, <1>6, <1>7 DEF Told, Idle
  <1>9. j.fi # NoRow => j.fi.file = k
    <2>1. Renaming(j) => j.op = "rename"
      BY DEF Renaming
    <2>2. Removing(j) => j.op = "delete"
      BY DEF Removing
    <2> QED BY <1>2, <1>4, <1>5, <2>1, <2>2 DEF JobOwned, Of
  <1>10. j.fi # NoRow => j.fi.id \in PostsOf(k)
    BY <1>4, <1>9 DEF RowOwned, PostsOf
  <1> QED BY <1>1, <1>2, <1>3, <1>4, <1>5, <1>8, <1>9, <1>10 DEF AtWork

\* When the worker goes on, or ends its task, the other files keep theirs.
LEMMA GoesOnIs ==
    ASSUME TypeOK, NEW d \in Devices, NEW w \in Workers, NEW n, Goes(d, w, n),
           NEW k, job[d][w] = NoJob \/ Of(job[d][w].old) = k, n = NoJob \/ Of(n.old) = k,
           Jobs(d, k) \subseteq {w}, owner' = owner
    PROVE  /\ n = NoJob => Jobs(d, k)' = {}
           /\ n # NoJob => Jobs(d, k)' = {w} /\ job'[d][w] = n
           /\ \A l : l # k => Jobs(d, l)' = Jobs(d, l) /\ \A v \in Jobs(d, l) : job'[d][v] = job[d][v]
  <1>1. DOMAIN job = Devices /\ JobsLinked(d)
    BY TypeIs
  <1>0. job'[d][w] = n /\ \A v \in Workers \ {w} : job'[d][v] = job[d][v]
    BY <1>1 DEF Goes, JobsLinked
  <1>2. job'[d][w] = n /\ \A v \in Workers : v # w => job'[d][v] = job[d][v]
    BY <1>0
  <1>3. \A v, l : v \in Jobs(d, l) <=> v \in Workers /\ job[d][v] # NoJob /\ owner[job[d][v].old[2]] = l
    BY DEF Jobs, Of
  <1>4. \A v, l : v \in Jobs(d, l)' <=> v \in Workers /\ job'[d][v] # NoJob /\ owner[job'[d][v].old[2]] = l
    BY DEF Jobs, Of
  <1>5. \A l : l # k => w \notin Jobs(d, l) /\ w \notin Jobs(d, l)'
    BY <1>2, <1>3, <1>4 DEF Of
  <1>6. \A v, l : v # w => (v \in Jobs(d, l)' <=> v \in Jobs(d, l))
    BY <1>2, <1>3, <1>4
  <1>7. \A l : l # k => Jobs(d, l)' = Jobs(d, l)
    BY <1>5, <1>6
  <1>8. \A l : l # k => \A v \in Jobs(d, l) : job'[d][v] = job[d][v]
    BY <1>2, <1>3, <1>5
  <1>9. w \in Jobs(d, k)' <=> n # NoJob
    BY <1>2, <1>4 DEF Of
  <1>10. Jobs(d, k)' \subseteq {w}
    BY <1>6
  <1> QED BY <1>2, <1>7, <1>8, <1>9, <1>10

LEMMA TasksStay ==
    ASSUME NEW d, NEW k, owner' = owner
    PROVE  /\ renames'[d] = renames[d] => Asks(d, k)' = Asks(d, k)
           /\ deletes'[d] = deletes[d] => Dels(d, k)' = Dels(d, k)
           /\ pushes'[d] = pushes[d] => Pushes(d, k)' = Pushes(d, k)
  BY DEF Asks, Dels, Pushes, Of

LEMMA RecordsStay ==
    ASSUME NEW d, rows'[d] = rows[d], posts' = posts
    PROVE  \A k : SameRecords(d, k)
  BY DEF SameRecords, RowsOf, PostsOf, Holds

\* What there is to show of a step that is about one file.
LEMMA OneFile ==
    ASSUME NEW d, Neat(d), NEW k \in Files, Told(d, k)', Unique(d)', Filed(d)',
           \A l \in Files : l # k => Same(d, l)
    PROVE  Neat(d)'
  <1>1. \A l \in Files : Told(d, l)'
    BY ToldSame DEF Neat
  <1> QED BY <1>1 DEF Neat

LEMMA ToldAtWork ==
    ASSUME NEW d, NEW k, NEW w, Jobs(d, k)' = {w}, Asks(d, k)' = {}, Dels(d, k)' = {},
           Pushes(d, k)' = {}, PostsOf(k)' # {}, WorksOn(d, k, job[d][w])'
    PROVE  Told(d, k)'
  BY DEF Told, Idle

LEMMA UniqueStays ==
    ASSUME NEW d, Unique(d), owner' = owner, rows'[d] = rows[d], posts' = posts,
           renames'[d] = renames[d], deletes'[d] = deletes[d]
    PROVE  Unique(d)'
  BY DEF Unique, Of, Alike

LEMMA FiledGoes ==
    ASSUME TypeOK, NEW d \in Devices, Filed(d), NEW w \in Workers, NEW n, Goes(d, w, n),
           n = NoJob \/ Of(n.old) \in Files, n.op = "delete" => n.fi.file = Of(n.old),
           owner' = owner, home' = home, disk' = disk,
           \A i \in DOMAIN deletes'[d] : \E m \in DOMAIN deletes[d] : deletes'[d][i] = deletes[d][m],
           \A p \in pushes'[d] : p \in pushes[d] \/ Of(p) \in Files
    PROVE  Filed(d)'
  <1>1. DOMAIN job = Devices /\ JobsLinked(d)
    BY TypeIs
  <1>0. job'[d][w] = n /\ \A v \in Workers \ {w} : job'[d][v] = job[d][v]
    BY <1>1 DEF Goes, JobsLinked
  <1>2. job'[d][w] = n /\ \A v \in Workers : v # w => job'[d][v] = job[d][v]
    BY <1>0
  <1>3. \A i \in DOMAIN deletes'[d] : Of(deletes[d][i])' \in Files
    BY DEF Filed, Of
  <1>4. \A p \in pushes'[d] : Of(p)' \in Files
    BY DEF Filed, Of
  <1>5. \A v \in Workers : job'[d][v] # NoJob => Of(job[d][v].old)' \in Files
    BY <1>2 DEF Filed, Of
  <1>6. \A v \in Workers : job'[d][v].op = "delete" => job'[d][v].fi.file = Of(job[d][v].old)'
    BY <1>2 DEF Filed, Of
  <1>7. \A k \in Files : home'[k] # Nowhere => disk'[d][home'[k]] = k
    BY DEF Filed
  <1> QED BY <1>3, <1>4, <1>5, <1>6, <1>7 DEF Filed

\* A worker that goes on with its task leaves the other files alone.
LEMMA OtherTasks ==
    ASSUME TypeOK, NEW d \in Devices, NEW w \in Workers, NEW n, Goes(d, w, n),
           NEW j, NEW k, AtWork(d, w, j, k), n = NoJob \/ n.old = j.old, owner' = owner,
           renames' = renames, deletes' = deletes, pushes' = pushes
    PROVE  /\ \A l \in Files : l # k => SameTasks(d, l)
           /\ Asks(d, k)' = {} /\ Dels(d, k)' = {} /\ Pushes(d, k)' = {}
           /\ n = NoJob => Jobs(d, k)' = {}
           /\ n # NoJob => Jobs(d, k)' = {w} /\ job'[d][w] = n
  <1>1. job[d][w] = j /\ Of(j.old) = k /\ Jobs(d, k) = {w}
    BY DEF AtWork
  <1>2. n = NoJob \/ Of(n.old) = k
    BY <1>1
  <1>3. /\ n = NoJob => Jobs(d, k)' = {}
        /\ n # NoJob => Jobs(d, k)' = {w} /\ job'[d][w] = n
        /\ \A l : l # k => Jobs(d, l)' = Jobs(d, l) /\ \A v \in Jobs(d, l) : job'[d][v] = job[d][v]
    BY <1>1, <1>2, GoesOnIs
  <1>4. \A l : /\ Asks(d, l)' = Asks(d, l) /\ Dels(d, l)' = Dels(d, l)
               /\ Pushes(d, l)' = Pushes(d, l)
    BY TasksStay
  <1>5. Asks(d, k)' = {} /\ Dels(d, k)' = {} /\ Pushes(d, k)' = {}
    BY <1>4 DEF AtWork
  <1> QED BY <1>3, <1>4, <1>5 DEF SameTasks

\* A request for the post of a file changes nothing but the task.
LEMMA GetNeat ==
    ASSUME TypeOK, Owned, NEW d \in Devices, Neat(d), NEW w \in Workers, NEW op,
           GetFilePost(d, w, op), op \in {"rename", "delete"}, failures' = 0
    PROVE  Neat(d)'
  <1>1. PICK j, k : AtWork(d, w, j, k)
    BY AtWorkIs DEF GetFilePost
  <1>2. PICK x : x = posts[j.fi.id]
    OBVIOUS
  <1>3. PICK n : n = [j EXCEPT !.step = "put", !.got = x]
    OBVIOUS
  <1>4. failures \in Nat
    BY TypeIs DEF FaultsTyped
  <1>5. /\ UNCHANGED <<disk, rows, server, news, asked, pulls, pull, follow, user>>
        /\ j.op = op /\ j.step = "get" /\ Goes(d, w, n)
    BY <1>1, <1>2, <1>3, <1>4 DEF GetFilePost, Fails, AtWork
  <1>6. /\ owner' = owner /\ home' = home /\ disk' = disk /\ rows' = rows /\ posts' = posts
        /\ renames' = renames /\ deletes' = deletes /\ pushes' = pushes
    BY <1>5 DEF server, asked, user
  <1>7. Renaming(j) \/ Removing(j)
    BY <1>1 DEF AtWork
  <1>8. /\ n.step = "put" /\ n.op = j.op /\ n.old = j.old /\ n.new = j.new /\ n.fi = j.fi /\ n.got = x
    BY <1>3, <1>7 DEF Renaming, Removing
  <1>9. n # NoJob
    BY <1>8, NoJobIs
  <1>10. j.fi # NoRow
    BY <1>5, <1>7, NoRowIs DEF Renaming, Removing
  <1>11. j.fi.id \in PostsOf(k) /\ j.fi.file = k
    BY <1>1, <1>10 DEF AtWork
  <1>12. /\ \A l \in Files : l # k => SameTasks(d, l)
         /\ Asks(d, k)' = {} /\ Dels(d, k)' = {} /\ Pushes(d, k)' = {}
         /\ Jobs(d, k)' = {w} /\ job'[d][w] = n
    BY <1>1, <1>5, <1>6, <1>8, <1>9, OtherTasks
  <1>13. \A l : SameRecords(d, l)
    BY <1>6, RecordsStay
  <1>14. \A l \in Files : l # k => Same(d, l)
    BY <1>6, <1>12, <1>13 DEF Same
  <1>15. WorksOn(d, k, n)'
    <2>1. WorksOn(d, k, j)
      BY <1>1 DEF AtWork
    <2>2. CASE j.op = "delete"
      BY <1>6, <1>8, <2>1, <2>2 DEF WorksOn
    <2>3. CASE j.op = "rename"
      <3>1. home[k] = j.new /\ In(d, k, j.old)
        BY <1>5, <2>1, <2>3 DEF WorksOn
      <3>2. ~x.deleted
        BY <1>2, <1>11, <3>1 DEF In, PostsAt
      <3>3. In(d, k, j.old)'
        BY <1>13, <3>1, SameIn
      <3> QED BY <1>6, <1>8, <2>3, <3>1, <3>2, <3>3 DEF WorksOn
    <2> QED BY <1>5, <2>2, <2>3
  <1>16. PostsOf(k)' # {}
    BY <1>1, <1>13 DEF AtWork, SameRecords
  <1>17. Told(d, k)'
    BY <1>12, <1>15, <1>16, ToldAtWork
  <1>18. Unique(d)'
    BY <1>6, UniqueStays DEF Neat
  <1>19. Filed(d)'
    <2>1. Of(n.old) \in Files /\ (n.op = "delete" => n.fi.file = Of(n.old))
      BY <1>1, <1>8, <1>11 DEF AtWork
    <2> QED BY <1>5, <1>6, <2>1, FiledGoes DEF Neat
  <1>20. k \in Files
    BY <1>1 DEF AtWork
  <1> QED BY <1>14, <1>17, <1>18, <1>19, <1>20, OneFile

\* What is to show of a worker's step that does not change what waits.
Settles(d, k) ==
  IF home[k] = Nowhere THEN \A i \in PostsOf(k) : posts[i].deleted ELSE In(d, k, home[k])

LEMMA WorkerNeat ==
    ASSUME TypeOK, NEW d \in Devices, Neat(d), NEW w \in Workers, NEW n, Goes(d, w, n),
           NEW j, NEW k, AtWork(d, w, j, k),
           n = NoJob \/ (n.old = j.old /\ (n.op = "delete" => n.fi.file = k)),
           owner' = owner, home' = home, disk' = disk, renames' = renames, deletes' = deletes,
           pushes' = pushes, Unique(d)', \A l \in Files : l # k => SameRecords(d, l),
           PostsOf(k)' # {}, n # NoJob => WorksOn(d, k, n)', n = NoJob => Settles(d, k)'
    PROVE  Neat(d)'
  <1>1. k \in Files /\ Of(j.old) = k
    BY DEF AtWork
  <1>2. /\ \A l \in Files : l # k => SameTasks(d, l)
        /\ Asks(d, k)' = {} /\ Dels(d, k)' = {} /\ Pushes(d, k)' = {}
        /\ n = NoJob => Jobs(d, k)' = {}
        /\ n # NoJob => Jobs(d, k)' = {w} /\ job'[d][w] = n
    BY OtherTasks
  <1>3. \A l \in Files : l # k => Same(d, l)
    BY <1>2 DEF Same
  <1>4. Told(d, k)'
    <2>1. CASE n # NoJob
      BY <1>2, <2>1, ToldAtWork
    <2>2. CASE n = NoJob
      <3>1. Jobs(d, k)' = {} /\ Idle(d, k)'
        BY <1>2, <2>2 DEF Idle
      <3>2. IF home'[k] = Nowhere THEN \A i \in PostsOf(k)' : posts'[i].deleted ELSE In(d, k, home[k])'
        BY <2>2 DEF Settles
      <3> QED BY <1>2, <3>1, <3>2 DEF Told
    <2> QED BY <2>1, <2>2
  <1>5. Filed(d)'
    <2>1. n = NoJob \/ Of(n.old) \in Files
      BY <1>1
    <2>2. n.op = "delete" => n.fi.file = Of(n.old)
      BY <1>1, NoJobIs
    <2> QED BY <2>1, <2>2, FiledGoes DEF Neat
  <1> QED BY <1>1, <1>3, <1>4, <1>5, OneFile DEF Neat

\* The row is found by name and folder.
LEMMA LookUpNeat ==
    ASSUME TypeOK, Owned, NEW d \in Devices, Neat(d), NEW w \in Workers, LookUp(d, w)
    PROVE  Neat(d)'
  <1>1. PICK j : j = job[d][w]
    OBVIOUS
  <1>3. /\ UNCHANGED <<disk, rows, server, news, asked, pulls, pull, follow, user, faults>>
        /\ j.step = "look"
        /\ \/ \E r \in QueryByName(rows[d], j.old) : Goes(d, w, [j EXCEPT !.step = "get", !.fi = r])
           \/ QueryByName(rows[d], j.old) = {} /\ Goes(d, w, NoJob)
    BY <1>1, Zenon DEF LookUp, End
  <1>2. PICK k : AtWork(d, w, j, k)
    <2>0. j.step = "look"
      BY <1>3, Zenon
    <2>1. job[d][w].step # "idle"
      BY <1>1, <2>0
    <2>2. PICK i, k : AtWork(d, w, i, k)
      BY <2>1, AtWorkIs
    <2>3. i = j
      BY <1>1, <2>2 DEF AtWork
    <2> QED BY <2>2, <2>3
  <1>4. j.step = "look" /\ UNCHANGED <<disk, rows, server, news, asked, pulls, pull, follow, user, faults>>
    BY <1>3, Zenon
  <1>5. /\ owner' = owner /\ home' = home /\ disk' = disk /\ rows' = rows /\ posts' = posts
        /\ renames' = renames /\ deletes' = deletes /\ pushes' = pushes
    BY <1>4 DEF server, asked, user
  <1>6. Renaming(j)
    BY <1>1, <1>4, JobIs
  <1>7. k \in Files /\ WorksOn(d, k, j) /\ PostsOf(k) # {}
    BY <1>2 DEF AtWork
  <1>8. j.op = "rename" /\ home[k] = j.new /\ In(d, k, j.old)
    BY <1>4, <1>6, <1>7 DEF WorksOn, Renaming
  <1>9. Unique(d) /\ rows[d] \in Seq(Rows)
    BY RecordsAre DEF Neat
  <1>10. QueryByName(rows[d], j.old) # {}
    <2>1. PICK r : r \in RowsOf(d, k)
      BY <1>7, <1>9, OnePost
    <2>2. Holds(rows[d], r) /\ r.name = j.old[2] /\ r.folder = j.old[1]
      BY <1>8, <2>1 DEF In, RowsAt, RowsName, RowsFolder, RowsOf
    <2>3. r \in QueryByName(rows[d], j.old)
      BY <1>9, <2>2, ByNameIs
    <2> QED BY <2>3
  <1>11. PICK r \in QueryByName(rows[d], j.old) : Goes(d, w, [j EXCEPT !.step = "get", !.fi = r])
    BY <1>3, <1>10, Zenon
  <1>12. PICK n : n = [j EXCEPT !.step = "get", !.fi = r]
    OBVIOUS
  <1>13. n.step = "get" /\ n.op = "rename" /\ n.old = j.old /\ n.new = j.new
    BY <1>6, <1>8, <1>12 DEF Renaming
  <1>14. \A l : SameRecords(d, l)
    BY <1>5, RecordsStay
  <1>15. In(d, k, j.old)'
    BY <1>8, <1>14, SameIn
  <1>16. WorksOn(d, k, n)'
    BY <1>5, <1>8, <1>13, <1>15 DEF WorksOn
  <1>17. PostsOf(k)' # {}
    BY <1>7, <1>14 DEF SameRecords
  <1>18. Unique(d)'
    BY <1>5, <1>9, UniqueStays
  <1>19. n # NoJob
    BY <1>13, NoJobIs
  <1>20. Goes(d, w, n)
    BY <1>11, <1>12
  <1> QED BY <1>2, <1>5, <1>13, <1>14, <1>16, <1>17, <1>18, <1>19, <1>20, WorkerNeat

\* A post that is put is one the device has, of the same file.
PutOf(k, i, value) ==
  /\ i \in PostsOf(k) /\ value.file = k /\ DOMAIN posts' = DOMAIN posts /\ posts'[i] = value
  /\ \A m \in DOMAIN posts : m # i => posts'[m] = posts[m]

LEMMA PutRecords ==
    ASSUME TypeOK, Owned, NEW d \in Devices, Unique(d), NEW k \in Files, NEW i, NEW value,
           PutOf(k, i, value), rows' = rows, owner' = owner, renames' = renames, deletes' = deletes
    PROVE  /\ Unique(d)' /\ PostsOf(k)' = {i} /\ RowsOf(d, k)' = RowsOf(d, k)
           /\ \A l \in Files : l # k => SameRecords(d, l)
  <1>1. /\ i \in DOMAIN posts /\ posts[i].file = k /\ value.file = k /\ DOMAIN posts' = DOMAIN posts
        /\ posts'[i] = value /\ \A m \in DOMAIN posts : m # i => posts'[m] = posts[m]
    BY DEF PutOf, PostsOf
  <1>2. \A m \in DOMAIN posts : posts'[m].file = posts[m].file
    BY <1>1
  <1>3. \A l : PostsOf(l)' = PostsOf(l)
    BY <1>1, <1>2 DEF PostsOf
  <1>4. PostsOf(k) = {i}
    BY <1>1, OnePost DEF PutOf
  <1>5. \A l : RowsOf(d, l)' = RowsOf(d, l)
    BY DEF RowsOf, Holds
  <1>6. \A l \in Files : l # k => SameRecords(d, l)
    BY <1>1, <1>3, <1>5 DEF SameRecords, PostsOf
  <1>7. Unique(d)'
    BY <1>1, <1>2 DEF Unique, Of, Alike
  <1> QED BY <1>3, <1>4, <1>5, <1>6, <1>7

\* A worker that puts a post, when the request works.
LEMMA PutIsOf ==
    ASSUME TypeOK, Owned, NEW d \in Devices, NEW w \in Workers, NEW op, NEW value, NEW next,
           PutFilePost(d, w, op, value, next), NEW j, NEW k, AtWork(d, w, j, k),
           value \in PostType, value.file = k, failures' = 0
    PROVE  /\ UNCHANGED <<disk, rows, asked, user>> /\ PutOf(k, j.fi.id, value)
           /\ Goes(d, w, IF next = "idle" THEN NoJob ELSE [j EXCEPT !.step = next])
  <1>1. j = job[d][w]
    BY DEF AtWork
  <1>2. failures \in Nat
    BY TypeIs DEF FaultsTyped
  <1>3. /\ UNCHANGED <<disk, rows, asked, user>> /\ j.step = "put"
        /\ posts' = [posts EXCEPT ![j.fi.id] = value]
        /\ IF next = "idle" THEN Goes(d, w, NoJob) ELSE Goes(d, w, [j EXCEPT !.step = next])
    BY <1>1, <1>2 DEF PutFilePost, Fails, End, Step
  <1>4. Renaming(j) \/ Removing(j)
    BY DEF AtWork
  <1>5. j.fi # NoRow
    BY <1>3, <1>4, NoRowIs DEF Renaming, Removing
  <1>6. j.fi.id \in PostsOf(k)
    BY <1>5 DEF AtWork
  <1>7. j.fi.id \in DOMAIN posts
    BY <1>6 DEF PostsOf
  <1>8. posts \in Seq(PostType)
    BY TypeIs DEF ServerTyped
  <1>9. /\ DOMAIN posts' = DOMAIN posts /\ posts'[j.fi.id] = value
        /\ \A m \in DOMAIN posts : m # j.fi.id => posts'[m] = posts[m]
    BY <1>3, <1>7, <1>8
  <1> QED BY <1>3, <1>6, <1>9 DEF PutOf

LEMMA MetaNeat ==
    ASSUME TypeOK, Owned, NEW d \in Devices, Neat(d), NEW w \in Workers,
           UpdateFileMetaPost(d, w), failures' = 0
    PROVE  Neat(d)'
  <1>1. job[d][w].step # "idle" /\ job[d][w].op = "rename" /\ job[d][w].step = "put"
    BY DEF UpdateFileMetaPost, PutFilePost
  <1>2. PICK j, k : AtWork(d, w, j, k)
    BY <1>1, AtWorkIs
  <1>3. j = job[d][w] /\ j.op = "rename" /\ j.step = "put"
    BY <1>1, <1>2 DEF AtWork
  <1>4. Renaming(j) /\ JobOwned(j)
    BY <1>3, JobIs
  <1>5. j.fi # NoRow
    BY <1>3, <1>4 DEF Renaming
  <1>6. k \in Files /\ j.fi.file = k /\ WorksOn(d, k, j)
    BY <1>2, <1>5 DEF AtWork
  <1>7. home[k] = j.new /\ ~j.got.deleted
    BY <1>3, <1>6 DEF WorksOn
  <1>8. PICK v : v = Moved(j)
    OBVIOUS
  <1>9. v \in PostType /\ v.file = k /\ At(v) = j.new /\ ~v.deleted
    BY <1>3, <1>4, <1>6, <1>7, <1>8, MovedIs
  <1>10. PICK n : n = [j EXCEPT !.step = "path"]
    OBVIOUS
  <1>11. PutFilePost(d, w, "rename", v, "path")
    BY <1>3, <1>8 DEF UpdateFileMetaPost
  <1>12. UNCHANGED <<disk, rows, asked, user>> /\ PutOf(k, j.fi.id, v) /\ Goes(d, w, n)
    BY <1>2, <1>9, <1>10, <1>11, PutIsOf
  <1>13. /\ owner' = owner /\ home' = home /\ disk' = disk /\ rows' = rows
         /\ renames' = renames /\ deletes' = deletes /\ pushes' = pushes
    BY <1>12 DEF asked, user
  <1>14. PICK i : i = j.fi.id
    OBVIOUS
  <1>15. /\ Unique(d)' /\ PostsOf(k)' = {i}
         /\ \A l \in Files : l # k => SameRecords(d, l)
    <2>1. PutOf(k, i, v) /\ Unique(d)
      BY <1>12, <1>14 DEF Neat
    <2> QED BY <1>6, <1>13, <2>1, PutRecords
  <1>16. n.step = "path" /\ n.op = "rename" /\ n.old = j.old /\ n.new = j.new
    BY <1>3, <1>4, <1>10 DEF Renaming
  <1>17. posts'[i] = v
    BY <1>12, <1>14 DEF PutOf
  <1>18. PostsAt(k, j.new)'
    BY <1>9, <1>15, <1>17 DEF PostsAt, At
  <1>19. WorksOn(d, k, n)'
    BY <1>7, <1>13, <1>16, <1>18 DEF WorksOn
  <1>20. n # NoJob
    BY <1>16, NoJobIs
  <1>21. PostsOf(k)' # {}
    BY <1>15
  <1> QED BY <1>2, <1>12, <1>13, <1>15, <1>16, <1>19, <1>20, <1>21, WorkerNeat

LEMMA UpdateNeat ==
    ASSUME TypeOK, Owned, NEW d \in Devices, Neat(d), NEW w \in Workers,
           UpdateFilePost(d, w), failures' = 0
    PROVE  Neat(d)'
  <1>1. job[d][w].step # "idle" /\ job[d][w].op = "delete" /\ job[d][w].step = "put"
    BY DEF UpdateFilePost, PutFilePost
  <1>2. PICK j, k : AtWork(d, w, j, k)
    BY <1>1, AtWorkIs
  <1>3. j = job[d][w] /\ j.op = "delete" /\ j.step = "put"
    BY <1>1, <1>2 DEF AtWork
  <1>4. Removing(j) /\ JobOwned(j)
    BY <1>3, JobIs
  <1>5. j.fi # NoRow /\ j.got # NoPost /\ j.got \in PostType
    BY <1>3, <1>4, NoRowIs DEF Removing
  <1>6. k \in Files /\ j.fi.file = k /\ WorksOn(d, k, j) /\ j.got.file = k
    BY <1>2, <1>4, <1>5 DEF AtWork, JobOwned
  <1>7. home[k] = Nowhere
    BY <1>3, <1>6 DEF WorksOn
  <1>8. PICK v : v = [j.got EXCEPT !.deleted = TRUE]
    OBVIOUS
  <1>9. v \in PostType /\ v.file = k /\ v.deleted
    BY <1>5, <1>6, <1>8 DEF PostType
  <1>11. PutFilePost(d, w, "delete", v, "idle")
    BY <1>3, <1>8 DEF UpdateFilePost
  <1>12. UNCHANGED <<disk, rows, asked, user>> /\ PutOf(k, j.fi.id, v) /\ Goes(d, w, NoJob)
    BY <1>2, <1>9, <1>11, PutIsOf
  <1>13. /\ owner' = owner /\ home' = home /\ disk' = disk /\ rows' = rows
         /\ renames' = renames /\ deletes' = deletes /\ pushes' = pushes
    BY <1>12 DEF asked, user
  <1>14. PICK i : i = j.fi.id
    OBVIOUS
  <1>15. /\ Unique(d)' /\ PostsOf(k)' = {i}
         /\ \A l \in Files : l # k => SameRecords(d, l)
    <2>1. PutOf(k, i, v) /\ Unique(d)
      BY <1>12, <1>14 DEF Neat
    <2> QED BY <1>6, <1>13, <2>1, PutRecords
  <1>17. posts'[i] = v
    BY <1>12, <1>14 DEF PutOf
  <1>18. Settles(d, k)'
    BY <1>7, <1>9, <1>13, <1>15, <1>17 DEF Settles
  <1>21. PostsOf(k)' # {}
    BY <1>15
  <1> QED BY <1>2, <1>12, <1>13, <1>15, <1>18, <1>21, WorkerNeat

\* An update of the rows of one post.
Touches(d, i, table) ==
  /\ DOMAIN table = DOMAIN rows[d] /\ rows' = [rows EXCEPT ![d] = table]
  /\ \A n \in DOMAIN rows[d] :
       /\ table[n] \in Rows /\ table[n].id = rows[d][n].id /\ table[n].file = rows[d][n].file
       /\ rows[d][n].id # i => table[n] = rows[d][n]

LEMMA TouchedRecords ==
    ASSUME TypeOK, Owned, NEW d \in Devices, Unique(d), NEW k \in Files, NEW i \in PostsOf(k),
           NEW table, Touches(d, i, table), posts' = posts, owner' = owner
    PROVE  /\ renames'[d] = renames[d] /\ deletes'[d] = deletes[d] => Unique(d)'
           /\ PostsOf(k)' = PostsOf(k) /\ \A p : PostsAt(k, p) => PostsAt(k, p)'
           /\ \A l \in Files : l # k => SameRecords(d, l)
           /\ \A r \in RowsOf(d, k)' :
                \E n \in DOMAIN rows[d] : /\ rows[d][n] \in RowsOf(d, k) /\ rows[d][n].id = i
                                          /\ r = table[n]
  <1>1. /\ DOMAIN table = DOMAIN rows[d] /\ rows' = [rows EXCEPT ![d] = table]
        /\ \A n \in DOMAIN rows[d] :
             /\ table[n] \in Rows /\ table[n].id = rows[d][n].id /\ table[n].file = rows[d][n].file
             /\ rows[d][n].id # i => table[n] = rows[d][n]
    BY DEF Touches
  <1>2. rows'[d] = table
    BY <1>1, TypeIs DEF RowsTyped
  <1>3. ASSUME NEW n \in DOMAIN rows[d]
        PROVE  rows[d][n] \in Rows /\ rows[d][n].id \in DOMAIN posts
               /\ posts[rows[d][n].id].file = rows[d][n].file
    <2>1. PICK r : r = rows[d][n]
      OBVIOUS
    <2>2. Holds(rows[d], r)
      BY <2>1 DEF Holds
    <2> QED BY <2>1, <2>2, RecordsAre
  <1>4. i \in DOMAIN posts /\ posts[i].file = k
    BY DEF PostsOf
  <1>5. ASSUME renames'[d] = renames[d] /\ deletes'[d] = deletes[d] PROVE Unique(d)'
    <2>1. Alike(table)
      BY <1>1 DEF Unique, Alike
    <2>2. \A m \in DOMAIN posts : \E n \in DOMAIN table : table[n].id = m
      BY <1>1 DEF Unique
    <2>3. /\ \A m, n \in DOMAIN posts : posts[m].file = posts[n].file => m = n
          /\ \A m, n \in DOMAIN renames[d] : Of(renames[d][m].old) = Of(renames[d][n].old) => m = n
          /\ \A m, n \in DOMAIN deletes[d] : Of(deletes[d][m]) = Of(deletes[d][n]) => m = n
      BY DEF Unique
    <2> QED BY <1>2, <1>5, <2>1, <2>2, <2>3 DEF Unique, Of, Alike
  <1>6. \A l : PostsOf(l)' = PostsOf(l) /\ \A p : PostsAt(l, p) => PostsAt(l, p)'
    BY DEF PostsOf, PostsAt, At
  <1>7. ASSUME NEW l, NEW r \in RowsOf(d, l)'
        PROVE  \E n \in DOMAIN rows[d] : r = table[n] /\ rows[d][n].file = l
    <2>1. r.file = l /\ \E n \in DOMAIN table : table[n] = r
      BY <1>2 DEF RowsOf, Holds
    <2> QED BY <1>1, <2>1
  <1>8. ASSUME NEW l \in Files, l # k PROVE RowsOf(d, l)' = RowsOf(d, l)
    <2>1. ASSUME NEW r \in RowsOf(d, l)' PROVE r \in RowsOf(d, l)
      <3>1. PICK n \in DOMAIN rows[d] : r = table[n] /\ rows[d][n].file = l
        BY <1>7
      <3>2. rows[d][n].id # i
        BY <1>3, <1>4, <1>8, <3>1
      <3>3. r = rows[d][n]
        BY <1>1, <3>1, <3>2
      <3> QED BY <1>3, <3>1, <3>3 DEF RowsOf, Holds
    <2>2. ASSUME NEW r \in RowsOf(d, l) PROVE r \in RowsOf(d, l)'
      <3>1. PICK n \in DOMAIN rows[d] : rows[d][n] = r
        BY DEF RowsOf, Holds
      <3>2. r.file = l /\ r \in Rows
        BY DEF RowsOf
      <3>3. rows[d][n].id # i
        BY <1>3, <1>4, <1>8, <3>1, <3>2
      <3>4. table[n] = r
        BY <1>1, <3>1, <3>3
      <3> QED BY <1>1, <1>2, <3>1, <3>2, <3>4 DEF RowsOf, Holds
    <2> QED BY <2>1, <2>2
  <1>9. \A l \in Files : l # k => SameRecords(d, l)
    BY <1>6, <1>8 DEF SameRecords
  <1>10. ASSUME NEW r \in RowsOf(d, k)'
         PROVE  \E n \in DOMAIN rows[d] : /\ rows[d][n] \in RowsOf(d, k) /\ rows[d][n].id = i
                                          /\ r = table[n]
    <2>1. PICK n \in DOMAIN rows[d] : r = table[n] /\ rows[d][n].file = k
      BY <1>7
    <2>2. PICK x : x = rows[d][n]
      OBVIOUS
    <2>3. x \in RowsOf(d, k)
      BY <1>3, <2>1, <2>2 DEF RowsOf, Holds
    <2>4. x.id = i
      BY <2>3, OnePost
    <2> QED BY <2>1, <2>2, <2>3, <2>4
  <1> QED BY <1>5, <1>6, <1>9, <1>10

\* What the steps on the table have in common.
LEMMA ManifestIs ==
    ASSUME TypeOK, Owned, NEW d \in Devices, Neat(d), NEW w \in Workers,
           job[d][w].step \in {"path", "name", "folder"}
    PROVE  \E j, k : /\ AtWork(d, w, j, k) /\ j = job[d][w] /\ Renaming(j) /\ j.op = "rename"
                     /\ j.new \in Places /\ j.new[1] \in Folders /\ j.new[2] \in Names
                     /\ k \in Files /\ j.fi.id \in PostsOf(k) /\ home[k] = j.new
                     /\ WorksOn(d, k, j) /\ owner[j.new[2]] = k /\ Of(j.new) = k
  <1>1. job[d][w].step # "idle"
    OBVIOUS
  <1>2. PICK j, k : AtWork(d, w, j, k)
    BY <1>1, AtWorkIs
  <1>3. j = job[d][w]
    BY <1>2 DEF AtWork
  <1>4. Renaming(j) /\ JobOwned(j)
    BY <1>3, JobIs
  <1>5. j.op = "rename" /\ j.new \in Places /\ j.fi # NoRow
    BY <1>3, <1>4 DEF Renaming
  <1>6. k \in Files /\ j.fi.id \in PostsOf(k) /\ WorksOn(d, k, j) /\ k = owner[j.old[2]]
    BY <1>2, <1>5 DEF AtWork, Of
  <1>7. home[k] = j.new
    BY <1>5, <1>6 DEF WorksOn
  <1>8. owner[j.new[2]] = k
    BY <1>4, <1>5, <1>6 DEF JobOwned
  <1> QED BY <1>2, <1>3, <1>4, <1>5, <1>6, <1>7, <1>8, PlaceIs DEF Of

LEMMA FilepathNeat ==
    ASSUME TypeOK, Owned, NEW d \in Devices, Neat(d), NEW w \in Workers, SetFilepath(d, w)
    PROVE  Neat(d)'
  <1>1. job[d][w].step \in {"path", "name", "folder"} /\ job[d][w].step = "path"
    BY DEF SetFilepath, Manifest
  <1>2. PICK j, k : /\ AtWork(d, w, j, k) /\ j = job[d][w] /\ Renaming(j) /\ j.op = "rename"
                    /\ j.new \in Places /\ j.new[1] \in Folders /\ j.new[2] \in Names
                    /\ k \in Files /\ j.fi.id \in PostsOf(k) /\ home[k] = j.new
                    /\ WorksOn(d, k, j) /\ owner[j.new[2]] = k /\ Of(j.new) = k
    BY <1>1, ManifestIs
  <1>3. PICK table : table = set_filepath_for_id(rows[d], j.fi.id, j.new)
    OBVIOUS
  <1>4. PICK n : n = [j EXCEPT !.step = "name"]
    OBVIOUS
  <1>5. /\ Goes(d, w, n) /\ rows' = [rows EXCEPT ![d] = table]
        /\ UNCHANGED <<disk, server, asked, user>>
    BY <1>2, <1>3, <1>4 DEF SetFilepath, Manifest, Step
  <1>6. /\ owner' = owner /\ home' = home /\ disk' = disk /\ posts' = posts
        /\ renames' = renames /\ deletes' = deletes /\ pushes' = pushes
    BY <1>5 DEF server, asked, user
  <1>7. rows[d] \in Seq(Rows) /\ Keyed(rows[d]) /\ Unique(d) /\ Alike(rows[d])
    BY RecordsAre DEF Neat, Unique
  <1>8. /\ table \in Seq(Rows) /\ DOMAIN table = DOMAIN rows[d]
        /\ \A m \in DOMAIN rows[d] :
             /\ \/ table[m] = rows[d][m]
                \/ rows[d][m].id = j.fi.id /\ table[m] = [rows[d][m] EXCEPT !.path = j.new]
             /\ rows[d][m].id = j.fi.id => table[m] = [rows[d][m] EXCEPT !.path = j.new]
    BY <1>2, <1>3, <1>7, SetPathIs
  <1>9. ASSUME NEW m \in DOMAIN rows[d]
        PROVE  /\ table[m] \in Rows /\ table[m].id = rows[d][m].id /\ table[m].file = rows[d][m].file
               /\ rows[d][m].id # j.fi.id => table[m] = rows[d][m]
               /\ rows[d][m].id = j.fi.id => table[m].path = j.new
    <2>1. PICK r : r = rows[d][m]
      OBVIOUS
    <2>2. r \in Rows /\ table[m] \in Rows
      BY <1>7, <1>8, <2>1
    <2>3. [r EXCEPT !.path = j.new].id = r.id /\ [r EXCEPT !.path = j.new].file = r.file
          /\ [r EXCEPT !.path = j.new].path = j.new
      BY <2>2 DEF Rows
    <2> QED BY <1>8, <2>1, <2>2, <2>3
  <1>10. PICK i : i = j.fi.id
    OBVIOUS
  <1>11. Touches(d, i, table)
    BY <1>5, <1>8, <1>9, <1>10 DEF Touches
  <1>12. /\ Unique(d)' /\ PostsOf(k)' = PostsOf(k) /\ \A p : PostsAt(k, p) => PostsAt(k, p)'
         /\ \A l \in Files : l # k => SameRecords(d, l)
         /\ \A r \in RowsOf(d, k)' :
              \E m \in DOMAIN rows[d] : /\ rows[d][m] \in RowsOf(d, k) /\ rows[d][m].id = i
                                        /\ r = table[m]
    BY <1>2, <1>6, <1>7, <1>10, <1>11, TouchedRecords
  <1>13. n.step = "name" /\ n.op = "rename" /\ n.old = j.old /\ n.new = j.new
    BY <1>2, <1>4 DEF Renaming
  <1>14. RowsPath(d, k, j.new)'
    BY <1>9, <1>10, <1>12 DEF RowsPath
  <1>15. PostsAt(k, j.new)
    BY <1>1, <1>2 DEF WorksOn
  <1>16. WorksOn(d, k, n)'
    BY <1>2, <1>6, <1>12, <1>13, <1>14, <1>15 DEF WorksOn
  <1>17. n # NoJob
    BY <1>13, NoJobIs
  <1>18. PostsOf(k)' # {}
    BY <1>2, <1>12
  <1> QED BY <1>2, <1>5, <1>6, <1>12, <1>13, <1>16, <1>17, <1>18, WorkerNeat

LEMMA FilenameNeat ==
    ASSUME TypeOK, Owned, NEW d \in Devices, Neat(d), NEW w \in Workers, SetFilename(d, w)
    PROVE  Neat(d)'
  <1>1. job[d][w].step \in {"path", "name", "folder"} /\ job[d][w].step = "name"
    BY DEF SetFilename, Manifest
  <1>2. PICK j, k : /\ AtWork(d, w, j, k) /\ j = job[d][w] /\ Renaming(j) /\ j.op = "rename"
                    /\ j.new \in Places /\ j.new[1] \in Folders /\ j.new[2] \in Names
                    /\ k \in Files /\ j.fi.id \in PostsOf(k) /\ home[k] = j.new
                    /\ WorksOn(d, k, j) /\ owner[j.new[2]] = k /\ Of(j.new) = k
    BY <1>1, ManifestIs
  <1>3. PICK table : table = set_filename_for_id(rows[d], j.fi.id, j.new[2])
    OBVIOUS
  <1>4. PICK n : n = [j EXCEPT !.step = "folder"]
    OBVIOUS
  <1>5. /\ Goes(d, w, n) /\ rows' = [rows EXCEPT ![d] = table]
        /\ UNCHANGED <<disk, server, asked, user>>
    BY <1>2, <1>3, <1>4 DEF SetFilename, Manifest, Step
  <1>6. /\ owner' = owner /\ home' = home /\ disk' = disk /\ posts' = posts
        /\ renames' = renames /\ deletes' = deletes /\ pushes' = pushes
    BY <1>5 DEF server, asked, user
  <1>7. rows[d] \in Seq(Rows) /\ Keyed(rows[d]) /\ Unique(d) /\ Alike(rows[d])
    BY RecordsAre DEF Neat, Unique
  <1>8. /\ table \in Seq(Rows) /\ DOMAIN table = DOMAIN rows[d]
        /\ \A m \in DOMAIN rows[d] :
             /\ \/ table[m] = rows[d][m]
                \/ rows[d][m].id = j.fi.id /\ table[m] = [rows[d][m] EXCEPT !.name = j.new[2]]
             /\ rows[d][m].id = j.fi.id => table[m] = [rows[d][m] EXCEPT !.name = j.new[2]]
    BY <1>2, <1>3, <1>7, SetNameIs
  <1>9. ASSUME NEW m \in DOMAIN rows[d]
        PROVE  /\ table[m] \in Rows /\ table[m].id = rows[d][m].id /\ table[m].file = rows[d][m].file
               /\ rows[d][m].id # j.fi.id => table[m] = rows[d][m]
               /\ rows[d][m].id = j.fi.id => table[m].name = j.new[2] /\ table[m].path = rows[d][m].path
    <2>1. PICK r : r = rows[d][m]
      OBVIOUS
    <2>2. r \in Rows /\ table[m] \in Rows
      BY <1>7, <1>8, <2>1
    <2>3. PICK x : x = [r EXCEPT !.name = j.new[2]]
      OBVIOUS
    <2>4. x.id = r.id /\ x.file = r.file /\ x.name = j.new[2] /\ x.path = r.path
      BY <2>2, <2>3 DEF Rows
    <2> QED BY <1>8, <2>1, <2>2, <2>3, <2>4
  <1>10. PICK i : i = j.fi.id
    OBVIOUS
  <1>11. Touches(d, i, table)
    BY <1>5, <1>8, <1>9, <1>10 DEF Touches
  <1>12. /\ Unique(d)' /\ PostsOf(k)' = PostsOf(k) /\ \A p : PostsAt(k, p) => PostsAt(k, p)'
         /\ \A l \in Files : l # k => SameRecords(d, l)
         /\ \A r \in RowsOf(d, k)' :
              \E m \in DOMAIN rows[d] : /\ rows[d][m] \in RowsOf(d, k) /\ rows[d][m].id = i
                                        /\ r = table[m]
    BY <1>2, <1>6, <1>7, <1>10, <1>11, TouchedRecords
  <1>13. n.step = "folder" /\ n.op = "rename" /\ n.old = j.old /\ n.new = j.new
    BY <1>2, <1>4 DEF Renaming
  <1>14. PostsAt(k, j.new) /\ RowsPath(d, k, j.new)
    BY <1>1, <1>2 DEF WorksOn
  <1>15. RowsName(d, k, j.new)' /\ RowsPath(d, k, j.new)'
    BY <1>9, <1>10, <1>12, <1>14 DEF RowsName, RowsPath
  <1>16. WorksOn(d, k, n)'
    BY <1>2, <1>6, <1>12, <1>13, <1>14, <1>15 DEF WorksOn
  <1>17. n # NoJob
    BY <1>13, NoJobIs
  <1>18. PostsOf(k)' # {}
    BY <1>2, <1>12
  <1> QED BY <1>2, <1>5, <1>6, <1>12, <1>13, <1>16, <1>17, <1>18, WorkerNeat

LEMMA ToldIdle ==
    ASSUME NEW d, NEW k, Asks(d, k)' = {}, Dels(d, k)' = {}, Jobs(d, k)' = {},
           \A p \in Pushes(d, k)' : home'[k] = p, Settles(d, k)',
           home'[k] # Nowhere /\ Pushes(d, k)' = {} => PostsOf(k)' # {}
    PROVE  Told(d, k)'
  <1>1. Idle(d, k)'
    BY DEF Idle
  <1>2. IF home'[k] = Nowhere THEN \A i \in PostsOf(k)' : posts'[i].deleted ELSE In(d, k, home[k])'
    BY DEF Settles
  <1> QED BY <1>1, <1>2 DEF Told

\* The rename is done, and a push of the file waits.
LEMMA FolderNeat ==
    ASSUME TypeOK, Owned, NEW d \in Devices, Neat(d), NEW w \in Workers, SetFileFolderPostId(d, w)
    PROVE  Neat(d)'
  <1>1. job[d][w].step \in {"path", "name", "folder"} /\ job[d][w].step = "folder"
    BY DEF SetFileFolderPostId
  <1>2. PICK j, k : /\ AtWork(d, w, j, k) /\ j = job[d][w] /\ Renaming(j) /\ j.op = "rename"
                    /\ j.new \in Places /\ j.new[1] \in Folders /\ j.new[2] \in Names
                    /\ k \in Files /\ j.fi.id \in PostsOf(k) /\ home[k] = j.new
                    /\ WorksOn(d, k, j) /\ owner[j.new[2]] = k /\ Of(j.new) = k
    BY <1>1, ManifestIs
  <1>3. PICK table : table = set_folder_post_id(rows[d], j.fi.id, j.new[1])
    OBVIOUS
  <1>4. rows \in [Devices -> Seq(Rows)] /\ pushes \in [Devices -> SUBSET Places]
    BY TypeIs DEF RowsTyped, AskedTyped
  <1>5. /\ Goes(d, w, NoJob) /\ rows' = [rows EXCEPT ![d] = table]
        /\ UNCHANGED <<disk, server, renames, deletes, user>>
        /\ pushes'[d] = pushes[d] \cup {j.new}
    BY <1>2, <1>3, <1>4 DEF SetFileFolderPostId, End
  <1>6. /\ owner' = owner /\ home' = home /\ disk' = disk /\ posts' = posts
        /\ renames' = renames /\ deletes' = deletes
    BY <1>5 DEF server, user
  <1>7. rows[d] \in Seq(Rows) /\ Keyed(rows[d]) /\ Unique(d) /\ Alike(rows[d])
    BY RecordsAre DEF Neat, Unique
  <1>8. /\ table \in Seq(Rows) /\ DOMAIN table = DOMAIN rows[d]
        /\ \A m \in DOMAIN rows[d] :
             /\ \/ table[m] = rows[d][m]
                \/ rows[d][m].id = j.fi.id /\ table[m] = [rows[d][m] EXCEPT !.folder = j.new[1]]
             /\ rows[d][m].id = j.fi.id => table[m] = [rows[d][m] EXCEPT !.folder = j.new[1]]
    BY <1>2, <1>3, <1>7, SetFolderIs
  <1>9. ASSUME NEW m \in DOMAIN rows[d]
        PROVE  /\ table[m] \in Rows /\ table[m].id = rows[d][m].id /\ table[m].file = rows[d][m].file
               /\ rows[d][m].id # j.fi.id => table[m] = rows[d][m]
               /\ rows[d][m].id = j.fi.id => /\ table[m].folder = j.new[1]
                                             /\ table[m].name = rows[d][m].name
                                             /\ table[m].path = rows[d][m].path
    <2>1. PICK r : r = rows[d][m]
      OBVIOUS
    <2>2. r \in Rows /\ table[m] \in Rows
      BY <1>7, <1>8, <2>1
    <2>3. PICK x : x = [r EXCEPT !.folder = j.new[1]]
      OBVIOUS
    <2>4. x.id = r.id /\ x.file = r.file /\ x.folder = j.new[1] /\ x.path = r.path /\ x.name = r.name
      BY <2>2, <2>3 DEF Rows
    <2> QED BY <1>8, <2>1, <2>2, <2>3, <2>4
  <1>10. PICK i : i = j.fi.id
    OBVIOUS
  <1>11. Touches(d, i, table)
    BY <1>5, <1>8, <1>9, <1>10 DEF Touches
  <1>12. /\ Unique(d)' /\ PostsOf(k)' = PostsOf(k) /\ \A p : PostsAt(k, p) => PostsAt(k, p)'
         /\ \A l \in Files : l # k => SameRecords(d, l)
         /\ \A r \in RowsOf(d, k)' :
              \E m \in DOMAIN rows[d] : /\ rows[d][m] \in RowsOf(d, k) /\ rows[d][m].id = i
                                        /\ r = table[m]
    BY <1>2, <1>6, <1>7, <1>10, <1>11, TouchedRecords
  <1>13. PostsAt(k, j.new) /\ RowsPath(d, k, j.new) /\ RowsName(d, k, j.new)
    BY <1>1, <1>2 DEF WorksOn
  <1>14. RowsName(d, k, j.new)' /\ RowsPath(d, k, j.new)' /\ RowsFolder(d, k, j.new)'
    BY <1>9, <1>10, <1>12, <1>13 DEF RowsName, RowsPath, RowsFolder
  <1>15. In(d, k, j.new)'
    BY <1>12, <1>13, <1>14 DEF In, RowsAt
  <1>16. Jobs(d, k) = {w} /\ Of(j.old) = k /\ Asks(d, k) = {} /\ Dels(d, k) = {} /\ Pushes(d, k) = {}
    BY <1>2 DEF AtWork
  <1>17. /\ Jobs(d, k)' = {}
         /\ \A l : l # k => Jobs(d, l)' = Jobs(d, l) /\ \A v \in Jobs(d, l) : job'[d][v] = job[d][v]
    BY <1>2, <1>5, <1>6, <1>16, GoesOnIs
  <1>18. \A l : Asks(d, l)' = Asks(d, l) /\ Dels(d, l)' = Dels(d, l)
    BY <1>6, TasksStay
  <1>19. \A l : l # k => Pushes(d, l)' = Pushes(d, l)
    BY <1>2, <1>5, <1>6 DEF Pushes, Of
  <1>20. \A p \in Pushes(d, k)' : p = j.new
    BY <1>5, <1>6, <1>16 DEF Pushes, Of
  <1>21. Told(d, k)'
    <2>1. home'[k] = j.new
      BY <1>2, <1>6
    <2>2. Settles(d, k)'
      <3>1. j.new # Nowhere
        BY <1>2, PlaceIs
      <3> QED BY <1>15, <2>1, <3>1 DEF Settles
    <2>3. PostsOf(k)' # {}
      BY <1>2, <1>12
    <2> QED BY <1>16, <1>17, <1>18, <1>20, <2>1, <2>2, <2>3, ToldIdle
  <1>22. \A l \in Files : l # k => Same(d, l)
    BY <1>6, <1>12, <1>17, <1>18, <1>19 DEF Same, SameTasks
  <1>23. Filed(d)'
    <2>1. \A p \in pushes'[d] : p \in pushes[d] \/ Of(p) \in Files
      BY <1>2, <1>5
    <2>2. NoJob.op # "delete"
      BY NoJobIs
    <2> QED BY <1>5, <1>6, <2>1, <2>2, FiledGoes DEF Neat
  <1> QED BY <1>2, <1>12, <1>21, <1>22, <1>23, OneFile

LEMMA TailIs ==
    ASSUME NEW S, NEW s \in Seq(S), s # << >>
    PROVE  /\ 1 \in DOMAIN s /\ Head(s) = s[1] /\ Head(s) \in S
           /\ \A i \in DOMAIN Tail(s) : i + 1 \in DOMAIN s /\ i + 1 # 1 /\ Tail(s)[i] = s[i + 1]
           /\ \A i \in DOMAIN s : i # 1 => \E m \in DOMAIN Tail(s) : i = m + 1 /\ Tail(s)[m] = s[i]
           /\ \A i, m \in DOMAIN Tail(s) : i + 1 = m + 1 => i = m
  <1>1. Len(s) \in Nat /\ Len(s) > 0 /\ DOMAIN s = 1 .. Len(s)
    OBVIOUS
  <1>2. /\ 1 \in DOMAIN s /\ Head(s) = s[1] /\ DOMAIN Tail(s) = 1 .. Len(s) - 1
        /\ \A i \in 1 .. Len(s) - 1 : Tail(s)[i] = s[i + 1]
    BY <1>1
  <1>3. \A i \in DOMAIN Tail(s) : i + 1 \in DOMAIN s /\ i + 1 # 1 /\ Tail(s)[i] = s[i + 1]
    BY <1>1, <1>2
  <1>4. ASSUME NEW i \in DOMAIN s, i # 1
        PROVE  \E m \in DOMAIN Tail(s) : i = m + 1 /\ Tail(s)[m] = s[i]
    <2>1. i - 1 \in 1 .. Len(s) - 1 /\ i = (i - 1) + 1
      BY <1>1, <1>4
    <2>2. Tail(s)[i - 1] = s[(i - 1) + 1]
      BY <1>2, <2>1
    <2> QED BY <1>2, <2>1, <2>2
  <1>5. \A i, m \in DOMAIN Tail(s) : i + 1 = m + 1 => i = m
    BY <1>1, <1>2
  <1>6. Head(s) \in S
    BY <1>2
  <1> QED BY <1>2, <1>3, <1>4, <1>5, <1>6

\* The first of the renames that wait is taken.
LEMMA AsksTaken ==
    ASSUME TypeOK, NEW d \in Devices, Unique(d), renames[d] # << >>, NEW a, a = Head(renames[d]),
           NEW k, k = Of(a.old), renames'[d] = Tail(renames[d]), owner' = owner
    PROVE  /\ a \in Asks(d, k) /\ Asks(d, k)' = {} /\ \A l : l # k => Asks(d, l)' = Asks(d, l)
           /\ \A m, n \in DOMAIN renames'[d] :
                Of(renames'[d][m].old) = Of(renames'[d][n].old) => m = n
  <1>1. renames[d] \in Seq(Moves)
    BY TypeIs DEF AskedTyped
  <1>2. PICK s : s = renames[d]
    OBVIOUS
  <1>3. PICK t : t = Tail(s)
    OBVIOUS
  <1>4. /\ 1 \in DOMAIN s /\ a = s[1] /\ a \in Moves
        /\ \A i \in DOMAIN t : i + 1 \in DOMAIN s /\ i + 1 # 1 /\ t[i] = s[i + 1]
        /\ \A i \in DOMAIN s : i # 1 => \E m \in DOMAIN t : i = m + 1 /\ t[m] = s[i]
        /\ \A i, m \in DOMAIN t : i + 1 = m + 1 => i = m
    BY <1>1, <1>2, <1>3, TailIs
  <1>5. \A i, m \in DOMAIN s : Of(s[i].old) = Of(s[m].old) => i = m
    BY <1>2 DEF Unique
  <1>6. renames'[d] = t
    BY <1>2, <1>3
  <1>7. \A l : /\ Asks(d, l) = {m \in Moves : Of(m.old) = l /\ \E i \in DOMAIN s : s[i] = m}
               /\ Asks(d, l)' = {m \in Moves : Of(m.old) = l /\ \E i \in DOMAIN t : t[i] = m}
    BY <1>2, <1>6 DEF Asks, Of
  <1>8. a \in Asks(d, k)
    BY <1>4, <1>7
  <1>9. Asks(d, k)' = {}
    <2> SUFFICES ASSUME NEW m \in Asks(d, k)' PROVE FALSE
      OBVIOUS
    <2>1. PICK i \in DOMAIN t : t[i] = m
      BY <1>7
    <2>2. Of(m.old) = k
      BY <1>7
    <2>3. i + 1 \in DOMAIN s /\ i + 1 # 1 /\ s[i + 1] = m
      BY <1>4, <2>1
    <2> QED BY <1>4, <1>5, <2>2, <2>3
  <1>10. ASSUME NEW l, l # k PROVE Asks(d, l)' = Asks(d, l)
    <2>1. ASSUME NEW m \in Asks(d, l)' PROVE m \in Asks(d, l)
      <3>1. PICK i \in DOMAIN t : t[i] = m
        BY <1>7
      <3>2. i + 1 \in DOMAIN s /\ s[i + 1] = m
        BY <1>4, <3>1
      <3> QED BY <1>7, <3>2
    <2>2. ASSUME NEW m \in Asks(d, l) PROVE m \in Asks(d, l)'
      <3>1. PICK i \in DOMAIN s : s[i] = m
        BY <1>7
      <3>2. i # 1
        BY <1>4, <1>7, <1>10, <3>1
      <3> QED BY <1>4, <1>7, <3>1, <3>2
    <2> QED BY <2>1, <2>2
  <1>11. \A m, n \in DOMAIN t : Of(t[m].old) = Of(t[n].old) => m = n
    BY <1>4, <1>5
  <1> QED BY <1>6, <1>8, <1>9, <1>10, <1>11

LEMMA DelsTaken ==
    ASSUME TypeOK, NEW d \in Devices, Unique(d), deletes[d] # << >>, NEW p, p = Head(deletes[d]),
           NEW k, k = Of(p), deletes'[d] = Tail(deletes[d]), owner' = owner
    PROVE  /\ p \in Dels(d, k) /\ Dels(d, k)' = {} /\ \A l : l # k => Dels(d, l)' = Dels(d, l)
           /\ \A m, n \in DOMAIN deletes'[d] :
                Of(deletes'[d][m]) = Of(deletes'[d][n]) => m = n
  <1>1. deletes[d] \in Seq(Places)
    BY TypeIs DEF AskedTyped
  <1>2. PICK s : s = deletes[d]
    OBVIOUS
  <1>3. PICK t : t = Tail(s)
    OBVIOUS
  <1>4. /\ 1 \in DOMAIN s /\ p = s[1] /\ p \in Places
        /\ \A i \in DOMAIN t : i + 1 \in DOMAIN s /\ i + 1 # 1 /\ t[i] = s[i + 1]
        /\ \A i \in DOMAIN s : i # 1 => \E m \in DOMAIN t : i = m + 1 /\ t[m] = s[i]
        /\ \A i, m \in DOMAIN t : i + 1 = m + 1 => i = m
    BY <1>1, <1>2, <1>3, TailIs
  <1>5. \A i, m \in DOMAIN s : Of(s[i]) = Of(s[m]) => i = m
    BY <1>2 DEF Unique
  <1>6. deletes'[d] = t
    BY <1>2, <1>3
  <1>7. \A l : /\ Dels(d, l) = {m \in Places : Of(m) = l /\ \E i \in DOMAIN s : s[i] = m}
               /\ Dels(d, l)' = {m \in Places : Of(m) = l /\ \E i \in DOMAIN t : t[i] = m}
    BY <1>2, <1>6 DEF Dels, Of
  <1>8. p \in Dels(d, k)
    BY <1>4, <1>7
  <1>9. Dels(d, k)' = {}
    <2> SUFFICES ASSUME NEW m \in Dels(d, k)' PROVE FALSE
      OBVIOUS
    <2>1. PICK i \in DOMAIN t : t[i] = m
      BY <1>7
    <2>2. Of(m) = k
      BY <1>7
    <2>3. i + 1 \in DOMAIN s /\ i + 1 # 1 /\ s[i + 1] = m
      BY <1>4, <2>1
    <2> QED BY <1>4, <1>5, <2>2, <2>3
  <1>10. ASSUME NEW l, l # k PROVE Dels(d, l)' = Dels(d, l)
    <2>1. ASSUME NEW m \in Dels(d, l)' PROVE m \in Dels(d, l)
      <3>1. PICK i \in DOMAIN t : t[i] = m
        BY <1>7
      <3>2. i + 1 \in DOMAIN s /\ s[i + 1] = m
        BY <1>4, <3>1
      <3> QED BY <1>7, <3>2
    <2>2. ASSUME NEW m \in Dels(d, l) PROVE m \in Dels(d, l)'
      <3>1. PICK i \in DOMAIN s : s[i] = m
        BY <1>7
      <3>2. i # 1
        BY <1>4, <1>7, <1>10, <3>1
      <3> QED BY <1>4, <1>7, <3>1, <3>2
    <2> QED BY <2>1, <2>2
  <1>11. \A m, n \in DOMAIN t : Of(t[m]) = Of(t[n]) => m = n
    BY <1>4, <1>5
  <1> QED BY <1>6, <1>8, <1>9, <1>10, <1>11

LEMMA DelsLeft ==
    ASSUME TypeOK, NEW d \in Devices, deletes[d] # << >>, deletes'[d] = Tail(deletes[d])
    PROVE  \A i \in DOMAIN deletes'[d] : \E m \in DOMAIN deletes[d] : deletes'[d][i] = deletes[d][m]
  <1>1. deletes[d] \in Seq(Places)
    BY TypeIs DEF AskedTyped
  <1>2. PICK s : s = deletes[d]
    OBVIOUS
  <1>3. PICK t : t = Tail(s)
    OBVIOUS
  <1>4. \A i \in DOMAIN t : i + 1 \in DOMAIN s /\ t[i] = s[i + 1]
    BY <1>1, <1>2, <1>3, TailIs
  <1> QED BY <1>2, <1>3, <1>4

\* A file all of whose rows are of a path is in the manifest there.
LEMMA InManifest ==
    ASSUME TypeOK, Owned, NEW d \in Devices, Unique(d), NEW k \in Files, PostsOf(k) # {},
           NEW p, RowsPath(d, k, p), Of(p) = k, NEW fi, fi = QueryForFile(rows[d], p)
    PROVE  fi \in RowsOf(d, k) /\ fi # NoRow /\ fi.file = k /\ fi.id \in PostsOf(k)
  <1>1. PICK r : r \in RowsOf(d, k)
    BY OnePost
  <1>2. Holds(rows[d], r) /\ r.path = p
    BY <1>1 DEF RowsPath, RowsOf
  <1>3. rows[d] \in Seq(Rows)
    BY RecordsAre
  <1>4. Holds(rows[d], fi) /\ fi \in Rows /\ fi.path = p
    BY <1>2, <1>3, QueryIs
  <1>5. fi.file = k
    BY <1>4, RecordsAre
  <1>6. fi \in RowsOf(d, k)
    BY <1>4, <1>5 DEF RowsOf
  <1>7. fi # NoRow
    BY <1>4, NoRowIs
  <1> QED BY <1>5, <1>6, <1>7, OnePost

LEMMA BeginRenameNeat ==
    ASSUME TypeOK, Owned, NEW d \in Devices, Neat(d), NEW w \in Workers, BeginRename(d, w)
    PROVE  Neat(d)'
  <1>1. PICK a : a = Head(renames[d])
    OBVIOUS
  <1>2. PICK k : k = Of(a.old)
    OBVIOUS
  <1>3. renames \in [Devices -> Seq(Moves)] /\ renames[d] # << >> /\ job[d][w] = NoJob
    BY TypeIs DEF AskedTyped, BeginRename
  <1>4. /\ renames'[d] = Tail(renames[d]) /\ UNCHANGED <<disk, rows, server, deletes, user>>
    BY <1>3 DEF BeginRename
  <1>5. /\ owner' = owner /\ home' = home /\ disk' = disk /\ posts' = posts /\ rows' = rows
        /\ deletes' = deletes
    BY <1>4 DEF server, user
  <1>6. Unique(d) /\ Filed(d)
    BY DEF Neat
  <1>7. /\ a \in Asks(d, k) /\ Asks(d, k)' = {} /\ \A l : l # k => Asks(d, l)' = Asks(d, l)
        /\ \A m, n \in DOMAIN renames'[d] : Of(renames'[d][m].old) = Of(renames'[d][n].old) => m = n
    BY <1>1, <1>2, <1>3, <1>4, <1>5, <1>6, AsksTaken
  <1>8. a \in Moves /\ k \in Files
    <2>1. a \in Moves /\ \E i \in DOMAIN renames[d] : renames[d][i] = a
      BY <1>7 DEF Asks
    <2> QED BY <1>2, <2>1 DEF Owned, MovesOwned, Of
  <1>9. Told(d, k)
    BY <1>8 DEF Neat
  <1>10. /\ Dels(d, k) = {} /\ Jobs(d, k) = {} /\ Pushes(d, k) = {} /\ PostsOf(k) # {}
         /\ home[k] = a.new /\ In(d, k, a.old)
    BY <1>7, <1>9 DEF Told, Idle
  <1>11. QueryForFile(rows[d], a.old) # NoRow
    <2>1. RowsPath(d, k, a.old)
      BY <1>10 DEF In, RowsAt
    <2>2. PICK fi : fi = QueryForFile(rows[d], a.old)
      OBVIOUS
    <2>3. fi # NoRow
      BY <1>2, <1>6, <1>8, <1>10, <2>1, <2>2, InManifest
    <2> QED BY <2>2, <2>3
  <1>12. PICK n : n = [NoJob EXCEPT !.op = "rename", !.step = "look", !.old = a.old, !.new = a.new]
    OBVIOUS
  <1>13. Goes(d, w, n) /\ pushes' = pushes
    BY <1>1, <1>11, <1>12 DEF BeginRename, IsFileInManifest
  <1>14. n.op = "rename" /\ n.step = "look" /\ n.old = a.old /\ n.new = a.new
    BY <1>12 DEF NoJob
  <1>15. n # NoJob
    BY <1>14, NoJobIs
  <1>16. /\ Jobs(d, k)' = {w} /\ job'[d][w] = n
         /\ \A l : l # k => Jobs(d, l)' = Jobs(d, l) /\ \A v \in Jobs(d, l) : job'[d][v] = job[d][v]
    <2>1. n = NoJob \/ Of(n.old) = k
      BY <1>2, <1>14
    <2>2. Jobs(d, k) \subseteq {w} /\ (job[d][w] = NoJob \/ Of(job[d][w].old) = k)
      BY <1>3, <1>10
    <2> QED BY <1>5, <1>13, <1>15, <2>1, <2>2, GoesOnIs
  <1>17. \A l : Dels(d, l)' = Dels(d, l) /\ Pushes(d, l)' = Pushes(d, l)
    BY <1>5, <1>13, TasksStay
  <1>18. \A l : SameRecords(d, l)
    BY <1>5, RecordsStay
  <1>19. Told(d, k)'
    <2>1. In(d, k, a.old)' /\ PostsOf(k)' # {}
      BY <1>10, <1>18, SameIn DEF SameRecords
    <2>2. WorksOn(d, k, n)'
      BY <1>5, <1>10, <1>14, <2>1 DEF WorksOn
    <2> QED BY <1>7, <1>10, <1>16, <1>17, <2>1, <2>2, ToldAtWork
  <1>20. \A l \in Files : l # k => Same(d, l)
    BY <1>5, <1>7, <1>16, <1>17, <1>18 DEF Same, SameTasks
  <1>21. Unique(d)'
    <2>1. /\ Alike(rows[d]) /\ \A i \in DOMAIN posts : \E m \in DOMAIN rows[d] : rows[d][m].id = i
          /\ \A i, j \in DOMAIN posts : posts[i].file = posts[j].file => i = j
          /\ \A i, j \in DOMAIN deletes[d] : Of(deletes[d][i]) = Of(deletes[d][j]) => i = j
      BY <1>6 DEF Unique
    <2> QED BY <1>5, <1>7, <2>1 DEF Unique, Of, Alike
  <1>22. Filed(d)'
    <2>1. Of(n.old) \in Files /\ n.op # "delete"
      BY <1>2, <1>8, <1>14
    <2> QED BY <1>5, <1>6, <1>13, <2>1, FiledGoes
  <1> QED BY <1>8, <1>19, <1>20, <1>21, <1>22, OneFile

LEMMA BeginDeleteNeat ==
    ASSUME TypeOK, Owned, NEW d \in Devices, Neat(d), NEW w \in Workers, BeginDelete(d, w)
    PROVE  Neat(d)'
  <1>1. PICK p : p = Head(deletes[d])
    OBVIOUS
  <1>2. PICK k : k = Of(p)
    OBVIOUS
  <1>3. /\ deletes \in [Devices -> Seq(Places)] /\ rows \in [Devices -> Seq(Rows)]
        /\ deletes[d] # << >> /\ job[d][w] = NoJob
    BY TypeIs DEF AskedTyped, BeginDelete, RowsTyped
  <1>4. /\ deletes'[d] = Tail(deletes[d]) /\ UNCHANGED <<disk, server, renames, pushes, user>>
    BY <1>3 DEF BeginDelete
  <1>5. /\ owner' = owner /\ home' = home /\ disk' = disk /\ posts' = posts
        /\ renames' = renames /\ pushes' = pushes
    BY <1>4 DEF server, user
  <1>6. Unique(d) /\ Filed(d)
    BY DEF Neat
  <1>7. /\ p \in Dels(d, k) /\ Dels(d, k)' = {} /\ \A l : l # k => Dels(d, l)' = Dels(d, l)
        /\ \A m, n \in DOMAIN deletes'[d] : Of(deletes'[d][m]) = Of(deletes'[d][n]) => m = n
    BY <1>1, <1>2, <1>3, <1>4, <1>5, <1>6, DelsTaken
  <1>8. \A i \in DOMAIN deletes'[d] : \E m \in DOMAIN deletes[d] : deletes'[d][i] = deletes[d][m]
    BY <1>3, <1>4, DelsLeft
  <1>9. p \in Places /\ k \in Files
    <2>1. p \in Places /\ \E i \in DOMAIN deletes[d] : deletes[d][i] = p
      BY <1>7 DEF Dels
    <2> QED BY <1>2, <1>6, <2>1 DEF Filed
  <1>10. Told(d, k)
    BY <1>9 DEF Neat
  <1>11. /\ Asks(d, k) = {} /\ Jobs(d, k) = {} /\ Pushes(d, k) = {} /\ PostsOf(k) # {}
         /\ home[k] = Nowhere /\ RowsPath(d, k, p)
    BY <1>7, <1>10 DEF Told, Idle
  <1>12. PICK fi : fi = QueryForFile(rows[d], p)
    OBVIOUS
  <1>13. fi \in RowsOf(d, k) /\ fi # NoRow /\ fi.file = k /\ fi.id \in PostsOf(k)
    BY <1>2, <1>6, <1>9, <1>11, <1>12, InManifest
  <1>14. PICK n : n = [NoJob EXCEPT !.op = "delete", !.step = "get", !.old = p, !.fi = fi]
    OBVIOUS
  <1>15. PICK table : table = set_file_deleted_for_id(rows[d], fi.id)
    OBVIOUS
  <1>16. Goes(d, w, n) /\ rows' = [rows EXCEPT ![d] = table]
    BY <1>1, <1>3, <1>12, <1>13, <1>14, <1>15 DEF BeginDelete
  <1>17. n.op = "delete" /\ n.old = p /\ n.fi = fi
    BY <1>14 DEF NoJob
  <1>18. n # NoJob
    BY <1>17, NoJobIs
  <1>19. rows[d] \in Seq(Rows) /\ Keyed(rows[d]) /\ Alike(rows[d])
    BY <1>6, RecordsAre DEF Unique
  <1>20. /\ table \in Seq(Rows) /\ DOMAIN table = DOMAIN rows[d]
         /\ \A m \in DOMAIN rows[d] :
              \/ table[m] = rows[d][m]
              \/ rows[d][m].id = fi.id /\ table[m] = [rows[d][m] EXCEPT !.deleted = TRUE]
    BY <1>15, <1>19, SetDeletedIs
  <1>21. ASSUME NEW m \in DOMAIN rows[d]
         PROVE  /\ table[m] \in Rows /\ table[m].id = rows[d][m].id /\ table[m].file = rows[d][m].file
                /\ rows[d][m].id # fi.id => table[m] = rows[d][m]
    <2>1. PICK r : r = rows[d][m]
      OBVIOUS
    <2>2. r \in Rows /\ table[m] \in Rows
      BY <1>19, <1>20, <2>1
    <2>3. PICK x : x = [r EXCEPT !.deleted = TRUE]
      OBVIOUS
    <2>4. x.id = r.id /\ x.file = r.file
      BY <2>2, <2>3 DEF Rows
    <2> QED BY <1>20, <2>1, <2>2, <2>3, <2>4
  <1>22. PICK i : i = fi.id
    OBVIOUS
  <1>23. Touches(d, i, table)
    BY <1>16, <1>20, <1>21, <1>22 DEF Touches
  <1>24. PostsOf(k)' = PostsOf(k) /\ \A l \in Files : l # k => SameRecords(d, l)
    BY <1>5, <1>6, <1>9, <1>13, <1>22, <1>23, TouchedRecords
  <1>25. /\ Jobs(d, k)' = {w} /\ job'[d][w] = n
         /\ \A l : l # k => Jobs(d, l)' = Jobs(d, l) /\ \A v \in Jobs(d, l) : job'[d][v] = job[d][v]
    <2>1. n = NoJob \/ Of(n.old) = k
      BY <1>2, <1>17
    <2>2. Jobs(d, k) \subseteq {w} /\ (job[d][w] = NoJob \/ Of(job[d][w].old) = k)
      BY <1>3, <1>11
    <2> QED BY <1>5, <1>16, <1>18, <2>1, <2>2, GoesOnIs
  <1>26. \A l : Asks(d, l)' = Asks(d, l) /\ Pushes(d, l)' = Pushes(d, l)
    BY <1>5, TasksStay
  <1>27. Told(d, k)'
    <2>1. WorksOn(d, k, n)'
      BY <1>5, <1>11, <1>17 DEF WorksOn
    <2>2. /\ Jobs(d, k)' = {w} /\ Asks(d, k)' = {} /\ Dels(d, k)' = {} /\ Pushes(d, k)' = {}
          /\ PostsOf(k)' # {} /\ WorksOn(d, k, job[d][w])'
      BY <1>7, <1>11, <1>24, <1>25, <1>26, <2>1
    <2> QED BY <2>2, ToldAtWork
  <1>28. \A l \in Files : l # k => Same(d, l)
    BY <1>5, <1>7, <1>24, <1>25, <1>26 DEF Same, SameTasks
  <1>29. Unique(d)'
    <2>1. rows'[d] = table
      BY <1>3, <1>16
    <2>2. Alike(table)
      BY <1>19, <1>20, <1>21 DEF Alike
    <2>3. /\ \A m \in DOMAIN posts : \E q \in DOMAIN rows[d] : rows[d][q].id = m
          /\ \A m, q \in DOMAIN posts : posts[m].file = posts[q].file => m = q
          /\ \A m, q \in DOMAIN renames[d] : Of(renames[d][m].old) = Of(renames[d][q].old) => m = q
      BY <1>6 DEF Unique
    <2>4. \A m \in DOMAIN posts : \E q \in DOMAIN table : table[q].id = m
      BY <1>20, <1>21, <2>3
    <2> QED BY <1>5, <1>7, <2>1, <2>2, <2>3, <2>4 DEF Unique, Of, Alike
  <1>30. Filed(d)'
    <2>1. Of(n.old) \in Files /\ n.fi.file = Of(n.old)
      BY <1>2, <1>9, <1>13, <1>17
    <2> QED BY <1>5, <1>6, <1>8, <1>16, <2>1, FiledGoes
  <1> QED BY <1>9, <1>27, <1>28, <1>29, <1>30, OneFile

\* A push finds the row of its file, or makes the first row and post of it.
LEMMA PushNeat ==
    ASSUME TypeOK, Owned, NEW d \in Devices, Neat(d), NEW p \in Places, PushFile(d, p)
    PROVE  Neat(d)'
  <1>1. pushes \in [Devices -> SUBSET Places] /\ rows \in [Devices -> Seq(Rows)]
    BY TypeIs DEF AskedTyped, RowsTyped
  <1>2. /\ UNCHANGED <<disk, renames, deletes, job, user>>
        /\ p \in pushes[d] /\ pushes'[d] = pushes[d] \ {p}
    BY <1>1 DEF PushFile
  <1>3. /\ owner' = owner /\ home' = home /\ disk' = disk /\ job' = job
        /\ renames' = renames /\ deletes' = deletes
    BY <1>2 DEF user
  <1>4. PICK k : k = Of(p)
    OBVIOUS
  <1>5. Unique(d) /\ Filed(d) /\ k \in Files
    BY <1>2, <1>4 DEF Neat, Filed
  <1>6. Told(d, k) /\ p \in Pushes(d, k)
    BY <1>2, <1>4, <1>5 DEF Neat, Pushes
  <1>7. /\ Asks(d, k) = {} /\ Dels(d, k) = {} /\ Jobs(d, k) = {}
        /\ home[k] = p /\ p # Nowhere /\ \A x \in Pushes(d, k) : x = p
    BY <1>6, PlaceIs DEF Told
  <1>8. In(d, k, p)
    BY <1>6, <1>7 DEF Told, Idle
  <1>9. disk[d][p] = k /\ k # None
    BY <1>5, <1>7, FilesAre DEF Filed
  <1>10. \A l : /\ Asks(d, l)' = Asks(d, l) /\ Dels(d, l)' = Dels(d, l)
                /\ Jobs(d, l)' = Jobs(d, l) /\ \A v \in Jobs(d, l) : job'[d][v] = job[d][v]
    BY <1>3, TasksStay DEF Jobs, Of
  <1>11. Pushes(d, k)' = {} /\ \A l : l # k => Pushes(d, l)' = Pushes(d, l)
    BY <1>2, <1>3, <1>4, <1>7 DEF Pushes, Of
  <1>12. Filed(d)'
    <2>1. /\ \A i \in DOMAIN deletes[d] : Of(deletes[d][i]) \in Files
          /\ \A x \in pushes[d] : Of(x) \in Files
          /\ \A w \in Workers : job[d][w] # NoJob => Of(job[d][w].old) \in Files
          /\ \A w \in Workers : job[d][w].op = "delete" => job[d][w].fi.file = Of(job[d][w].old)
          /\ \A l \in Files : home[l] # Nowhere => disk[d][home[l]] = l
      BY <1>5 DEF Filed
    <2>2. \A x \in pushes'[d] : x \in pushes[d]
      BY <1>2
    <2> QED BY <1>3, <2>1, <2>2 DEF Filed, Of
  <1>13. ASSUME In(d, k, p)', PostsOf(k)' # {} PROVE Told(d, k)'
    <2>1. home'[k] = p /\ Settles(d, k)'
      BY <1>3, <1>7, <1>13 DEF Settles
    <2> QED BY <1>7, <1>10, <1>11, <1>13, <2>1, ToldIdle
  <1>14. ASSUME \A l \in Files : l # k => SameRecords(d, l) PROVE \A l \in Files : l # k => Same(d, l)
    BY <1>3, <1>10, <1>11, <1>14 DEF Same, SameTasks
  <1>15. CASE UNCHANGED <<rows, server>> /\ \E x : Holds(rows[d], x) /\ x.path = p /\ x.file = disk[d][p]
    <2>1. rows' = rows /\ posts' = posts
      BY <1>15 DEF server
    <2>2. \A l : SameRecords(d, l)
      BY <2>1, RecordsStay
    <2>3. PICK x : Holds(rows[d], x) /\ x.file = k
      BY <1>9, <1>15
    <2>4. x.id \in PostsOf(k)
      BY <2>3, RecordsAre DEF PostsOf
    <2>5. In(d, k, p)' /\ PostsOf(k)' # {}
      BY <1>8, <2>2, <2>4, SameIn DEF SameRecords
    <2>6. Unique(d)'
      BY <1>3, <1>5, <2>1, UniqueStays
    <2> QED BY <1>5, <1>12, <1>13, <1>14, <2>2, <2>5, <2>6, OneFile
  <1>16. ASSUME NEW c, NEW m, NEW r, Posted(d, p, c, m, r) PROVE Neat(d)'
    <2>1. /\ c = k /\ m \notin DOMAIN posts /\ \A x : Holds(rows[d], x) => x.path # p
          /\ r \in Rows /\ r.id = m /\ r.file = k /\ r.name = p[2] /\ r.folder = p[1] /\ r.path = p
          /\ rows' = [rows EXCEPT ![d] = InsertFileInfo(@, r)]
          /\ DOMAIN posts' = DOMAIN posts \cup {m} /\ posts'[m] = Post(r, FALSE)
          /\ \A i \in DOMAIN posts : posts'[i] = posts[i]
      BY <1>4, <1>16 DEF Posted, Of
    <2>2. PICK table : table = InsertFileInfo(rows[d], r)
      OBVIOUS
    <2>3. rows[d] \in Seq(Rows) /\ Keyed(rows[d])
      BY RecordsAre
    <2>4. /\ Keyed(table) /\ Holds(table, r)
          /\ \A x : Holds(table, x) => x = r \/ Holds(rows[d], x)
          /\ \A x : Holds(rows[d], x) => Holds(table, x) \/ Key(x) = Key(r)
      BY <2>1, <2>2, <2>3, InsertIs
    <2>5. rows'[d] = table
      BY <1>1, <2>1, <2>2
    <2>6. \A x : Key(x) = Key(r) => x.path = r.path
      BY DEF Key
    <2>7. \A x : Holds(table, x) <=> x = r \/ Holds(rows[d], x)
      BY <2>1, <2>4, <2>6
    <2>8. RowsOf(d, k) = {}
      BY <1>8, <2>1 DEF In, RowsAt, RowsPath, RowsOf
    <2>9. PostsOf(k) = {}
      BY <1>5, <2>8, OnePost
    <2>10. /\ Post(r, FALSE).file = k /\ Post(r, FALSE).name = p[2] /\ Post(r, FALSE).folder = p[1]
           /\ ~Post(r, FALSE).deleted
      BY <2>1, PostIs
    <2>18. /\ m \in DOMAIN posts' /\ m \notin DOMAIN posts /\ posts'[m].file = k
           /\ \A i \in DOMAIN posts' : i = m \/ i \in DOMAIN posts
           /\ \A i \in DOMAIN posts : i \in DOMAIN posts' /\ posts'[i] = posts[i]
      BY <2>1, <2>10
    <2>11. PostsOf(k)' = {m} /\ \A l : l # k => PostsOf(l)' = PostsOf(l)
      <3>1. \A l, i : i \in PostsOf(l)' <=> i \in DOMAIN posts' /\ posts'[i].file = l
        BY DEF PostsOf
      <3>2. \A l, i : i \in PostsOf(l) <=> i \in DOMAIN posts /\ posts[i].file = l
        BY DEF PostsOf
      <3>3. PostsOf(k)' = {m}
        BY <2>9, <2>18, <3>1, <3>2
      <3>4. ASSUME NEW l, l # k PROVE PostsOf(l)' = PostsOf(l)
        BY <2>18, <3>1, <3>2, <3>4
      <3> QED BY <3>3, <3>4
    <2>12. RowsOf(d, k)' = {r} /\ \A l : l # k => RowsOf(d, l)' = RowsOf(d, l)
      BY <2>1, <2>5, <2>7, <2>8 DEF RowsOf
    <2>13. \A l \in Files : l # k => SameRecords(d, l)
      BY <2>1, <2>11, <2>12 DEF SameRecords, PostsOf
    <2>14. p = <<p[1], p[2]>>
      BY PlaceIs
    <2>15. In(d, k, p)'
      BY <2>1, <2>10, <2>11, <2>12, <2>14 DEF In, RowsAt, RowsPath, RowsName, RowsFolder, PostsAt, At
    <2>16. Unique(d)'
      <3>1. \A x : Holds(rows[d], x) => x.id \in DOMAIN posts
        BY RecordsAre
      <3>2. ASSUME NEW i \in DOMAIN table, NEW j \in DOMAIN table, table[i].id = table[j].id PROVE i = j
        <4>1. PICK x, y : x = table[i] /\ y = table[j]
          OBVIOUS
        <4>2. Holds(table, x) /\ Holds(table, y) /\ x.id = y.id
          BY <3>2, <4>1 DEF Holds
        <4>3. CASE x = r \/ y = r
          BY <2>1, <2>4, <2>7, <3>1, <4>1, <4>2, <4>3 DEF Keyed
        <4>4. CASE Holds(rows[d], x) /\ Holds(rows[d], y)
          <5>1. PICK a \in DOMAIN rows[d], b \in DOMAIN rows[d] : rows[d][a] = x /\ rows[d][b] = y
            BY <4>4 DEF Holds
          <5>2. a = b
            BY <1>5, <4>2, <5>1 DEF Unique, Alike
          <5>3. Key(table[i]) = Key(table[j])
            BY <4>1, <5>1, <5>2
          <5> QED BY <2>4, <5>3 DEF Keyed
        <4> QED BY <2>7, <4>2, <4>3, <4>4
      <3>3. Alike(table)
        BY <3>2 DEF Alike
      <3>4. ASSUME NEW i \in DOMAIN posts' PROVE \E n \in DOMAIN table : table[n].id = i
        <4>1. CASE i = m
          BY <2>1, <2>4, <4>1 DEF Holds
        <4>2. CASE i \in DOMAIN posts
          <5>1. PICK n \in DOMAIN rows[d] : rows[d][n].id = i
            BY <1>5, <4>2 DEF Unique
          <5>2. PICK x : x = rows[d][n]
            OBVIOUS
          <5>3. Holds(table, x) /\ x.id = i
            BY <2>7, <5>1, <5>2 DEF Holds
          <5> QED BY <5>3 DEF Holds
        <4> QED BY <2>1, <4>1, <4>2
      <3>5. \A i, j \in DOMAIN posts' : posts'[i].file = posts'[j].file => i = j
        <4>1. \A i \in DOMAIN posts : posts[i].file # k
          BY <2>9 DEF PostsOf
        <4>2. \A i, j \in DOMAIN posts : posts[i].file = posts[j].file => i = j
          BY <1>5 DEF Unique
        <4> QED BY <2>18, <4>1, <4>2
      <3>6. /\ \A i, j \in DOMAIN renames[d] : Of(renames[d][i].old) = Of(renames[d][j].old) => i = j
            /\ \A i, j \in DOMAIN deletes[d] : Of(deletes[d][i]) = Of(deletes[d][j]) => i = j
        BY <1>5 DEF Unique
      <3> QED BY <1>3, <2>5, <3>3, <3>4, <3>5, <3>6 DEF Unique, Of, Alike
    <2>17. PostsOf(k)' # {}
      BY <2>11
    <2> QED BY <1>5, <1>12, <1>13, <1>14, <2>13, <2>15, <2>16, <2>17, OneFile
  <1>17. \/ UNCHANGED <<rows, server>> /\ \E x : Holds(rows[d], x) /\ x.path = p /\ x.file = disk[d][p]
         \/ \E c, m, r : Posted(d, p, c, m, r)
    <2>1. \/ /\ UNCHANGED <<rows, server, news>>
             /\ disk[d][p] = None \/ \E x : Holds(rows[d], x) /\ x.path = p /\ x.file = disk[d][p]
          \/ \E c, m, r : Posted(d, p, c, m, r)
      BY PushIs
    <2> QED BY <1>9, <2>1
  <1> QED BY <1>15, <1>16, <1>17

\* A file that something waits for keeps its names.
Lasting(d) ==
  /\ \A i \in DOMAIN renames[d] : owner'[renames[d][i].old[2]] = owner[renames[d][i].old[2]]
  /\ \A i \in DOMAIN deletes[d] : owner'[deletes[d][i][2]] = owner[deletes[d][i][2]]
  /\ \A p \in pushes[d] : owner'[p[2]] = owner[p[2]]
  /\ \A w \in Workers : job[d][w] # NoJob => owner'[job[d][w].old[2]] = owner[job[d][w].old[2]]

LEMMA NamesLast ==
    ASSUME TypeOK, Owned, NEW d \in Devices, Filed(d), OwnersStay
    PROVE  Lasting(d)
  <1>1. \A n \in Names : owner[n] \in Files => owner'[n] = owner[n]
    BY DEF OwnersStay
  <1>2. ASSUME NEW i \in DOMAIN renames[d]
        PROVE  owner'[renames[d][i].old[2]] = owner[renames[d][i].old[2]]
    <2>1. renames[d] \in Seq(Moves)
      BY TypeIs DEF AskedTyped
    <2>2. PICK m : m = renames[d][i]
      OBVIOUS
    <2>3. m \in Moves
      BY <2>1, <2>2
    <2>4. m.old[2] \in Names
      BY <2>3, PlaceIs DEF Moves
    <2>5. owner[m.old[2]] \in Files
      BY <2>2 DEF Owned, MovesOwned
    <2> QED BY <1>1, <2>2, <2>4, <2>5
  <1>3. ASSUME NEW i \in DOMAIN deletes[d]
        PROVE  owner'[deletes[d][i][2]] = owner[deletes[d][i][2]]
    <2>1. deletes[d] \in Seq(Places)
      BY TypeIs DEF AskedTyped
    <2>2. PICK p : p = deletes[d][i]
      OBVIOUS
    <2>3. p \in Places
      BY <2>1, <2>2
    <2>4. owner[p[2]] \in Files
      BY <2>2 DEF Filed, Of
    <2> QED BY <1>1, <2>2, <2>3, <2>4, PlaceIs
  <1>4. ASSUME NEW p \in pushes[d] PROVE owner'[p[2]] = owner[p[2]]
    <2>1. pushes[d] \subseteq Places
      BY TypeIs DEF AskedTyped
    <2>2. owner[p[2]] \in Files
      BY DEF Filed, Of
    <2> QED BY <1>1, <2>1, <2>2, PlaceIs
  <1>5. ASSUME NEW w \in Workers, job[d][w] # NoJob
        PROVE  owner'[job[d][w].old[2]] = owner[job[d][w].old[2]]
    <2>1. PICK j : j = job[d][w]
      OBVIOUS
    <2>2. JobOK(j) /\ j # NoJob
      BY <1>5, <2>1, JobIs
    <2>3. j.old \in Places
      BY <2>2 DEF JobOK, Renaming, Removing
    <2>4. owner[j.old[2]] \in Files
      BY <1>5, <2>1 DEF Filed, Of
    <2> QED BY <1>1, <2>1, <2>3, <2>4, PlaceIs
  <1> QED BY <1>2, <1>3, <1>4, <1>5 DEF Lasting

LEMMA TasksLast ==
    ASSUME NEW d, Lasting(d)
    PROVE  /\ renames'[d] = renames[d] => \A l : Asks(d, l)' = Asks(d, l)
           /\ deletes'[d] = deletes[d] => \A l : Dels(d, l)' = Dels(d, l)
           /\ pushes'[d] = pushes[d] => \A l : Pushes(d, l)' = Pushes(d, l)
           /\ job'[d] = job[d] => \A l : /\ Jobs(d, l)' = Jobs(d, l)
                                         /\ \A v \in Jobs(d, l) : job'[d][v] = job[d][v]
  <1>1. /\ \A i \in DOMAIN renames[d] : owner'[renames[d][i].old[2]] = owner[renames[d][i].old[2]]
        /\ \A i \in DOMAIN deletes[d] : owner'[deletes[d][i][2]] = owner[deletes[d][i][2]]
        /\ \A p \in pushes[d] : owner'[p[2]] = owner[p[2]]
        /\ \A w \in Workers : job[d][w] # NoJob => owner'[job[d][w].old[2]] = owner[job[d][w].old[2]]
    BY DEF Lasting
  <1>2. ASSUME renames'[d] = renames[d], NEW l PROVE Asks(d, l)' = Asks(d, l)
    BY <1>1, <1>2 DEF Asks, Of
  <1>3. ASSUME deletes'[d] = deletes[d], NEW l PROVE Dels(d, l)' = Dels(d, l)
    BY <1>1, <1>3 DEF Dels, Of
  <1>4. ASSUME pushes'[d] = pushes[d], NEW l PROVE Pushes(d, l)' = Pushes(d, l)
    BY <1>1, <1>4 DEF Pushes, Of
  <1>5. ASSUME job'[d] = job[d], NEW l PROVE Jobs(d, l)' = Jobs(d, l)
    BY <1>1, <1>5 DEF Jobs, Of
  <1> QED BY <1>2, <1>3, <1>4, <1>5

LEMMA UniqueLasts ==
    ASSUME NEW d, Unique(d), rows'[d] = rows[d], posts' = posts,
           \A i, j \in DOMAIN renames'[d] :
             owner'[renames'[d][i].old[2]] = owner'[renames'[d][j].old[2]] => i = j,
           \A i, j \in DOMAIN deletes'[d] :
             owner'[deletes'[d][i][2]] = owner'[deletes'[d][j][2]] => i = j
    PROVE  Unique(d)'
  BY DEF Unique, Alike, Of

LEMMA RequestsLast ==
    ASSUME NEW d, Unique(d), Lasting(d)
    PROVE  /\ renames'[d] = renames[d] =>
                \A i, j \in DOMAIN renames'[d] :
                  owner'[renames'[d][i].old[2]] = owner'[renames'[d][j].old[2]] => i = j
           /\ deletes'[d] = deletes[d] =>
                \A i, j \in DOMAIN deletes'[d] :
                  owner'[deletes'[d][i][2]] = owner'[deletes'[d][j][2]] => i = j
  BY DEF Unique, Lasting, Of

LEMMA FiledLasts ==
    ASSUME NEW d, Filed(d), Lasting(d), job'[d] = job[d],
           \A i \in DOMAIN deletes'[d] : \/ i \in DOMAIN deletes[d] /\ deletes'[d][i] = deletes[d][i]
                                         \/ owner'[deletes'[d][i][2]] \in Files,
           \A p \in pushes'[d] : p \in pushes[d] \/ owner'[p[2]] \in Files,
           \A l \in Files : home'[l] # Nowhere => disk'[d][home'[l]] = l
    PROVE  Filed(d)'
  <1>1. \A i \in DOMAIN deletes'[d] : owner'[deletes'[d][i][2]] \in Files
    BY DEF Filed, Lasting, Of
  <1>2. \A p \in pushes'[d] : owner'[p[2]] \in Files
    BY DEF Filed, Lasting, Of
  <1>3. \A w \in Workers : job[d][w] # NoJob => owner'[job[d][w].old[2]] \in Files
    BY DEF Filed, Lasting, Of
  <1>4. \A w \in Workers : job[d][w].op = "delete" => job[d][w].fi.file = owner'[job[d][w].old[2]]
    <2>1. \A w \in Workers : job[d][w].op = "delete" => job[d][w] # NoJob
      BY NoJobIs
    <2> QED BY <2>1 DEF Filed, Lasting, Of
  <1> QED BY <1>1, <1>2, <1>3, <1>4 DEF Filed, Of

LEMMA AddedIs ==
    ASSUME NEW S, NEW s \in Seq(S), NEW x, NEW t, t = Append(s, x)
    PROVE  /\ \A i \in DOMAIN t : \/ i \in DOMAIN s /\ t[i] = s[i]
                                  \/ i = Len(s) + 1 /\ t[i] = x
           /\ \A i \in DOMAIN s : i \in DOMAIN t /\ t[i] = s[i]
           /\ Len(s) + 1 \in DOMAIN t /\ t[Len(s) + 1] = x
  OBVIOUS

\* The user makes a file: it is to be pushed.
LEMMA CreateNeat ==
    ASSUME TypeOK, Owned, Patient, NEW d \in Devices, Neat(d), NEW k \in Files, NEW p \in Places,
           CreateFile(d, k, p)
    PROVE  Neat(d)'
  <1>1. /\ disk \in [Devices -> [Places -> Files \cup {None}]] /\ pushes \in [Devices -> SUBSET Places]
    BY TypeIs DEF DiskTyped, AskedTyped
  <1>2. /\ home[k] = Nowhere /\ k \notin {posts[i].file : i \in DOMAIN posts}
        /\ disk[d][p] = None /\ disk' = Put(d, p, k) /\ Takes(k, p)
        /\ pushes'[d] = pushes[d] \cup {p}
        /\ UNCHANGED <<rows, server, renames, deletes, job>>
    BY <1>1 DEF CreateFile
  <1>3. rows' = rows /\ posts' = posts /\ renames' = renames /\ deletes' = deletes /\ job' = job
    BY <1>2 DEF server
  <1>4. /\ OwnersStay /\ owner'[p[2]] = k /\ home'[k] = p /\ \A l \in Files : l # k => home'[l] = home[l]
    BY <1>2, TakesIs
  <1>5. Unique(d) /\ Filed(d) /\ Told(d, k) /\ Lasting(d)
    BY <1>4, NamesLast DEF Neat
  <1>6. PostsOf(k) = {}
    BY <1>2 DEF PostsOf
  <1>7. RowsOf(d, k) = {}
    BY <1>5, <1>6, OnePost
  <1>8. Asks(d, k) = {} /\ Dels(d, k) = {} /\ Jobs(d, k) = {}
    BY <1>5, <1>6 DEF Told, Idle
  <1>9. Pushes(d, k) = {}
    <2> SUFFICES ASSUME NEW x \in Pushes(d, k) PROVE FALSE
      OBVIOUS
    <2>1. x \in Places /\ x = Nowhere
      BY <1>1, <1>2, <1>5 DEF Told, Pushes
    <2> QED BY <2>1, NowhereIs
  <1>10. \A l : /\ Asks(d, l)' = Asks(d, l) /\ Dels(d, l)' = Dels(d, l)
                /\ Jobs(d, l)' = Jobs(d, l) /\ \A v \in Jobs(d, l) : job'[d][v] = job[d][v]
    BY <1>3, <1>5, TasksLast
  <1>11. /\ \A x \in Pushes(d, k)' : x = p
         /\ \A l : l # k => Pushes(d, l)' = Pushes(d, l)
    <2>1. \A x \in pushes[d] : owner'[x[2]] = owner[x[2]]
      BY <1>5 DEF Lasting
    <2>2. \A l : Pushes(d, l)' = {x \in pushes[d] \cup {p} : owner'[x[2]] = l}
      BY <1>2 DEF Pushes, Of
    <2>3. \A l : Pushes(d, l) = {x \in pushes[d] : owner[x[2]] = l}
      BY DEF Pushes, Of
    <2>4. ASSUME NEW x \in Pushes(d, k)' PROVE x = p
      BY <1>9, <2>1, <2>2, <2>3
    <2>5. ASSUME NEW l, l # k PROVE Pushes(d, l)' = Pushes(d, l)
      <3>1. \A x : x \in Pushes(d, l)' <=> (x \in pushes[d] \/ x = p) /\ owner'[x[2]] = l
        BY <2>2
      <3>2. \A x : x \in Pushes(d, l) <=> x \in pushes[d] /\ owner[x[2]] = l
        BY <2>3
      <3>3. owner'[p[2]] # l
        BY <1>4, <2>5
      <3>4. \A x : x \in Pushes(d, l)' <=> x \in Pushes(d, l)
        BY <2>1, <3>1, <3>2, <3>3
      <3> QED BY <3>4
    <2> QED BY <2>4, <2>5
  <1>12. \A l : SameRecords(d, l)
    BY <1>3, RecordsStay
  <1>13. Told(d, k)'
    <2>1. PostsOf(k)' = {} /\ RowsOf(d, k)' = {}
      BY <1>6, <1>7, <1>12 DEF SameRecords
    <2>2. In(d, k, p)'
      BY <2>1 DEF In, RowsAt, RowsPath, RowsName, RowsFolder, PostsAt
    <2>3. Settles(d, k)'
      BY <1>4, <2>2, PlaceIs DEF Settles
    <2>4. Pushes(d, k)' # {}
      BY <1>2, <1>4 DEF Pushes, Of
    <2> QED BY <1>4, <1>8, <1>10, <1>11, <2>3, <2>4, ToldIdle
  <1>14. \A l \in Files : l # k => Same(d, l)
    BY <1>4, <1>10, <1>11, <1>12 DEF Same, SameTasks
  <1>15. Unique(d)'
    BY <1>3, <1>5, RequestsLast, UniqueLasts
  <1>16. Filed(d)'
    <2>1. /\ disk'[d][p] = k /\ \A x \in Places : x # p => disk'[d][x] = disk[d][x]
      BY <1>1, <1>2 DEF Put
    <2>2. ASSUME NEW l \in Files, home'[l] # Nowhere PROVE disk'[d][home'[l]] = l
      <3>1. CASE l = k
        BY <1>4, <2>1, <3>1
      <3>2. CASE l # k
        <4>1. home'[l] = home[l] /\ disk[d][home[l]] = l /\ l # None
          BY <1>4, <1>5, <2>2, <3>2, FilesAre DEF Filed
        <4>2. home[l] \in Places /\ home[l] # p
          BY <1>2, <2>2, <4>1, TypeIs DEF UserTyped
        <4> QED BY <2>1, <4>1, <4>2
      <3> QED BY <3>1, <3>2
    <2> QED BY <1>2, <1>3, <1>4, <1>5, <2>2, FiledLasts
  <1> QED BY <1>13, <1>14, <1>15, <1>16, OneFile

\* The user moves a file whose tasks are done: it is the only rename of the file.
LEMMA MoveNeat ==
    ASSUME TypeOK, Owned, Patient, NEW d \in Devices, Neat(d), NEW k \in Files, NEW q \in Places,
           MoveFile(d, k, q)
    PROVE  Neat(d)'
  <1>1. /\ disk \in [Devices -> [Places -> Files \cup {None}]] /\ renames \in [Devices -> Seq(Moves)]
        /\ home \in [Files -> Places \cup {Nowhere}]
    BY TypeIs DEF DiskTyped, AskedTyped, UserTyped
  <1>2. PICK p : p = home[k]
    OBVIOUS
  <1>3. PICK a : a = [old |-> p, new |-> q]
    OBVIOUS
  <1>4. /\ p # Nowhere /\ disk[d][p] = k /\ disk[d][q] = None /\ ~Busy(d, p)
        /\ disk' = [disk EXCEPT ![d][p] = None, ![d][q] = k] /\ Takes(k, q)
        /\ renames'[d] = Append(renames[d], a)
        /\ UNCHANGED <<rows, server, deletes, pushes, job>>
    BY <1>1, <1>2, <1>3 DEF MoveFile, Leaves
  <1>5. rows' = rows /\ posts' = posts /\ deletes' = deletes /\ pushes' = pushes /\ job' = job
    BY <1>4 DEF server
  <1>6. /\ OwnersStay /\ owner'[q[2]] = k /\ home'[k] = q /\ \A l \in Files : l # k => home'[l] = home[l]
    BY <1>4, TakesIs
  <1>7. Unique(d) /\ Filed(d) /\ Told(d, k) /\ Lasting(d)
    BY <1>6, NamesLast DEF Neat
  <1>8. Idle(d, k) /\ Pushes(d, k) = {} /\ PostsOf(k) # {} /\ In(d, k, p)
    BY <1>2, <1>4, <1>7, RestIs
  <1>9. p \in Places /\ p[2] \in Names /\ owner[p[2]] = k /\ owner'[p[2]] = k
    <2>1. p \in Places /\ p[2] \in Names
      BY <1>1, <1>2, <1>4, PlaceIs
    <2>2. owner[p[2]] = k
      BY <1>2, <1>4 DEF Owned, HomeOwned
    <2> QED BY <1>6, <2>1, <2>2 DEF OwnersStay
  <1>10. a \in Moves /\ a.old = p /\ a.new = q
    BY <1>3, <1>9 DEF Moves
  <1>11. \A l : /\ Dels(d, l)' = Dels(d, l) /\ Pushes(d, l)' = Pushes(d, l)
                /\ Jobs(d, l)' = Jobs(d, l) /\ \A v \in Jobs(d, l) : job'[d][v] = job[d][v]
    BY <1>5, <1>7, TasksLast
  <1>12. PICK s : s = renames[d]
    OBVIOUS
  <1>13. PICK t : t = renames'[d]
    OBVIOUS
  <1>14. /\ \A i \in DOMAIN t : \/ i \in DOMAIN s /\ t[i] = s[i]
                                \/ i = Len(s) + 1 /\ t[i] = a
         /\ \A i \in DOMAIN s : i \in DOMAIN t /\ t[i] = s[i]
         /\ Len(s) + 1 \in DOMAIN t /\ t[Len(s) + 1] = a
    <2>1. s \in Seq(Moves) /\ t = Append(s, a)
      BY <1>1, <1>4, <1>12, <1>13
    <2> QED BY <2>1, AddedIs
  <1>15. \A l, m : m \in Asks(d, l) <=> m \in Moves /\ owner[m.old[2]] = l /\ \E i \in DOMAIN s : s[i] = m
    BY <1>12 DEF Asks, Of
  <1>16. \A l, m : m \in Asks(d, l)' <=> m \in Moves /\ owner'[m.old[2]] = l /\ \E i \in DOMAIN t : t[i] = m
    BY <1>13 DEF Asks, Of
  <1>17. \A i \in DOMAIN s : owner'[s[i].old[2]] = owner[s[i].old[2]] /\ s[i] \in Moves
    BY <1>1, <1>7, <1>12 DEF Lasting
  <1>18. \A i \in DOMAIN s : owner[s[i].old[2]] # k
    <2> SUFFICES ASSUME NEW i \in DOMAIN s, owner[s[i].old[2]] = k PROVE FALSE
      OBVIOUS
    <2>1. s[i] \in Asks(d, k)
      BY <1>15, <1>17
    <2> QED BY <1>8, <2>1 DEF Idle
  <1>19. ASSUME NEW m \in Asks(d, k)' PROVE m = a
    <2>1. PICK i \in DOMAIN t : t[i] = m
      BY <1>16
    <2>2. owner'[m.old[2]] = k
      BY <1>16
    <2> QED BY <1>14, <1>17, <1>18, <2>1, <2>2
  <1>20. a \in Asks(d, k)'
    BY <1>9, <1>10, <1>14, <1>16
  <1>21. ASSUME NEW l, l # k PROVE Asks(d, l)' = Asks(d, l)
    <2>1. ASSUME NEW m \in Asks(d, l)' PROVE m \in Asks(d, l)
      <3>1. PICK i \in DOMAIN t : t[i] = m
        BY <1>16
      <3>2. owner'[m.old[2]] = l
        BY <1>16
      <3>3. i \in DOMAIN s /\ s[i] = m
        BY <1>9, <1>10, <1>14, <1>21, <3>1, <3>2
      <3> QED BY <1>15, <1>17, <3>2, <3>3
    <2>2. ASSUME NEW m \in Asks(d, l) PROVE m \in Asks(d, l)'
      <3>1. PICK i \in DOMAIN s : s[i] = m
        BY <1>15
      <3>2. owner[m.old[2]] = l
        BY <1>15
      <3> QED BY <1>14, <1>16, <1>17, <3>1, <3>2
    <2> QED BY <2>1, <2>2
  <1>22. \A l : SameRecords(d, l)
    BY <1>5, RecordsStay
  <1>23. Told(d, k)'
    <2>1. In(d, k, p)' /\ PostsOf(k)' # {}
      BY <1>8, <1>22, SameIn DEF SameRecords
    <2>2. Dels(d, k)' = {} /\ Jobs(d, k)' = {} /\ Pushes(d, k)' = {}
      BY <1>8, <1>11 DEF Idle
    <2>3. \A m \in Asks(d, k)' : home'[k] = m.new /\ In(d, k, m.old)'
      BY <1>6, <1>10, <1>19, <2>1
    <2>4. ~Idle(d, k)'
      BY <1>20 DEF Idle
    <2> QED BY <2>1, <2>2, <2>3, <2>4 DEF Told
  <1>24. \A l \in Files : l # k => Same(d, l)
    BY <1>6, <1>11, <1>21, <1>22 DEF Same, SameTasks
  <1>25. Unique(d)'
    <2>1. \A i, j \in DOMAIN s : owner[s[i].old[2]] = owner[s[j].old[2]] => i = j
      BY <1>7, <1>12 DEF Unique, Of
    <2>2. \A i, j \in DOMAIN t : owner'[t[i].old[2]] = owner'[t[j].old[2]] => i = j
      BY <1>9, <1>10, <1>14, <1>17, <1>18, <2>1
    <2>3. \A i, j \in DOMAIN deletes'[d] :
             owner'[deletes'[d][i][2]] = owner'[deletes'[d][j][2]] => i = j
      BY <1>5, <1>7, RequestsLast
    <2> QED BY <1>5, <1>7, <1>13, <2>2, <2>3, UniqueLasts
  <1>26. Filed(d)'
    <2>1. p # q
      BY <1>4, FilesAre
    <2>2. /\ disk'[d][q] = k /\ \A x \in Places : x # p /\ x # q => disk'[d][x] = disk[d][x]
      BY <1>1, <1>4, <1>9, <2>1
    <2>3. ASSUME NEW l \in Files, home'[l] # Nowhere PROVE disk'[d][home'[l]] = l
      <3>1. CASE l = k
        BY <1>6, <2>2, <3>1
      <3>2. CASE l # k
        <4>1. home'[l] = home[l] /\ disk[d][home[l]] = l /\ l # None
          BY <1>6, <1>7, <2>3, <3>2, FilesAre DEF Filed
        <4>2. home[l] \in Places /\ home[l] # p /\ home[l] # q
          BY <1>1, <1>4, <2>3, <3>2, <4>1
        <4> QED BY <2>2, <4>1, <4>2
      <3> QED BY <3>1, <3>2
    <2> QED BY <1>5, <1>7, <2>3, FiledLasts
  <1> QED BY <1>23, <1>24, <1>25, <1>26, OneFile

\* The user removes a file whose tasks are done.
LEMMA RemoveNeat ==
    ASSUME TypeOK, Owned, Patient, NEW d \in Devices, Neat(d), NEW k \in Files, RemoveFile(d, k)
    PROVE  Neat(d)'
  <1>1. /\ disk \in [Devices -> [Places -> Files \cup {None}]] /\ deletes \in [Devices -> Seq(Places)]
        /\ home \in [Files -> Places \cup {Nowhere}]
    BY TypeIs DEF DiskTyped, AskedTyped, UserTyped
  <1>2. PICK p : p = home[k]
    OBVIOUS
  <1>4. /\ p # Nowhere /\ disk[d][p] = k /\ ~Busy(d, p)
        /\ disk' = Put(d, p, None) /\ home' = [home EXCEPT ![k] = Nowhere]
        /\ deletes'[d] = Append(deletes[d], p)
        /\ UNCHANGED <<rows, server, renames, pushes, job, owner>>
    BY <1>1, <1>2 DEF RemoveFile, Leaves
  <1>5. rows' = rows /\ posts' = posts /\ renames' = renames /\ pushes' = pushes /\ job' = job
        /\ owner' = owner
    BY <1>4 DEF server
  <1>6. home'[k] = Nowhere /\ \A l \in Files : l # k => home'[l] = home[l]
    BY <1>1, <1>4
  <1>7. Unique(d) /\ Filed(d) /\ Told(d, k) /\ Lasting(d)
    BY <1>5 DEF Neat, Lasting
  <1>8. Idle(d, k) /\ Pushes(d, k) = {} /\ PostsOf(k) # {} /\ In(d, k, p)
    BY <1>2, <1>4, <1>7, RestIs
  <1>9. p \in Places /\ owner[p[2]] = k
    <2>1. p \in Places
      BY <1>1, <1>2, <1>4
    <2>2. owner[p[2]] = k
      BY <1>2, <1>4 DEF Owned, HomeOwned
    <2> QED BY <2>1, <2>2
  <1>11. \A l : /\ Asks(d, l)' = Asks(d, l) /\ Pushes(d, l)' = Pushes(d, l)
                /\ Jobs(d, l)' = Jobs(d, l) /\ \A v \in Jobs(d, l) : job'[d][v] = job[d][v]
    BY <1>5, <1>7, TasksLast
  <1>12. PICK s : s = deletes[d]
    OBVIOUS
  <1>13. PICK t : t = deletes'[d]
    OBVIOUS
  <1>14. /\ \A i \in DOMAIN t : \/ i \in DOMAIN s /\ t[i] = s[i]
                                \/ i = Len(s) + 1 /\ t[i] = p
         /\ \A i \in DOMAIN s : i \in DOMAIN t /\ t[i] = s[i]
         /\ Len(s) + 1 \in DOMAIN t /\ t[Len(s) + 1] = p
    <2>1. s \in Seq(Places) /\ t = Append(s, p)
      BY <1>1, <1>4, <1>12, <1>13
    <2> QED BY <2>1, AddedIs
  <1>15. \A l, m : m \in Dels(d, l) <=> m \in Places /\ owner[m[2]] = l /\ \E i \in DOMAIN s : s[i] = m
    BY <1>12 DEF Dels, Of
  <1>16. \A l, m : m \in Dels(d, l)' <=> m \in Places /\ owner[m[2]] = l /\ \E i \in DOMAIN t : t[i] = m
    BY <1>5, <1>13 DEF Dels, Of
  <1>17. \A i \in DOMAIN s : s[i] \in Places
    BY <1>1, <1>12
  <1>18. \A i \in DOMAIN s : owner[s[i][2]] # k
    <2> SUFFICES ASSUME NEW i \in DOMAIN s, owner[s[i][2]] = k PROVE FALSE
      OBVIOUS
    <2>1. s[i] \in Dels(d, k)
      BY <1>15, <1>17
    <2> QED BY <1>8, <2>1 DEF Idle
  <1>19. ASSUME NEW m \in Dels(d, k)' PROVE m = p
    <2>1. PICK i \in DOMAIN t : t[i] = m
      BY <1>16
    <2>2. owner[m[2]] = k
      BY <1>16
    <2> QED BY <1>14, <1>18, <2>1, <2>2
  <1>20. p \in Dels(d, k)'
    BY <1>9, <1>14, <1>16
  <1>21. ASSUME NEW l, l # k PROVE Dels(d, l)' = Dels(d, l)
    <2>1. ASSUME NEW m \in Dels(d, l)' PROVE m \in Dels(d, l)
      <3>1. PICK i \in DOMAIN t : t[i] = m
        BY <1>16
      <3>2. owner[m[2]] = l
        BY <1>16
      <3>3. i \in DOMAIN s /\ s[i] = m
        BY <1>9, <1>14, <1>21, <3>1, <3>2
      <3> QED BY <1>15, <1>17, <3>2, <3>3
    <2>2. ASSUME NEW m \in Dels(d, l) PROVE m \in Dels(d, l)'
      <3>1. PICK i \in DOMAIN s : s[i] = m
        BY <1>15
      <3>2. owner[m[2]] = l
        BY <1>15
      <3> QED BY <1>14, <1>16, <1>17, <3>1, <3>2
    <2> QED BY <2>1, <2>2
  <1>22. \A l : SameRecords(d, l)
    BY <1>5, RecordsStay
  <1>23. Told(d, k)'
    <2>1. RowsPath(d, k, p)' /\ PostsOf(k)' # {}
      <3>1. RowsPath(d, k, p)
        BY <1>8 DEF In, RowsAt
      <3> QED BY <1>8, <1>22, <3>1, SameIn DEF SameRecords
    <2>2. Asks(d, k)' = {} /\ Jobs(d, k)' = {} /\ Pushes(d, k)' = {}
      BY <1>8, <1>11 DEF Idle
    <2>3. \A x \in Dels(d, k)' : home'[k] = Nowhere /\ RowsPath(d, k, x)'
      BY <1>6, <1>19, <2>1
    <2>4. ~Idle(d, k)'
      BY <1>20 DEF Idle
    <2> QED BY <2>1, <2>2, <2>3, <2>4 DEF Told
  <1>24. \A l \in Files : l # k => Same(d, l)
    BY <1>6, <1>11, <1>21, <1>22 DEF Same, SameTasks
  <1>25. Unique(d)'
    <2>1. \A i, j \in DOMAIN s : owner[s[i][2]] = owner[s[j][2]] => i = j
      BY <1>7, <1>12 DEF Unique, Of
    <2>2. \A i, j \in DOMAIN t : owner'[t[i][2]] = owner'[t[j][2]] => i = j
      BY <1>5, <1>9, <1>14, <1>18, <2>1
    <2>3. \A i, j \in DOMAIN renames'[d] :
             owner'[renames'[d][i].old[2]] = owner'[renames'[d][j].old[2]] => i = j
      BY <1>5, <1>7, RequestsLast
    <2> QED BY <1>5, <1>7, <1>13, <2>2, <2>3, UniqueLasts
  <1>26. Filed(d)'
    <2>2. \A x \in Places : x # p => disk'[d][x] = disk[d][x]
      BY <1>1, <1>4 DEF Put
    <2>3. ASSUME NEW l \in Files, home'[l] # Nowhere PROVE disk'[d][home'[l]] = l
      <3>1. l # k
        BY <1>6, <2>3
      <3>2. home'[l] = home[l] /\ disk[d][home[l]] = l
        BY <1>6, <1>7, <2>3, <3>1 DEF Filed
      <3>3. home[l] \in Places /\ home[l] # p
        BY <1>1, <1>4, <2>3, <3>1, <3>2
      <3> QED BY <2>2, <3>2, <3>3
    <2>4. \A i \in DOMAIN t : \/ i \in DOMAIN s /\ t[i] = s[i]
                              \/ owner'[t[i][2]] \in Files
      BY <1>5, <1>9, <1>14
    <2> QED BY <1>5, <1>7, <1>12, <1>13, <2>3, <2>4, FiledLasts
  <1> QED BY <1>23, <1>24, <1>25, <1>26, OneFile

\* A device that does not follow has nothing to poll, to process or to pull: ...
LEMMA DeafActs ==
    ASSUME TypeOK, NEW d \in Devices, d \notin Followers, Deaf(d), Acts(d)
    PROVE  User(d) \/ (\E p \in Places : PushFile(d, p)) \/ \E w \in Workers : Rename(d, w) \/ Delete(d, w)
  <1>1. ~Poll(d)
    BY DEF Poll, PollDeletedFilePosts, PollFilePosts
  <1>2. ~Sync(d)
    <2>1. queue[d] = << >> /\ sync[d].step = "idle"
      BY NoSyncIs DEF Deaf
    <2> QED BY <2>1 DEF Sync, ProcessFilePost, RenameFileLocalCache, UpdateFilepath, CheckFile
  <1>3. ~EndPull(d) /\ \A p \in Places : ~BeginPull(d, p)
    BY DEF Deaf, EndPull, BeginPull
  <1> QED BY <1>1, <1>2, <1>3 DEF Acts, Transfers

\* ... its own steps leave that so, ...
LEMMA DeafStays ==
    ASSUME TypeOK, NEW d \in Devices, d \notin Followers, Deaf(d), Acts(d)
    PROVE  Deaf(d)'
  <1>1. UNCHANGED <<pulls, pull, follow>>
    <2>1. CASE User(d)
      <3>1. PICK k \in Files : RemoveFile(d, k) \/ \E p \in Places : CreateFile(d, k, p) \/ MoveFile(d, k, p)
        BY <2>1 DEF User
      <3> QED BY <3>1 DEF CreateFile, MoveFile, RemoveFile
    <2>2. ASSUME NEW p \in Places, PushFile(d, p) PROVE UNCHANGED <<pulls, pull, follow>>
      BY <2>2 DEF PushFile
    <2>3. ASSUME NEW w \in Workers, Rename(d, w) PROVE UNCHANGED <<pulls, pull, follow>>
      <3>1. CASE BeginRename(d, w)
        BY <3>1 DEF BeginRename
      <3>2. CASE LookUp(d, w)
        BY <3>2, Zenon DEF LookUp
      <3>3. CASE GetFilePost(d, w, "rename")
        BY <3>3 DEF GetFilePost
      <3>4. CASE UpdateFileMetaPost(d, w)
        BY <3>4 DEF UpdateFileMetaPost, PutFilePost
      <3>5. CASE SetFilepath(d, w) \/ SetFilename(d, w)
        BY <3>5 DEF SetFilepath, SetFilename, Manifest
      <3>6. CASE SetFileFolderPostId(d, w)
        BY <3>6 DEF SetFileFolderPostId
      <3> QED BY <2>3, <3>1, <3>2, <3>3, <3>4, <3>5, <3>6 DEF Rename
    <2>4. ASSUME NEW w \in Workers, Delete(d, w) PROVE UNCHANGED <<pulls, pull, follow>>
      BY <2>4 DEF Delete, BeginDelete, GetFilePost, UpdateFilePost, PutFilePost
    <2> QED BY <2>1, <2>2, <2>3, <2>4, DeafActs
  <1> QED BY <1>1 DEF Deaf, follow

\* ... and, as long as requests succeed, every file has what it should.
LEMMA NeatActs ==
    ASSUME TypeOK, Owned, Patient, NEW d \in Devices, d \notin Followers, Deaf(d), Neat(d), Acts(d),
           failures' = 0
    PROVE  Neat(d)'
  <1>1. CASE User(d)
    BY <1>1, CreateNeat, MoveNeat, RemoveNeat DEF User
  <1>2. ASSUME NEW p \in Places, PushFile(d, p) PROVE Neat(d)'
    BY <1>2, PushNeat
  <1>3. ASSUME NEW w \in Workers, Rename(d, w) PROVE Neat(d)'
    <2>1. GetFilePost(d, w, "rename") => Neat(d)'
      BY GetNeat
    <2> QED BY <1>3, <2>1, BeginRenameNeat, LookUpNeat, MetaNeat, FilepathNeat, FilenameNeat, FolderNeat
            DEF Rename
  <1>4. ASSUME NEW w \in Workers, Delete(d, w) PROVE Neat(d)'
    <2>1. GetFilePost(d, w, "delete") => Neat(d)'
      BY GetNeat
    <2> QED BY <1>4, <2>1, BeginDeleteNeat, UpdateNeat DEF Delete
  <1> QED BY <1>1, <1>2, <1>3, <1>4, DeafActs

\* The other devices make no posts and take no names, ...
LEMMA OthersFollow ==
    ASSUME NEW e \in Devices, Quiet(e), e \notin Movers, Acts(e)
    PROVE  posts' = posts /\ owner' = owner /\ home' = home
  <1>1. Poll(e) \/ Sync(e) \/ EndPull(e) \/ \E p \in Places : BeginPull(e, p)
    BY QuietActs
  <1> QED BY <1>1 DEF Poll, PollDeletedFilePosts, PollFilePosts, Sync, ProcessFilePost,
         RenameFileLocalCache, UpdateFilepath, CheckFile, EndPull, BeginPull, server, user

\* ... and what is unchanged stays as it should be.
LEMMA NeatStays ==
    ASSUME NEW d, Neat(d), disk'[d] = disk[d], rows'[d] = rows[d], renames'[d] = renames[d],
           deletes'[d] = deletes[d], pushes'[d] = pushes[d], job'[d] = job[d],
           posts' = posts, owner' = owner, home' = home
    PROVE  Neat(d)'
  <1>1. Unique(d)'
    BY UniqueStays DEF Neat
  <1>2. Filed(d)'
    BY DEF Neat, Filed, Of
  <1>3. \A k : SameRecords(d, k)
    BY RecordsStay
  <1>4. ASSUME NEW k \in Files PROVE Told(d, k)'
    <2>1. Jobs(d, k)' = Jobs(d, k)
      BY DEF Jobs, Of
    <2>2. SameTasks(d, k)
      BY <2>1, TasksStay DEF SameTasks
    <2> QED BY <1>3, <2>2, ToldSame DEF Same, Neat
  <1> QED BY <1>1, <1>2, <1>4 DEF Neat

\* The count of the failures only grows.
LEMMA FailuresGrow ==
    ASSUME TypeOK, [Next]_vars, failures' = 0
    PROVE  failures = 0
  <1>1. failures \in Nat
    BY TypeIs DEF FaultsTyped
  <1>2. UNCHANGED vars => failures' = failures
    BY DEF vars, faults
  <1>3. failures' = failures \/ failures' = failures + 1
    <2>1. ASSUME NEW e \in Devices, User(e) PROVE failures' = failures
      <3>1. PICK k \in Files : RemoveFile(e, k) \/ \E p \in Places : CreateFile(e, k, p) \/ MoveFile(e, k, p)
        BY <2>1 DEF User
      <3>2. RemoveFile(e, k) => failures' = failures
        BY DEF RemoveFile, faults
      <3>3. ASSUME NEW p \in Places, CreateFile(e, k, p) PROVE failures' = failures
        BY <3>3 DEF CreateFile, faults
      <3>4. ASSUME NEW p \in Places, MoveFile(e, k, p) PROVE failures' = failures
        BY <3>4 DEF MoveFile, faults
      <3> QED BY <3>1, <3>2, <3>3, <3>4
    <2>2. ASSUME NEW e \in Devices, Poll(e) \/ Sync(e) PROVE failures' = failures
      <3>1. CASE Poll(e)
        BY <3>1 DEF Poll, PollDeletedFilePosts, PollFilePosts, faults
      <3>2. CASE ProcessFilePost(e) \/ RenameFileLocalCache(e)
        BY <3>2 DEF ProcessFilePost, RenameFileLocalCache, faults
      <3>3. CASE UpdateFilepath(e) \/ CheckFile(e)
        BY <3>3 DEF UpdateFilepath, CheckFile, faults
      <3> QED BY <2>2, <3>1, <3>2, <3>3 DEF Sync
    <2>3. ASSUME NEW e \in Devices, Transfers(e)
          PROVE  failures' = failures \/ failures' = failures + 1
      BY <2>3 DEF Transfers, EndPull, BeginPull, PushFile, Works, Fails, faults
    <2>4. ASSUME NEW e \in Devices, NEW w \in Workers, Rename(e, w)
          PROVE  failures' = failures \/ failures' = failures + 1
      <3>1. CASE BeginRename(e, w)
        BY <3>1 DEF BeginRename, faults
      <3>5. CASE LookUp(e, w)
        BY <3>5, Zenon DEF LookUp, faults
      <3>2. CASE GetFilePost(e, w, "rename")
        BY <3>2 DEF GetFilePost, Works, Fails
      <3>3. CASE UpdateFileMetaPost(e, w)
        BY <3>3 DEF UpdateFileMetaPost, PutFilePost, Works, Fails
      <3>4. CASE SetFilepath(e, w) \/ SetFilename(e, w) \/ SetFileFolderPostId(e, w)
        BY <3>4 DEF SetFilepath, SetFilename, Manifest, SetFileFolderPostId, faults
      <3> QED BY <2>4, <3>1, <3>2, <3>3, <3>4, <3>5 DEF Rename
    <2>5. ASSUME NEW e \in Devices, NEW w \in Workers, Delete(e, w)
          PROVE  failures' = failures \/ failures' = failures + 1
      BY <2>5 DEF Delete, BeginDelete, GetFilePost, UpdateFilePost, PutFilePost, Works, Fails, faults
    <2> QED BY <1>2, <2>1, <2>2, <2>3, <2>4, <2>5, NextActs DEF Acts
  <1> QED BY <1>1, <1>3

\* The invariant holds at first, ...
LEMMA InitSent == Init /\ Patient => SentInv
  <1> SUFFICES ASSUME Init, Patient PROVE SentInv
    OBVIOUS
  <1> DEFINE K == DOMAIN Known
  <1> DEFINE row(k) == Row(Known[k], k, k)
  <1>1. /\ disk = [d \in Devices |-> [p \in Places |->
                     IF \E k \in K : Known[k] = p THEN CHOOSE k \in K : Known[k] = p ELSE None]]
        /\ rows = [d \in Devices |-> [k \in K |-> row(k)]]
        /\ posts = [k \in K |-> Post(row(k), FALSE)]
        /\ queue = [d \in Devices |-> << >>]
        /\ renames = [d \in Devices |-> << >>] /\ deletes = [d \in Devices |-> << >>]
        /\ pushes = [d \in Devices |-> {}] /\ pulls = [d \in Devices |-> {}]
        /\ job = [d \in Devices |-> [w \in Workers |-> NoJob]]
        /\ pull = [d \in Devices |-> NoRow] /\ sync = [d \in Devices |-> NoSync]
        /\ home = [k \in Files |-> IF k \in K THEN Known[k] ELSE Nowhere]
    BY DEF Init
  <1>2. K \subseteq Files /\ Known \in [K -> Places]
    BY FileNamesAssumption DEF Places
  <1>3. PICK c \in Nat : K = 1 .. c /\ c <= MaxPosts
    <2>1. IsFiniteSet(K)
      BY FileNamesAssumption, FS_Subset
    <2>2. Cardinality(K) \in Nat
      BY <2>1, FS_CardinalityType
    <2> QED BY <2>2, FileNamesAssumption
  <1>13. MaxPosts \in Nat
    BY FileNamesAssumption
  <1>4. \A j, k \in K : Known[j] = Known[k] => j = k
    BY FileNamesAssumption
  <1> HIDE DEF K
  <1>5. ASSUME NEW k \in K
        PROVE  /\ k \in Ids /\ row(k) \in Rows /\ row(k).id = k /\ row(k).file = k
               /\ row(k).name = Known[k][2] /\ row(k).folder = Known[k][1] /\ row(k).path = Known[k]
               /\ ~row(k).deleted
    <2>1. k \in Ids /\ k \in Files /\ Known[k] \in Places
      BY <1>2, <1>3, <1>13 DEF Ids
    <2>2. row(k) = Row(Known[k], k, k)
      OBVIOUS
    <2> HIDE DEF row
    <2> QED BY <2>1, <2>2, RowIs
  <1> HIDE DEF row
  <1>6. ASSUME NEW k \in K
        PROVE  Known[k] \in Places /\ k \in Files /\ \A d \in Devices : disk[d][Known[k]] = k
    <2>1. Known[k] \in Places /\ k \in Files
      BY <1>2
    <2>2. (CHOOSE j \in K : Known[j] = Known[k]) = k
      BY <1>4
    <2> QED BY <1>1, <2>1, <2>2
  <1>7. ASSUME NEW k \in K
        PROVE  posts[k].file = k /\ At(posts[k]) = Known[k] /\ ~posts[k].deleted
    <2>4. PICK r : r = row(k)
      OBVIOUS
    <2>1. posts[k] = Post(r, FALSE)
      BY <1>1, <2>4
    <2>5. r \in Rows /\ r.file = k /\ r.name = Known[k][2] /\ r.folder = Known[k][1]
      BY <1>5, <2>4
    <2>6. /\ Post(r, FALSE).file = r.file /\ Post(r, FALSE).name = r.name
          /\ Post(r, FALSE).folder = r.folder /\ ~Post(r, FALSE).deleted
      BY <2>5, PostIs
    <2>2. /\ posts[k].file = k /\ ~posts[k].deleted
          /\ At(posts[k]) = <<Known[k][1], Known[k][2]>>
      BY <2>1, <2>5, <2>6 DEF At
    <2>3. Known[k] = <<Known[k][1], Known[k][2]>>
      BY <1>6, PlaceIs
    <2> QED BY <2>2, <2>3
  <1>8. DOMAIN posts = K /\ \A d \in Devices : DOMAIN rows[d] = K /\ \A k \in K : rows[d][k] = row(k)
    BY <1>1
  <1>9. ASSUME NEW d \in Devices PROVE Deaf(d)
    BY <1>1 DEF Deaf
  <1>10. ASSUME NEW d \in Devices PROVE Unique(d)
    <2>1. Alike(rows[d]) /\ \A i \in DOMAIN posts : \E n \in DOMAIN rows[d] : rows[d][n].id = i
      BY <1>5, <1>8 DEF Alike
    <2>2. \A i, j \in DOMAIN posts : posts[i].file = posts[j].file => i = j
      BY <1>7, <1>8
    <2>3. renames[d] = << >> /\ deletes[d] = << >>
      BY <1>1
    <2> QED BY <2>1, <2>2, <2>3 DEF Unique
  <1>11. ASSUME NEW d \in Devices PROVE Filed(d)
    <2>1. deletes[d] = << >> /\ pushes[d] = {} /\ \A w \in Workers : job[d][w] = NoJob
      BY <1>1
    <2>2. ASSUME NEW k \in Files, home[k] # Nowhere PROVE disk[d][home[k]] = k
      <3>1. k \in K /\ home[k] = Known[k]
        BY <1>1, <2>2
      <3> QED BY <1>6, <3>1
    <2> QED BY <2>1, <2>2, NoJobIs DEF Filed
  <1>12. ASSUME NEW d \in Devices, NEW k \in Files PROVE Told(d, k)
    <2>1. Asks(d, k) = {} /\ Dels(d, k) = {} /\ Jobs(d, k) = {} /\ Pushes(d, k) = {}
      BY <1>1 DEF Asks, Dels, Jobs, Pushes
    <2>2. CASE k \in K
      <3>1. home[k] = Known[k] /\ Known[k] # Nowhere
        BY <1>1, <1>6, <2>2, PlaceIs
      <3>2. \A i \in PostsOf(k) : i = k
        BY <1>7, <1>8 DEF PostsOf
      <3>3. k \in PostsOf(k)
        BY <1>7, <1>8, <2>2 DEF PostsOf
      <3>4. PostsAt(k, Known[k])
        BY <1>7, <2>2, <3>2 DEF PostsAt
      <3>5. \A r \in RowsOf(d, k) : r = row(k)
        BY <1>5, <1>8 DEF RowsOf, Holds
      <3>6. RowsAt(d, k, Known[k])
        BY <1>5, <2>2, <3>5 DEF RowsAt, RowsPath, RowsName, RowsFolder
      <3> QED BY <2>1, <3>1, <3>3, <3>4, <3>6 DEF Told, Idle, In
    <2>3. CASE k \notin K
      <3>1. home[k] = Nowhere
        BY <1>1, <2>3
      <3>2. \A i \in K : posts[i].file # k
        BY <1>7, <2>3
      <3>3. PostsOf(k) = {}
        BY <1>8, <3>2 DEF PostsOf
      <3> QED BY <2>1, <3>1, <3>3 DEF Told, Idle
    <2> QED BY <2>2, <2>3
  <1>14. Movers \subseteq Devices
    BY FileNamesAssumption
  <1> QED BY <1>9, <1>10, <1>11, <1>12, <1>14 DEF SentInv

\* ... every step keeps it, ...
LEMMA SentStep == Patient /\ TypeOK /\ NamesInv /\ SentInv /\ [Next]_vars => SentInv'
  <1> SUFFICES ASSUME Patient, TypeOK, NamesInv, SentInv, [Next]_vars,
                      NEW d \in Movers, Movers = {d}, d \notin Followers
               PROVE  Deaf(d)' /\ (failures' = 0 => Neat(d)')
    BY DEF SentInv, Neat
  <1>1. d \in Devices /\ Owned
    BY FileNamesAssumption DEF NamesInv
  <1>2. Deaf(d) /\ (failures' = 0 => Neat(d))
    BY FailuresGrow DEF SentInv, Neat
  <1>3. CASE UNCHANGED vars
    <2>1. Deaf(d)'
      BY <1>2, <1>3 DEF Deaf, vars, follow
    <2>2. failures' = 0 => Neat(d)'
      BY <1>2, <1>3, NeatStays DEF vars, server, asked, user
    <2> QED BY <2>1, <2>2
  <1>4. CASE Acts(d)
    BY <1>1, <1>2, <1>4, DeafStays, NeatActs
  <1>5. ASSUME NEW e \in Devices, Acts(e), e # d PROVE Deaf(d)' /\ (failures' = 0 => Neat(d)')
    <2>1. e \notin Movers /\ Quiet(e)
      BY <1>5 DEF NamesInv
    <2>2. posts' = posts /\ owner' = owner /\ home' = home
      BY <1>5, <2>1, OthersFollow
    <2>3. /\ disk'[d] = disk[d] /\ rows'[d] = rows[d] /\ renames'[d] = renames[d]
          /\ deletes'[d] = deletes[d] /\ pushes'[d] = pushes[d] /\ pulls'[d] = pulls[d]
          /\ job'[d] = job[d] /\ pull'[d] = pull[d] /\ queue'[d] = queue[d] /\ sync'[d] = sync[d]
      BY <1>1, <1>5, Elsewhere
    <2>4. Deaf(d)'
      BY <1>2, <2>3 DEF Deaf
    <2>5. failures' = 0 => Neat(d)'
      BY <1>2, <2>2, <2>3, NeatStays
    <2> QED BY <2>4, <2>5
  <1> QED BY <1>3, <1>4, <1>5, NextActs

\* ... and when nothing waits and nothing is under way, each file is where the user has it.
LEMMA SentIs == TypeOK /\ NamesInv /\ SentInv => Sent
  <1> SUFFICES ASSUME TypeOK, NamesInv, SentInv, NEW d \in Movers, Patient, failures = 0,
                      Movers = {d}, d \notin Followers, Quiet(d)
               PROVE  /\ \A k \in Files : Cardinality({i \in DOMAIN posts : posts[i].file = k}) <= 1
                      /\ \A i \in DOMAIN posts :
                           LET k == posts[i].file IN
                           IF home[k] = Nowhere THEN posts[i].deleted
                           ELSE /\ ~posts[i].deleted /\ At(posts[i]) = home[k] /\ posts[i].path = home[k]
                                /\ QueryForFile(rows[d], home[k]).id = i
                                /\ {r.id : r \in QueryByName(rows[d], home[k])} = {i}
    BY DEF Sent
  <1>1. d \in Devices /\ Owned /\ Unique(d) /\ Filed(d) /\ \A k \in Files : Told(d, k)
    BY FileNamesAssumption DEF NamesInv, SentInv
  <1>2. ASSUME NEW k \in Files PROVE Idle(d, k) /\ Pushes(d, k) = {}
    BY DEF Quiet, Idle, Asks, Dels, Jobs, Pushes
  <1>3. ASSUME NEW k \in Files PROVE Cardinality({i \in DOMAIN posts : posts[i].file = k}) <= 1
    <2> DEFINE S == {i \in DOMAIN posts : posts[i].file = k}
    <2>1. \A i, j \in S : i = j
      BY <1>1 DEF Unique
    <2>2. S = {} \/ \E i : S = {i}
      BY <2>1
    <2> HIDE DEF S
    <2>3. Cardinality(S) = 0 \/ Cardinality(S) = 1
      BY <2>2, FS_EmptySet, FS_Singleton
    <2>4. Cardinality(S) <= 1
      BY <2>3
    <2> QED BY <2>4 DEF S
  <1>4. ASSUME NEW i \in DOMAIN posts, NEW k, k = posts[i].file
        PROVE  IF home[k] = Nowhere THEN posts[i].deleted
               ELSE /\ ~posts[i].deleted /\ At(posts[i]) = home[k] /\ posts[i].path = home[k]
                    /\ QueryForFile(rows[d], home[k]).id = i
                    /\ {r.id : r \in QueryByName(rows[d], home[k])} = {i}
    <2>1. k \in Files /\ i \in PostsOf(k) /\ posts[i].path = At(posts[i])
      BY <1>1, <1>4, RecordsAre DEF PostsOf
    <2>2. Told(d, k) /\ Idle(d, k)
      BY <1>1, <1>2, <2>1
    <2>3. CASE home[k] = Nowhere
      BY <2>1, <2>2, <2>3 DEF Told
    <2>4. CASE home[k] # Nowhere
      <3>1. PICK p : p = home[k]
        OBVIOUS
      <3>2. In(d, k, p) /\ p \in Places /\ Of(p) = k
        <4>1. In(d, k, p)
          BY <2>2, <2>4, <3>1 DEF Told
        <4>2. p \in Places
          BY <2>1, <2>4, <3>1, TypeIs DEF UserTyped
        <4>3. Of(p) = k
          BY <1>1, <2>1, <2>4, <3>1 DEF Owned, HomeOwned, Of
        <4> QED BY <4>1, <4>2, <4>3
      <3>3. ~posts[i].deleted /\ At(posts[i]) = p
        BY <2>1, <3>2 DEF In, PostsAt
      <3>4. QueryForFile(rows[d], p).id = i
        <4>1. PICK fi : fi = QueryForFile(rows[d], p)
          OBVIOUS
        <4>2. RowsPath(d, k, p) /\ PostsOf(k) # {}
          BY <2>1, <3>2 DEF In, RowsAt
        <4>3. fi.id \in PostsOf(k)
          BY <1>1, <2>1, <3>2, <4>1, <4>2, InManifest
        <4> QED BY <1>1, <2>1, <4>1, <4>3, OnePost
      <3>5. \A r : r \in QueryByName(rows[d], p) => r.id = i
        <4>1. ASSUME NEW r, r \in QueryByName(rows[d], p) PROVE r.id = i
          <5>1. Holds(rows[d], r) /\ r.name = p[2]
            BY <1>1, <4>1, ByNameIs, RecordsAre
          <5>2. r.file = k /\ r.id \in DOMAIN posts /\ posts[r.id].file = r.file
            BY <1>1, <3>2, <5>1, RecordsAre DEF Of
          <5>3. r.id \in PostsOf(k)
            BY <5>2 DEF PostsOf
          <5> QED BY <1>1, <2>1, <5>3, OnePost
        <4> QED BY <4>1
      <3>6. \E r : r \in QueryByName(rows[d], p) /\ r.id = i
        <4>1. PICK r \in RowsOf(d, k) : r.id = i
          BY <1>1, <2>1, OnePost
        <4>2. Holds(rows[d], r) /\ r.name = p[2] /\ r.folder = p[1]
          BY <3>2, <4>1 DEF In, RowsAt, RowsName, RowsFolder, RowsOf
        <4> QED BY <1>1, <4>1, <4>2, ByNameIs, RecordsAre
      <3>7. {r.id : r \in QueryByName(rows[d], p)} = {i}
        BY <3>5, <3>6
      <3> QED BY <2>1, <2>4, <3>1, <3>3, <3>4, <3>7
    <2> QED BY <2>3, <2>4
  <1> QED BY <1>3, <1>4

\* When the one mover's tasks are done and no request failed, every file has one post, at
\* the place the user gave it or deleted, and a rename finds the row by path and by name
\* (RenameStrategy::RenameFile, SoftDeleteStrategy, the end of RenameTask).
THEOREM SentHolds == Spec => []Sent
  <1>1. Init /\ Patient => TypeOK /\ NamesInv /\ SentInv
    BY InitTyped, InitNames, InitSent
  <1>2. Patient /\ TypeOK /\ NamesInv /\ SentInv /\ [Next]_vars => TypeOK' /\ NamesInv' /\ SentInv'
    BY TypeStep, NamesStep, SentStep
  <1>3. TypeOK /\ NamesInv /\ SentInv => Sent
    BY SentIs
  <1>4. CASE Patient
    <2>1. Init => TypeOK /\ NamesInv /\ SentInv
      BY <1>1, <1>4
    <2>2. TypeOK /\ NamesInv /\ SentInv /\ [Next]_vars => TypeOK' /\ NamesInv' /\ SentInv'
      BY <1>2, <1>4
    <2> QED BY <1>3, <2>1, <2>2, PTL DEF Spec
  <1>5. CASE ~Patient
    <2>1. Sent
      BY <1>5 DEF Sent
    <2> QED BY <2>1, PTL DEF Spec
  <1> QED BY <1>4, <1>5
=============================================================================
