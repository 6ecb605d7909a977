---------------------------- MODULE ConfigTable ----------------------------
(***************************************************************************)
(* The configuration table of the manifest (configtable.cpp) as a set of   *)
(* rows, and the FileManager's methods on it, which run under              *)
(* manifest_mtx_.  A root directory is a row: its key is the alias, its    *)
(* value the id of the folder post, its state the local path, "" while it  *)
(* is not mapped.  All four columns make the primary key.                  *)
(***************************************************************************)
EXTENDS Integers, FiniteSets

RootDir == "root_dir"

Row(type, key, value, state) == [type |-> type, key |-> key, value |-> value, state |-> state]

IsKeyInManifest(t, key) == \E r \in t : r.key = key
IsValueInManifest(t, value) == \E r \in t : r.value = value
IsStateInManifest(t, state) == \E r \in t : r.state = state

\* REPLACE on a key of four columns never replaces a row that differs in one.
InsertConfigValue(t, type, key, value, state) == t \cup {Row(type, key, value, state)}

RetrieveConfigEntry(t, key) == CHOOSE r \in t : r.key = key

\* The index of the primary key answers the query: the aliases come in order.
RetrieveConfigType(t, type) == {r \in t : r.type = type}
FirstOfType(t, type) ==
  CHOOSE r \in RetrieveConfigType(t, type) :
    \A s \in RetrieveConfigType(t, type) : r.key <= s.key

set_state_for_key(t, key, state) ==
  {IF r.key = key THEN [r EXCEPT !.state = state] ELSE r : r \in t}

PushConfigValue(t, type, key, value) ==
  IF IsKeyInManifest(t, key) THEN t ELSE InsertConfigValue(t, type, key, value, "")

AddWorkingDirectory(t, alias, path, post) ==
  IF IsStateInManifest(t, path) THEN t ELSE InsertConfigValue(t, RootDir, alias, post, path)

LinkWorkingDirectory(t, key, path) ==
  IF IsKeyInManifest(t, key) THEN set_state_for_key(t, key, path) ELSE t

\* LoadConfigPost: the values of the post the table does not have yet.
LoadConfigPost(t, entries) ==
  t \cup UNION {PushConfigValue({}, e.type, e.key, e.value) :
                  e \in {e \in entries : ~IsValueInManifest(t, e.value) /\ ~IsKeyInManifest(t, e.key)}}

\* The FileManager's map of working directories, alias to path.
LoadWorkingDirectories(t) ==
  [a \in {r.key : r \in RetrieveConfigType(t, RootDir)} |-> RetrieveConfigEntry(t, a).state]
=============================================================================
