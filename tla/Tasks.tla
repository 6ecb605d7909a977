------------------------------- MODULE Tasks -------------------------------
(***************************************************************************)
(* The task vocabulary every part of the client shares: the task types of  *)
(* Task::TaskType in the order of the enum, the types whose requests are   *)
(* filtered, and the types the worker's factory can build a task for.      *)
(*                                                                         *)
(* A TaskContext carries a type and a map of string values.  Of the values *)
(* only the one that tells two requests of a type apart matters to the     *)
(* dispatch ("filepath" for PUSH and PULL, "post_id" for UPLOADFILE, ...): *)
(* it is the context's key.                                                *)
(***************************************************************************)
EXTENDS Naturals, Sequences

\* Task::TaskType without UNKNOWN, in enum order: the order of a
\* std::map<int, ...> and of a std::map<TaskType, ...> keyed by it.
TypeOrder == << "PUSH", "PUSHPUBLIC", "UPLOADFILE", "PULL", "RENAME", "DELETE",
                "FOLDER", "SHARE", "META", "CONFIG", "QUERYMANIFEST",
                "SCANDIRECTORY", "SERVICE" >>

Types == { TypeOrder[i] : i \in 1..13 }

Rank == [ t \in Types |-> CHOOSE i \in 1..13 : TypeOrder[i] = t ]

\* t is the first type of S that an iteration of such a map meets.
IsFirst(t, S) == t \in S /\ \A u \in S : Rank[t] <= Rank[u]

\* The types TaskArbiter::FilterTask de-duplicates.
FilteredTypes == {"PUSH", "PULL"}

\* The types TaskFactory::CreateNewTentTask has a case for; for the others it
\* returns NULL.
ConstructibleTypes == Types \ {"QUERYMANIFEST", "SCANDIRECTORY"}

=============================================================================
