------------------------------ MODULE Coalescer ------------------------------
(***************************************************************************)
(* What the dispatch promises its callers.  A request waits until a worker *)
(* begins it.  Requests that are alike may be merged, but only while       *)
(* another one of them still waits, so that the file is looked at once     *)
(* after the last request for it.  A request that no task exists for is    *)
(* discarded.  A prompt request, one with a worker dedicated to its type,  *)
(* does not wait for ever.                                                 *)
(***************************************************************************)
EXTENDS Naturals

CONSTANTS
    Requests,     \* the contexts callers submit
    Mergeable,    \* those of a filtered type
    Servable,     \* those a task can be made for
    Prompt        \* those of a type some worker is dedicated to

VARIABLES
    waiting,      \* waiting[c]: how many requests c no worker has begun
    begun         \* begun[c]: how many tasks for c exist

avars == <<waiting, begun>>

AInit == /\ waiting = [c \in Requests |-> 0]
         /\ begun = [c \in Requests |-> 0]

Submit(c) == /\ waiting' = [waiting EXCEPT ![c] = @ + 1]
             /\ UNCHANGED begun

Merge(c) == /\ c \in Mergeable
            /\ waiting[c] > 1
            /\ waiting' = [waiting EXCEPT ![c] = @ - 1]
            /\ UNCHANGED begun

Begin(c) == /\ c \in Servable
            /\ waiting[c] > 0
            /\ waiting' = [waiting EXCEPT ![c] = @ - 1]
            /\ begun' = [begun EXCEPT ![c] = @ + 1]

Discard(c) == /\ c \notin Servable
              /\ waiting[c] > 0
              /\ waiting' = [waiting EXCEPT ![c] = @ - 1]
              /\ UNCHANGED begun

End(c) == /\ begun[c] > 0
          /\ begun' = [begun EXCEPT ![c] = @ - 1]
          /\ UNCHANGED waiting

ANext == \E c \in Requests :
            Submit(c) \/ Merge(c) \/ Begin(c) \/ Discard(c) \/ End(c)

\* What the dispatch never does, ...
ASpec == AInit /\ [][ANext]_avars
\* ... and what it does at last.
AFair == \A c \in Prompt : WF_avars(Begin(c))
=============================================================================
