------------------------- MODULE TaskArbiterProofs -------------------------
(***************************************************************************)
(* TaskArbiter, for any set of workers, preferences and requests: its type *)
(* invariant, and that the duplicate filter, the pool and the workers agree *)
(* although no lock covers two of them at once.                            *)
(*                                                                         *)
(* None of the three invariants is inductive alone.  That DropDuplicate's  *)
(* twin exists needs the filter entry to have a holder; that EraseFilter   *)
(* leaves no holder without an entry needs the holder to be the only one;  *)
(* that InsertFilter and PushBack keep it so needs that nobody else fills  *)
(* the filter, that is, a single ServiceTask.  IInv is their conjunction   *)
(* with what the program counters say (Aux).                               *)
(*                                                                         *)
(* From the same IInv, that TaskArbiter implements Coalescer: the copies of *)
(* a request are counted where they wait, and each action moves one, adds   *)
(* one, or takes one away of which another still waits.                    *)
(***************************************************************************)
EXTENDS ArbiterCoalesces, FiniteSetTheorems, TLAPS

\* Where a worker stands tells what it holds.
Aux ==
    /\ \A w \in Workers : pc[w] \in {"check", "erase"} => task[w].type \in FilteredTypes
    /\ \A w \in Workers : pc[w] \in {"filter", "insert", "push"} => task[w].type = "SERVICE"
    /\ \A w \in Workers : pc[w] \in {"insert", "push"} => batch[w] # << >>
    /\ \A w \in Workers : pc[w] = "insert" =>
          /\ Head(batch[w]).type \in FilteredTypes
          /\ Head(batch[w]) \notin filter

IInv == TypeOK /\ NoStrandedFilter /\ NoDuplicateQueued /\ SingleService /\ Aux

\* Facts on the enum of task types.
LEMMA TypesFact == /\ FilteredTypes \subseteq Types
                   /\ "SERVICE" \in Types
                   /\ "SERVICE" \notin FilteredTypes
  <1>1. TypeOrder[1] = "PUSH" /\ TypeOrder[4] = "PULL" /\ TypeOrder[13] = "SERVICE"
    BY DEF TypeOrder
  <1>2. QED
    BY <1>1 DEF Types, FilteredTypes

\* Taking the head off a sequence, as pop_front does.
LEMMA TailFacts ==
  ASSUME NEW S, NEW s \in Seq(S), s # << >>
  PROVE  /\ Len(s) \in Nat /\ Len(s) >= 1
         /\ Head(s) \in S /\ Head(s) = s[1]
         /\ Tail(s) \in Seq(S) /\ Len(Tail(s)) = Len(s) - 1
         /\ \A i \in 1..Len(Tail(s)) : Tail(s)[i] = s[i + 1] /\ i + 1 \in 1..Len(s)
  OBVIOUS

\* Adding an element to a sequence, as push_back does.
LEMMA AppendFacts ==
  ASSUME NEW S, NEW s \in Seq(S), NEW x \in S
  PROVE  /\ Len(s) \in Nat
         /\ Append(s, x) \in Seq(S) /\ Len(Append(s, x)) = Len(s) + 1
         /\ \A i \in 1..Len(s) : Append(s, x)[i] = s[i]
         /\ Append(s, x)[Len(s) + 1] = x
  OBVIOUS

\* The invariant holds when the workers start.
LEMMA InitIInv == Init => IInv
  <1> SUFFICES ASSUME Init PROVE IInv
    OBVIOUS
  <1>1. ServiceContext \in Contexts /\ ServiceContext.type = "SERVICE"
    BY KeysAssumption, TypesFact DEF ServiceContext, Contexts
  <1>2. TypeOK
    <2>1. pool \in [Types -> Seq(Contexts)]
      BY <1>1, TypesFact DEF Init
    <2>2. \A t \in Types : \A i \in 1..Len(pool[t]) : pool[t][i].type = t
      BY <1>1, TypesFact DEF Init
    <2>. QED
      BY <2>1, <2>2, PrefAssumption DEF Init, TypeOK, Pcs
  <1>3. NoStrandedFilter
    BY TypesFact DEF Init, NoStrandedFilter, Clearing, Admitting, FilteredTypes
  <1>4. NoDuplicateQueued
    BY TypesFact DEF Init, NoDuplicateQueued, Clearing, Admitting, FilteredTypes
  <1>5. SingleService
    BY TypesFact DEF Init, SingleService
  <1>6. Aux
    BY DEF Init, Aux
  <1>. QED
    BY <1>2, <1>3, <1>4, <1>5, <1>6 DEF IInv

\* A request in TaskManager's queue disturbs nothing.
LEMMA SubmitStep ==
  ASSUME IInv, NEW c \in Requests, PushContextBack(c)
  PROVE  IInv'
  <1> USE DEF PushContextBack
  <1>1. TypeOK'
    BY DEF IInv, TypeOK
  <1>2. NoStrandedFilter'
    BY DEF IInv, NoStrandedFilter, Clearing, Admitting
  <1>3. NoDuplicateQueued'
    BY DEF IInv, NoDuplicateQueued, Clearing, Admitting
  <1>4. SingleService' /\ Aux'
    BY DEF IInv, SingleService, Aux
  <1>. QED
    BY <1>1, <1>2, <1>3, <1>4 DEF IInv

\* Popping a context moves the one copy of it from the pool to the worker,
\* whose filter entry stays.
LEMMA TakeStep ==
  ASSUME IInv, NEW w \in Workers, NEW t \in Types, pc[w] = "ask", Take(w, t)
  PROVE  IInv'
  <1> DEFINE h == Head(pool[t])
             n == Len(pool'[t])
  <1>1. pool[t] \in Seq(Contexts) /\ pool[t] # << >>
    BY DEF Take, IInv, TypeOK
  <1>2. /\ Len(pool[t]) \in Nat /\ Len(pool[t]) >= 1
        /\ h \in Contexts /\ h = pool[t][1] /\ h.type = t
        /\ Tail(pool[t]) \in Seq(Contexts)
    BY <1>1, TailFacts DEF IInv, TypeOK
  <1>3. /\ pool'[t] = Tail(pool[t]) /\ n = Len(pool[t]) - 1
        /\ \A u \in Types : u # t => pool'[u] = pool[u]
    BY <1>1, TailFacts DEF Take, IInv, TypeOK
  <1>4. \A i \in 1..n : pool'[t][i] = pool[t][i + 1] /\ i + 1 \in 1..Len(pool[t])
    BY <1>1, <1>3, TailFacts
  <1>5. /\ task' = [task EXCEPT ![w] = h] /\ filter' = filter /\ batch' = batch
        /\ pc' = [pc EXCEPT ![w] = IF t \in FilteredTypes THEN "check" ELSE "make"]
    BY DEF Take
  <1>6. TypeOK'
    <2>1. pool' \in [Types -> Seq(Contexts)]
      BY <1>2, <1>3 DEF Take, IInv, TypeOK
    <2>2. ask' \in [Workers -> SUBSET Types]
      BY PrefAssumption DEF Take, IInv, TypeOK
    <2>3. pc' \in [Workers -> Pcs] /\ task' \in [Workers -> Contexts \cup {NoTask}]
      BY <1>2, <1>5 DEF IInv, TypeOK, Pcs
    <2>4. \A v \in Workers : task'[v] = NoTask <=> pc'[v] = "ask"
      BY <1>2, <1>5, NoTaskAssumption DEF IInv, TypeOK
    <2>5. \A u \in Types : \A i \in 1..Len(pool'[u]) : pool'[u][i].type = u
      <3>. TAKE u \in Types
      <3>1. CASE u = t
        BY <3>1, <1>4 DEF IInv, TypeOK
      <3>2. CASE u # t
        BY <3>2, <1>3 DEF IInv, TypeOK
      <3>. QED
        BY <3>1, <3>2
    <2>. QED
      BY <2>1, <2>2, <2>3, <2>4, <2>5 DEF Take, IInv, TypeOK
  <1>7. \A v \in Workers : v # w =>
          pc'[v] = pc[v] /\ task'[v] = task[v] /\ (Clearing(v)' <=> Clearing(v))
    BY <1>5 DEF Clearing, IInv, TypeOK
  <1>8. /\ ~Clearing(w) /\ task'[w] = h
        /\ Clearing(w)' <=> t \in FilteredTypes
    BY <1>2, <1>5 DEF Clearing, IInv, TypeOK
  <1>9. \A v \in Workers : Admitting(v)' <=> Admitting(v)
    BY <1>5 DEF Admitting, IInv, TypeOK
  <1>10. NoStrandedFilter'
    <2>1. ASSUME NEW c \in filter
          PROVE  \/ \E i \in 1..Len(pool'[c.type]) : pool'[c.type][i] = c
                 \/ \E v \in Workers : Clearing(v)' /\ task'[v] = c
                 \/ \E v \in Workers : Admitting(v)' /\ Head(batch'[v]) = c
      <3>. c.type \in FilteredTypes /\ c.type \in Types
        BY TypesFact DEF IInv, TypeOK
      <3>1. CASE \E i \in 1..Len(pool[c.type]) : pool[c.type][i] = c
        <4>1. PICK i \in 1..Len(pool[c.type]) : pool[c.type][i] = c
          BY <3>1
        <4>2. CASE c.type # t
          BY <4>1, <4>2, <1>3
        <4>3. CASE c.type = t /\ i = 1
          BY <4>1, <4>3, <1>2, <1>8
        <4>4. CASE c.type = t /\ i # 1
          <5>1. i - 1 \in 1..n /\ (i - 1) + 1 = i
            BY <4>4, <1>2, <1>3
          <5>2. pool'[t][i - 1] = c
            BY <5>1, <4>1, <4>4, <1>4
          <5>. QED
            BY <5>1, <5>2, <4>4
        <4>. QED
          BY <4>2, <4>3, <4>4
      <3>2. CASE \E v \in Workers : Clearing(v) /\ task[v] = c
        BY <3>2, <1>7, <1>8
      <3>3. CASE \E v \in Workers : Admitting(v) /\ Head(batch[v]) = c
        BY <3>3, <1>5, <1>9
      <3>. QED
        BY <3>1, <3>2, <3>3 DEF IInv, NoStrandedFilter
    <2>2. \A u \in FilteredTypes : \A i \in 1..Len(pool'[u]) : pool'[u][i] \in filter
      <3>. TAKE u \in FilteredTypes
      <3>1. CASE u = t
        BY <3>1, <1>4 DEF IInv, NoStrandedFilter
      <3>2. CASE u # t
        BY <3>2, <1>3, TypesFact DEF IInv, NoStrandedFilter
      <3>. QED
        BY <3>1, <3>2
    <2>3. \A v \in Workers : Clearing(v)' => task'[v] \in filter
      BY <1>2, <1>7, <1>8 DEF IInv, NoStrandedFilter
    <2>4. \A v \in Workers : Admitting(v)' => Head(batch'[v]) \in filter
      BY <1>5, <1>9 DEF IInv, NoStrandedFilter
    <2>. QED
      BY <2>1, <2>2, <2>3, <2>4, <1>5 DEF NoStrandedFilter
  <1>11. NoDuplicateQueued'
    <2>1. ASSUME NEW u \in FilteredTypes, NEW i \in 1..Len(pool'[u]), NEW j \in 1..Len(pool'[u]),
                 pool'[u][i] = pool'[u][j]
          PROVE  i = j
      <3>1. CASE u # t
        BY <3>1, <2>1, <1>3, TypesFact DEF IInv, NoDuplicateQueued
      <3>2. CASE u = t
        <4>1. pool[t][i + 1] = pool[t][j + 1]
          BY <3>2, <2>1, <1>4
        <4>2. i + 1 = j + 1
          BY <3>2, <4>1, <1>4 DEF IInv, NoDuplicateQueued
        <4>. QED
          BY <4>2
      <3>. QED
        BY <3>1, <3>2
    <2>2. ASSUME t \in FilteredTypes
          PROVE  /\ \A i \in 1..n : pool'[t][i] # h
                 /\ \A v \in Workers : Clearing(v) => task[v] # h
                 /\ \A v \in Workers : Admitting(v) => Head(batch[v]) # h
      <3>1. ASSUME NEW i \in 1..n
            PROVE  pool'[t][i] # h
        <4>1. pool'[t][i] = pool[t][i + 1] /\ i + 1 \in 1..Len(pool[t]) /\ i + 1 # 1
          BY <1>4
        <4>. QED
          BY <4>1, <2>2, <1>2 DEF IInv, NoDuplicateQueued
      <3>2. 1 \in 1..Len(pool[t])
        BY <1>2
      <3>. QED
        BY <2>2, <3>1, <3>2, <1>2 DEF IInv, NoDuplicateQueued
    <2>3. \A u \in FilteredTypes : \A i \in 1..Len(pool'[u]) :
             \E j \in 1..Len(pool[u]) : pool'[u][i] = pool[u][j]
      <3>. TAKE u \in FilteredTypes
      <3>. TAKE i \in 1..Len(pool'[u])
      <3>1. CASE u = t
        BY <3>1, <1>4
      <3>2. CASE u # t
        BY <3>2, <1>3, TypesFact
      <3>. QED
        BY <3>1, <3>2
    <2>4. ASSUME NEW v \in Workers, Clearing(v)'
          PROVE  /\ \A i \in 1..Len(pool'[task'[v].type]) : pool'[task'[v].type][i] # task'[v]
                 /\ \A x \in Workers : Clearing(x)' /\ task'[x] = task'[v] => x = v
                 /\ \A x \in Workers : Admitting(x)' => Head(batch'[x]) # task'[v]
      <3>1. CASE v = w
        BY <3>1, <2>2, <2>4, <1>2, <1>5, <1>7, <1>8, <1>9
      <3>2. CASE v # w
        <4>1. Clearing(v) /\ task'[v] = task[v] /\ task[v].type \in FilteredTypes
          BY <3>2, <2>4, <1>7 DEF Clearing
        <4>2. \A x \in Workers : Clearing(x)' /\ task'[x] = task[v] => x = v
          BY <4>1, <2>2, <1>7, <1>8 DEF IInv, NoDuplicateQueued
        <4>. QED
          BY <4>1, <4>2, <2>3, <1>5, <1>9 DEF IInv, NoDuplicateQueued
      <3>. QED
        BY <3>1, <3>2
    <2>5. ASSUME NEW v \in Workers, Admitting(v)'
          PROVE  \A i \in 1..Len(pool'[Head(batch'[v]).type]) :
                    pool'[Head(batch'[v]).type][i] # Head(batch'[v])
      <3>1. batch'[v] = batch[v] /\ Admitting(v) /\ Head(batch[v]).type \in FilteredTypes
        BY <2>5, <1>5, <1>9 DEF Admitting
      <3>2. \A i \in 1..Len(pool[Head(batch[v]).type]) :
               pool[Head(batch[v]).type][i] # Head(batch[v])
        BY <3>1 DEF IInv, NoDuplicateQueued
      <3>. QED
        BY <3>1, <3>2, <2>3
    <2>. QED
      BY <2>1, <2>4, <2>5 DEF NoDuplicateQueued
  <1>12. SingleService'
    <2>1. CASE t = "SERVICE"
      <3>1. pool'["SERVICE"] = << >>
        BY <2>1, <1>1, <1>2, <1>3 DEF IInv, SingleService
      <3>2. \A v \in Workers : ~(pc[v] # "ask" /\ task[v].type = "SERVICE")
        BY <2>1, <1>1 DEF IInv, SingleService
      <3>. QED
        BY <3>1, <3>2, <1>5, <1>7 DEF IInv, SingleService, TypeOK
    <2>2. CASE t # "SERVICE"
      <3>1. pool'["SERVICE"] = pool["SERVICE"]
        BY <2>2, <1>3, TypesFact
      <3>2. task'[w].type # "SERVICE"
        BY <2>2, <1>2, <1>8
      <3>. QED
        BY <3>1, <3>2, <1>5, <1>7 DEF IInv, SingleService, TypeOK
    <2>. QED
      BY <2>1, <2>2
  <1>13. Aux'
    BY <1>2, <1>5, <1>7, <1>8 DEF IInv, Aux, TypeOK
  <1>. QED
    BY <1>6, <1>10, <1>11, <1>12, <1>13 DEF IInv

\* The steps of a worker that finds nothing, or that has its context.
LEMMA SkipPreferredStep ==
  ASSUME IInv, NEW w \in Workers, SkipPreferred(w)
  PROVE  IInv'
  <1> USE TypesFact DEF SkipPreferred
  <1>1. TypeOK'
    <2>1. PICK t \in ask[w] : ask' = [ask EXCEPT ![w] = @ \ {t}]
      OBVIOUS
    <2>2. ask' \in [Workers -> SUBSET Types]
      BY <2>1 DEF IInv, TypeOK
    <2>. QED
      BY <2>2 DEF IInv, TypeOK
  <1>2. NoStrandedFilter'
    BY DEF IInv, NoStrandedFilter, Clearing, Admitting, TypeOK, Pcs, Aux, SingleService
  <1>3. NoDuplicateQueued'
    BY DEF IInv, NoDuplicateQueued, Clearing, Admitting, TypeOK, Pcs, Aux, SingleService, NoStrandedFilter
  <1>4. SingleService'
    BY DEF IInv, SingleService, TypeOK, Pcs, Aux
  <1>5. Aux'
    BY DEF IInv, SingleService, TypeOK, Pcs, Aux
  <1>. QED
    BY <1>1, <1>2, <1>3, <1>4, <1>5 DEF IInv

\* A worker that found nothing asks for all its preferences again.
LEMMA FindNothingStep ==
  ASSUME IInv, NEW w \in Workers, FindNothing(w)
  PROVE  IInv'
  <1> USE TypesFact DEF FindNothing
  <1>1. TypeOK'
    BY PrefAssumption, RequestsAssumption, NoTaskAssumption DEF IInv, TypeOK, Pcs, Aux, Contexts
  <1>2. NoStrandedFilter'
    BY DEF IInv, NoStrandedFilter, Clearing, Admitting, TypeOK, Pcs, Aux, SingleService
  <1>3. NoDuplicateQueued'
    BY DEF IInv, NoDuplicateQueued, Clearing, Admitting, TypeOK, Pcs, Aux, SingleService, NoStrandedFilter
  <1>4. SingleService'
    BY DEF IInv, SingleService, TypeOK, Pcs, Aux
  <1>5. Aux'
    BY DEF IInv, SingleService, TypeOK, Pcs, Aux
  <1>. QED
    BY <1>1, <1>2, <1>3, <1>4, <1>5 DEF IInv

\* The factory makes a task of a context whose filter entry is gone.
LEMMA MakeTaskStep ==
  ASSUME IInv, NEW w \in Workers, MakeTask(w)
  PROVE  IInv'
  <1> USE TypesFact DEF MakeTask
  <1>1. TypeOK'
    BY PrefAssumption, RequestsAssumption, NoTaskAssumption DEF IInv, TypeOK, Pcs, Aux, Contexts
  <1>2. NoStrandedFilter'
    BY DEF IInv, NoStrandedFilter, Clearing, Admitting, TypeOK, Pcs, Aux, SingleService
  <1>3. NoDuplicateQueued'
    BY DEF IInv, NoDuplicateQueued, Clearing, Admitting, TypeOK, Pcs, Aux, SingleService, NoStrandedFilter
  <1>4. SingleService'
    BY DEF IInv, SingleService, TypeOK, Pcs, Aux
  <1>5. Aux'
    BY DEF IInv, SingleService, TypeOK, Pcs, Aux
  <1>. QED
    BY <1>1, <1>2, <1>3, <1>4, <1>5 DEF IInv

\* A context the factory has no case for was never filtered.
LEMMA DropUnconstructibleStep ==
  ASSUME IInv, NEW w \in Workers, DropUnconstructible(w)
  PROVE  IInv'
  <1> USE TypesFact DEF DropUnconstructible
  <1>1. TypeOK'
    BY PrefAssumption, RequestsAssumption, NoTaskAssumption DEF IInv, TypeOK, Pcs, Aux, Contexts
  <1>2. NoStrandedFilter'
    BY DEF IInv, NoStrandedFilter, Clearing, Admitting, TypeOK, Pcs, Aux, SingleService
  <1>3. NoDuplicateQueued'
    BY DEF IInv, NoDuplicateQueued, Clearing, Admitting, TypeOK, Pcs, Aux, SingleService, NoStrandedFilter
  <1>4. SingleService'
    BY DEF IInv, SingleService, TypeOK, Pcs, Aux
  <1>5. Aux'
    BY DEF IInv, SingleService, TypeOK, Pcs, Aux
  <1>. QED
    BY <1>1, <1>2, <1>3, <1>4, <1>5 DEF IInv

\* Starting a task touches no queue.
LEMMA StartTaskStep ==
  ASSUME IInv, NEW w \in Workers, StartTask(w)
  PROVE  IInv'
  <1> USE TypesFact DEF StartTask
  <1>1. TypeOK'
    BY PrefAssumption, RequestsAssumption, NoTaskAssumption DEF IInv, TypeOK, Pcs, Aux, Contexts
  <1>2. NoStrandedFilter'
    BY DEF IInv, NoStrandedFilter, Clearing, Admitting, TypeOK, Pcs, Aux, SingleService
  <1>3. NoDuplicateQueued'
    BY DEF IInv, NoDuplicateQueued, Clearing, Admitting, TypeOK, Pcs, Aux, SingleService, NoStrandedFilter
  <1>4. SingleService'
    BY DEF IInv, SingleService, TypeOK, Pcs, Aux
  <1>5. Aux'
    BY DEF IInv, SingleService, TypeOK, Pcs, Aux
  <1>. QED
    BY <1>1, <1>2, <1>3, <1>4, <1>5 DEF IInv

\* Nor does running one.
LEMMA RunTaskStep ==
  ASSUME IInv, NEW w \in Workers, RunTask(w)
  PROVE  IInv'
  <1> USE TypesFact DEF RunTask
  <1>1. TypeOK'
    BY PrefAssumption, RequestsAssumption, NoTaskAssumption DEF IInv, TypeOK, Pcs, Aux, Contexts
  <1>2. NoStrandedFilter'
    BY DEF IInv, NoStrandedFilter, Clearing, Admitting, TypeOK, Pcs, Aux, SingleService
  <1>3. NoDuplicateQueued'
    BY DEF IInv, NoDuplicateQueued, Clearing, Admitting, TypeOK, Pcs, Aux, SingleService, NoStrandedFilter
  <1>4. SingleService'
    BY DEF IInv, SingleService, TypeOK, Pcs, Aux
  <1>5. Aux'
    BY DEF IInv, SingleService, TypeOK, Pcs, Aux
  <1>. QED
    BY <1>1, <1>2, <1>3, <1>4, <1>5 DEF IInv

\* A worker whose task is reclaimed has no context.
LEMMA FinishTaskStep ==
  ASSUME IInv, NEW w \in Workers, FinishTask(w)
  PROVE  IInv'
  <1> USE TypesFact DEF FinishTask
  <1>1. TypeOK'
    BY PrefAssumption, RequestsAssumption, NoTaskAssumption DEF IInv, TypeOK, Pcs, Aux, Contexts
  <1>2. NoStrandedFilter'
    BY DEF IInv, NoStrandedFilter, Clearing, Admitting, TypeOK, Pcs, Aux, SingleService
  <1>3. NoDuplicateQueued'
    BY DEF IInv, NoDuplicateQueued, Clearing, Admitting, TypeOK, Pcs, Aux, SingleService, NoStrandedFilter
  <1>4. SingleService'
    BY DEF IInv, SingleService, TypeOK, Pcs, Aux
  <1>5. Aux'
    BY DEF IInv, SingleService, TypeOK, Pcs, Aux
  <1>. QED
    BY <1>1, <1>2, <1>3, <1>4, <1>5 DEF IInv

\* The steps of the service that change neither the filter nor the pool.
LEMMA RetrieveContextQueueStep ==
  ASSUME IInv, NEW w \in Workers, RetrieveContextQueue(w)
  PROVE  IInv'
  <1> USE TypesFact DEF RetrieveContextQueue
  <1>1. TypeOK'
    <2>1. hold' \in Seq(Requests)
      OBVIOUS
    <2>2. batch' \in [Workers -> Seq(Requests)]
      BY DEF IInv, TypeOK
    <2>3. pc' \in [Workers -> Pcs]
      BY DEF IInv, TypeOK, Pcs
    <2>4. \A v \in Workers : task'[v] = NoTask <=> pc'[v] = "ask"
      BY DEF IInv, TypeOK
    <2>. QED
      BY <2>1, <2>2, <2>3, <2>4 DEF IInv, TypeOK
  <1>2. NoStrandedFilter'
    BY DEF IInv, NoStrandedFilter, Clearing, Admitting, TypeOK, Pcs, Aux, SingleService
  <1>3. NoDuplicateQueued'
    BY DEF IInv, NoDuplicateQueued, Clearing, Admitting, TypeOK, Pcs, Aux, SingleService, NoStrandedFilter
  <1>4. SingleService'
    BY DEF IInv, SingleService, TypeOK, Pcs, Aux
  <1>5. Aux'
    BY DEF IInv, SingleService, TypeOK, Pcs, Aux
  <1>. QED
    BY <1>1, <1>2, <1>3, <1>4, <1>5 DEF IInv

\* A context that needs no entry goes to the pool without one.
LEMMA PassUnfilteredStep ==
  ASSUME IInv, NEW w \in Workers, PassUnfiltered(w)
  PROVE  IInv'
  <1> USE TypesFact DEF PassUnfiltered
  <1>1. TypeOK'
    BY PrefAssumption, RequestsAssumption, NoTaskAssumption DEF IInv, TypeOK, Pcs, Aux, Contexts
  <1>2. NoStrandedFilter'
    BY DEF IInv, NoStrandedFilter, Clearing, Admitting, TypeOK, Pcs, Aux, SingleService
  <1>3. NoDuplicateQueued'
    BY DEF IInv, NoDuplicateQueued, Clearing, Admitting, TypeOK, Pcs, Aux, SingleService, NoStrandedFilter
  <1>4. SingleService'
    BY DEF IInv, SingleService, TypeOK, Pcs, Aux
  <1>5. Aux'
    BY DEF IInv, SingleService, TypeOK, Pcs, Aux
  <1>. QED
    BY <1>1, <1>2, <1>3, <1>4, <1>5 DEF IInv

\* A duplicate leaves the batch; its twin keeps the entry.
LEMMA DropDuplicateStep ==
  ASSUME IInv, NEW w \in Workers, DropDuplicate(w)
  PROVE  IInv'
  <1> USE TypesFact DEF DropDuplicate
  <1>1. TypeOK'
    <2>1. batch[w] \in Seq(Requests)
      BY DEF IInv, TypeOK
    <2>2. Tail(batch[w]) \in Seq(Requests)
      BY <2>1, TailFacts
    <2>3. batch' \in [Workers -> Seq(Requests)]
      BY <2>2 DEF IInv, TypeOK
    <2>. QED
      BY <2>3 DEF IInv, TypeOK
  <1>2. NoStrandedFilter'
    BY DEF IInv, NoStrandedFilter, Clearing, Admitting, TypeOK, Pcs, Aux, SingleService
  <1>3. NoDuplicateQueued'
    BY DEF IInv, NoDuplicateQueued, Clearing, Admitting, TypeOK, Pcs, Aux, SingleService, NoStrandedFilter
  <1>4. SingleService'
    BY DEF IInv, SingleService, TypeOK, Pcs, Aux
  <1>5. Aux'
    BY DEF IInv, SingleService, TypeOK, Pcs, Aux
  <1>. QED
    BY <1>1, <1>2, <1>3, <1>4, <1>5 DEF IInv

\* The check that a context is new changes nothing yet.
LEMMA AdmitNewStep ==
  ASSUME IInv, NEW w \in Workers, AdmitNew(w)
  PROVE  IInv'
  <1> USE TypesFact DEF AdmitNew
  <1>1. TypeOK'
    BY PrefAssumption, RequestsAssumption, NoTaskAssumption DEF IInv, TypeOK, Pcs, Aux, Contexts
  <1>2. NoStrandedFilter'
    BY DEF IInv, NoStrandedFilter, Clearing, Admitting, TypeOK, Pcs, Aux, SingleService
  <1>3. NoDuplicateQueued'
    BY DEF IInv, NoDuplicateQueued, Clearing, Admitting, TypeOK, Pcs, Aux, SingleService, NoStrandedFilter
  <1>4. SingleService'
    BY DEF IInv, SingleService, TypeOK, Pcs, Aux
  <1>5. Aux'
    BY DEF IInv, SingleService, TypeOK, Pcs, Aux
  <1>. QED
    BY <1>1, <1>2, <1>3, <1>4, <1>5 DEF IInv

\* The service polls again when its batch is empty.
LEMMA EndOfBatchStep ==
  ASSUME IInv, NEW w \in Workers, EndOfBatch(w)
  PROVE  IInv'
  <1> USE TypesFact DEF EndOfBatch
  <1>1. TypeOK'
    BY PrefAssumption, RequestsAssumption, NoTaskAssumption DEF IInv, TypeOK, Pcs, Aux, Contexts
  <1>2. NoStrandedFilter'
    BY DEF IInv, NoStrandedFilter, Clearing, Admitting, TypeOK, Pcs, Aux, SingleService
  <1>3. NoDuplicateQueued'
    BY DEF IInv, NoDuplicateQueued, Clearing, Admitting, TypeOK, Pcs, Aux, SingleService, NoStrandedFilter
  <1>4. SingleService'
    BY DEF IInv, SingleService, TypeOK, Pcs, Aux
  <1>5. Aux'
    BY DEF IInv, SingleService, TypeOK, Pcs, Aux
  <1>. QED
    BY <1>1, <1>2, <1>3, <1>4, <1>5 DEF IInv

\* Clearing the filter for the context just popped.
LEMMA CheckFilterStep ==
  ASSUME IInv, NEW w \in Workers, CheckFilter(w)
  PROVE  IInv'
  <1> USE TypesFact DEF CheckFilter
  <1>1. TypeOK'
    BY PrefAssumption, RequestsAssumption, NoTaskAssumption DEF IInv, TypeOK, Pcs, Aux, Contexts
  <1>2. NoStrandedFilter'
    BY DEF IInv, NoStrandedFilter, Clearing, Admitting, TypeOK, Pcs, Aux, SingleService
  <1>3. NoDuplicateQueued'
    BY DEF IInv, NoDuplicateQueued, Clearing, Admitting, TypeOK, Pcs, Aux, SingleService, NoStrandedFilter
  <1>4. SingleService'
    BY DEF IInv, SingleService, TypeOK, Pcs, Aux
  <1>5. Aux'
    BY DEF IInv, SingleService, TypeOK, Pcs, Aux
  <1>. QED
    BY <1>1, <1>2, <1>3, <1>4, <1>5 DEF IInv

\* The entry goes, and with it the last copy that needed one: no other worker
\* and no pool entry holds the context.
LEMMA EraseFilterStep ==
  ASSUME IInv, NEW w \in Workers, EraseFilter(w)
  PROVE  IInv'
  <1> USE TypesFact DEF EraseFilter
  <1>1. TypeOK'
    BY PrefAssumption, RequestsAssumption, NoTaskAssumption DEF IInv, TypeOK, Pcs, Aux, Contexts
  <1>2. NoStrandedFilter'
    <2>. DEFINE k == task[w]
    <2>1. Clearing(w) /\ ~Clearing(w)' /\ filter' = filter \ {k} /\ k.type \in FilteredTypes
      BY DEF Clearing, IInv, Aux, TypeOK, Pcs
    <2>2. \A v \in Workers : Clearing(v)' => Clearing(v) /\ v # w
      BY <2>1 DEF Clearing, IInv, TypeOK, Pcs
    <2>3. \A v \in Workers : Clearing(v) /\ v # w => Clearing(v)'
      BY DEF Clearing, IInv, TypeOK, Pcs
    <2>4. \A v \in Workers : Admitting(v)' <=> Admitting(v)
      BY DEF Admitting, IInv, TypeOK, Pcs
    <2>5. ASSUME NEW c \in filter'
          PROVE  \/ \E i \in 1..Len(pool'[c.type]) : pool'[c.type][i] = c
                 \/ \E v \in Workers : Clearing(v)' /\ task'[v] = c
                 \/ \E v \in Workers : Admitting(v)' /\ Head(batch'[v]) = c
      BY <2>1, <2>3, <2>4 DEF IInv, NoStrandedFilter
    <2>6. \A t \in FilteredTypes : \A i \in 1..Len(pool[t]) : pool[t][i] # k
      <3>. SUFFICES ASSUME NEW t \in FilteredTypes, NEW i \in 1..Len(pool[t]), pool[t][i] = k
                    PROVE  FALSE
        OBVIOUS
      <3>1. k.type = t
        BY DEF IInv, TypeOK
      <3>. QED
        BY <3>1, <2>1 DEF IInv, NoDuplicateQueued
    <2>7. \A v \in Workers : Clearing(v)' => task'[v] \in filter'
      BY <2>1, <2>2 DEF IInv, NoStrandedFilter, NoDuplicateQueued
    <2>8. \A v \in Workers : Admitting(v)' => Head(batch'[v]) \in filter'
      BY <2>1, <2>4 DEF IInv, NoStrandedFilter, NoDuplicateQueued
    <2>9. \A t \in FilteredTypes : \A i \in 1..Len(pool'[t]) : pool'[t][i] \in filter'
      BY <2>1, <2>6 DEF IInv, NoStrandedFilter
    <2>. QED
      BY <2>5, <2>7, <2>8, <2>9 DEF NoStrandedFilter
  <1>3. NoDuplicateQueued'
    BY DEF IInv, NoDuplicateQueued, Clearing, Admitting, TypeOK, Pcs, Aux, SingleService, NoStrandedFilter
  <1>4. SingleService'
    BY DEF IInv, SingleService, TypeOK, Pcs, Aux
  <1>5. Aux'
    BY DEF IInv, SingleService, TypeOK, Pcs, Aux
  <1>. QED
    BY <1>1, <1>2, <1>3, <1>4, <1>5 DEF IInv

\* The service enters a context nobody holds.
LEMMA InsertFilterStep ==
  ASSUME IInv, NEW w \in Workers, InsertFilter(w)
  PROVE  IInv'
  <1> USE TypesFact DEF InsertFilter
  <1>1. TypeOK'
    <2>1. batch[w] \in Seq(Requests) /\ batch[w] # << >>
      BY DEF IInv, TypeOK, Aux
    <2>2. Head(batch[w]) \in Requests /\ Head(batch[w]).type \in FilteredTypes
      BY <2>1, TailFacts DEF IInv, Aux
    <2>3. filter' \subseteq { c \in Requests : c.type \in FilteredTypes }
      BY <2>2 DEF IInv, TypeOK
    <2>. QED
      BY <2>3 DEF IInv, TypeOK, Pcs
  <1>2. NoStrandedFilter'
    <2>. DEFINE h == Head(batch[w])
    <2>1. h \notin filter /\ filter' = filter \cup {h} /\ h.type \in FilteredTypes
      BY DEF IInv, Aux
    <2>2. Admitting(w)' /\ Head(batch'[w]) = h
      BY <2>1 DEF Admitting, IInv, TypeOK
    <2>3. \A v \in Workers : v # w =>
              /\ Clearing(v)' <=> Clearing(v)
              /\ ~Admitting(v)' /\ ~Admitting(v)
      BY DEF Clearing, Admitting, IInv, Aux, SingleService, TypeOK, Pcs
    <2>4. ~Clearing(w) /\ ~Clearing(w)' /\ ~Admitting(w)
      BY DEF Clearing, Admitting, IInv, TypeOK, Pcs
    <2>5. ASSUME NEW c \in filter'
          PROVE  \/ \E i \in 1..Len(pool'[c.type]) : pool'[c.type][i] = c
                 \/ \E v \in Workers : Clearing(v)' /\ task'[v] = c
                 \/ \E v \in Workers : Admitting(v)' /\ Head(batch'[v]) = c
      <3>1. CASE c = h
        BY <3>1, <2>2
      <3>2. CASE c \in filter
        BY <3>2, <2>3, <2>4 DEF IInv, NoStrandedFilter
      <3>. QED
        BY <3>1, <3>2, <2>1
    <2>6. \A v \in Workers : Clearing(v)' => task'[v] \in filter'
      BY <2>1, <2>3, <2>4 DEF IInv, NoStrandedFilter
    <2>7. \A v \in Workers : Admitting(v)' => Head(batch'[v]) \in filter'
      BY <2>1, <2>2, <2>3
    <2>8. \A t \in FilteredTypes : \A i \in 1..Len(pool'[t]) : pool'[t][i] \in filter'
      BY <2>1 DEF IInv, NoStrandedFilter
    <2>. QED
      BY <2>5, <2>6, <2>7, <2>8 DEF NoStrandedFilter
  <1>3. NoDuplicateQueued'
    BY DEF IInv, NoDuplicateQueued, Clearing, Admitting, TypeOK, Pcs, Aux, SingleService, NoStrandedFilter
  <1>4. SingleService'
    BY DEF IInv, SingleService, TypeOK, Pcs, Aux
  <1>5. Aux'
    BY DEF IInv, SingleService, TypeOK, Pcs, Aux
  <1>. QED
    BY <1>1, <1>2, <1>3, <1>4, <1>5 DEF IInv

\* The service pushes the copy it admitted: by then it is still the only one.
LEMMA PushBackStep ==
  ASSUME IInv, NEW w \in Workers, PushBack(w)
  PROVE  IInv'
  <1> DEFINE h == Head(batch[w])
             t == h.type
             n == Len(pool[t]) + 1
  <1>1. batch[w] \in Seq(Requests) /\ batch[w] # << >>
    BY DEF PushBack, IInv, TypeOK, Aux
  <1>2. h \in Requests /\ h \in Contexts /\ t \in Types /\ t # "SERVICE"
    BY <1>1, TailFacts, RequestsAssumption DEF Contexts
  <1>3. pool' = [pool EXCEPT ![t] = Append(pool[t], h)] /\ pool[t] \in Seq(Contexts)
    BY <1>2 DEF PushBack, IInv, TypeOK
  <1>4. /\ n \in Nat /\ n >= 1
        /\ pool'[t] \in Seq(Contexts) /\ Len(pool'[t]) = n
        /\ pool'[t][n] = h
        /\ \A i \in 1..Len(pool[t]) : pool'[t][i] = pool[t][i]
        /\ \A u \in Types : u # t => pool'[u] = pool[u]
    BY <1>2, <1>3, AppendFacts DEF IInv, TypeOK
  <1>5. /\ task' = task /\ filter' = filter
        /\ pc' = [pc EXCEPT ![w] = "filter"] /\ pc[w] = "push"
        /\ batch' = [batch EXCEPT ![w] = Tail(batch[w])]
    BY DEF PushBack
  <1>6. Tail(batch[w]) \in Seq(Requests)
    BY <1>1, TailFacts
  <1>7. TypeOK'
    <2>1. pool' \in [Types -> Seq(Contexts)]
      BY <1>2, <1>3, <1>4 DEF IInv, TypeOK
    <2>2. batch' \in [Workers -> Seq(Requests)]
      BY <1>5, <1>6 DEF IInv, TypeOK
    <2>3. pc' \in [Workers -> Pcs]
      BY <1>5 DEF IInv, TypeOK, Pcs
    <2>4. \A v \in Workers : task'[v] = NoTask <=> pc'[v] = "ask"
      BY <1>5 DEF IInv, TypeOK
    <2>5. \A u \in Types : \A i \in 1..Len(pool'[u]) : pool'[u][i].type = u
      <3>. TAKE u \in Types
      <3>. TAKE i \in 1..Len(pool'[u])
      <3>1. CASE u # t
        BY <3>1, <1>4 DEF IInv, TypeOK
      <3>2. CASE u = t /\ i = n
        BY <3>2, <1>4
      <3>3. CASE u = t /\ i # n
        <4>1. i \in 1..Len(pool[t])
          BY <3>3, <1>4
        <4>2. pool[t][i].type = t
          BY <4>1, <1>2 DEF IInv, TypeOK
        <4>. QED
          BY <4>1, <4>2, <3>3, <1>4
      <3>. QED
        BY <3>1, <3>2, <3>3
    <2>. QED
      BY <2>1, <2>2, <2>3, <2>4, <2>5 DEF PushBack, IInv, TypeOK
  <1>8. \A v \in Workers : Clearing(v)' <=> Clearing(v)
    BY <1>5 DEF Clearing, IInv, TypeOK, Pcs
  <1>9. \A v \in Workers : ~Admitting(v)' /\ (Admitting(v) => v = w)
    BY <1>5 DEF Admitting, IInv, TypeOK, Aux, SingleService
  <1>10. t \in FilteredTypes => Admitting(w)
    BY <1>5 DEF Admitting
  <1>11. \A u \in FilteredTypes : \A i \in 1..Len(pool'[u]) :
            \/ u = t /\ i = n /\ pool'[u][i] = h
            \/ i \in 1..Len(pool[u]) /\ pool'[u][i] = pool[u][i] /\ (u = t => i # n)
    BY <1>4, TypesFact
  <1>12. NoStrandedFilter'
    <2>1. ASSUME NEW c \in filter
          PROVE  \/ \E i \in 1..Len(pool'[c.type]) : pool'[c.type][i] = c
                 \/ \E v \in Workers : Clearing(v)' /\ task'[v] = c
      <3>. c.type \in FilteredTypes /\ c.type \in Types
        BY TypesFact DEF IInv, TypeOK
      <3>1. CASE \E i \in 1..Len(pool[c.type]) : pool[c.type][i] = c
        <4>1. PICK i \in 1..Len(pool[c.type]) : pool[c.type][i] = c
          BY <3>1
        <4>2. i \in 1..Len(pool'[c.type]) /\ pool'[c.type][i] = c
          BY <4>1, <1>4
        <4>. QED
          BY <4>2
      <3>2. CASE \E v \in Workers : Clearing(v) /\ task[v] = c
        BY <3>2, <1>5, <1>8
      <3>3. CASE \E v \in Workers : Admitting(v) /\ Head(batch[v]) = c
        <4>1. c = h
          BY <3>3, <1>9
        <4>. QED
          BY <4>1, <1>4
      <3>. QED
        BY <3>1, <3>2, <3>3 DEF IInv, NoStrandedFilter
    <2>2. \A u \in FilteredTypes : \A i \in 1..Len(pool'[u]) : pool'[u][i] \in filter
      BY <1>9, <1>10, <1>11 DEF IInv, NoStrandedFilter
    <2>3. \A v \in Workers : Clearing(v)' => task'[v] \in filter
      BY <1>5, <1>8 DEF IInv, NoStrandedFilter
    <2>. QED
      BY <2>1, <2>2, <2>3, <1>5, <1>9 DEF NoStrandedFilter
  <1>13. NoDuplicateQueued'
    <2>1. ASSUME NEW u \in FilteredTypes, NEW i \in 1..Len(pool'[u]), NEW j \in 1..Len(pool'[u]),
                 pool'[u][i] = pool'[u][j]
          PROVE  i = j
      <3>1. CASE u # t
        BY <3>1, <2>1, <1>11 DEF IInv, NoDuplicateQueued
      <3>2. CASE u = t
        <4>1. \A k \in 1..Len(pool[t]) : pool[t][k] # h
          BY <3>2, <1>10 DEF IInv, NoDuplicateQueued
        <4>. QED
          BY <3>2, <4>1, <2>1, <1>11 DEF IInv, NoDuplicateQueued
      <3>. QED
        BY <3>1, <3>2
    <2>2. ASSUME NEW v \in Workers, Clearing(v)
          PROVE  /\ \A i \in 1..Len(pool'[task[v].type]) : pool'[task[v].type][i] # task[v]
                 /\ \A x \in Workers : Clearing(x) /\ task[x] = task[v] => x = v
      <3>1. task[v].type \in FilteredTypes
        BY <2>2 DEF Clearing
      <3>2. task[v].type = t => task[v] # h
        BY <3>1, <2>2, <1>10 DEF IInv, NoDuplicateQueued
      <3>. QED
        BY <3>1, <3>2, <2>2, <1>11 DEF IInv, NoDuplicateQueued
    <2>. QED
      BY <2>1, <2>2, <1>5, <1>8, <1>9 DEF NoDuplicateQueued
  <1>14. SingleService'
    <2>1. pool'["SERVICE"] = pool["SERVICE"]
      BY <1>2, <1>4, TypesFact
    <2>2. \A v \in Workers : pc'[v] # "ask" <=> pc[v] # "ask"
      BY <1>5 DEF IInv, TypeOK
    <2>3. \A v \in Workers : batch'[v] # << >> => pc'[v] \in {"filter", "insert", "push"}
      BY <1>5 DEF IInv, TypeOK, SingleService
    <2>. QED
      BY <2>1, <2>2, <2>3, <1>5 DEF IInv, SingleService
  <1>15. Aux'
    BY <1>5 DEF IInv, Aux, TypeOK, Pcs, SingleService
  <1>. QED
    BY <1>7, <1>12, <1>13, <1>14, <1>15 DEF IInv

\* The invariant is inductive: one case per action.
LEMMA StepIInv == IInv /\ [Next]_vars => IInv'
  <1> SUFFICES ASSUME IInv, [Next]_vars PROVE IInv'
    OBVIOUS
  <1>1. ASSUME NEW c \in Requests, PushContextBack(c) PROVE IInv'
    BY <1>1, SubmitStep
  <1>2. ASSUME NEW w \in Workers, Retrieve(w) PROVE IInv'
    <2>1. CASE TakePreferred(w)
      <3>1. PICK t \in ask[w] : Take(w, t)
        BY <2>1 DEF TakePreferred
      <3>2. t \in Types /\ pc[w] = "ask"
        BY <2>1 DEF TakePreferred, IInv, TypeOK
      <3>. QED
        BY <3>1, <3>2, TakeStep
    <2>2. CASE TakeAny(w)
      <3>1. PICK t \in Types : Take(w, t)
        BY <2>2 DEF TakeAny
      <3>2. pc[w] = "ask"
        BY <2>2 DEF TakeAny
      <3>. QED
        BY <3>1, <3>2, TakeStep
    <2>. QED
      BY <1>2, <2>1, <2>2, SkipPreferredStep, FindNothingStep, CheckFilterStep,
         EraseFilterStep DEF Retrieve
  <1>3. ASSUME NEW w \in Workers, Poll(w) PROVE IInv'
    BY <1>3, MakeTaskStep, DropUnconstructibleStep, StartTaskStep, RunTaskStep,
       FinishTaskStep DEF Poll
  <1>4. ASSUME NEW w \in Workers, Service(w) PROVE IInv'
    BY <1>4, RetrieveContextQueueStep, PassUnfilteredStep, DropDuplicateStep,
       AdmitNewStep, InsertFilterStep, PushBackStep, EndOfBatchStep DEF Service
  <1>5. CASE UNCHANGED vars
    BY <1>5 DEF vars, IInv, TypeOK, NoStrandedFilter, NoDuplicateQueued, SingleService,
                Aux, Clearing, Admitting
  <1>. QED
    BY <1>1, <1>2, <1>3, <1>4, <1>5 DEF Next, Run

\* The invariant holds throughout.
LEMMA Invariance == Spec => []IInv
  BY InitIInv, StepIInv, PTL DEF Spec

\* Every variable keeps its type, for every pool of workers.
THEOREM TypeCorrect == Spec => []TypeOK
  <1>1. IInv => TypeOK
    BY DEF IInv
  <1>. QED
    BY <1>1, Invariance, PTL

\* task_filter_ has an entry exactly while the context it stands for is queued
\* or being taken, so no later upload or download of a file is lost for good.
THEOREM FilterNeverStranded == Spec => []NoStrandedFilter
  <1>1. IInv => NoStrandedFilter
    BY DEF IInv
  <1>. QED
    BY <1>1, Invariance, PTL

\* At most one copy of an upload or download is queued, between any two
\* critical sections of the arbiter and of the pool.
THEOREM QueuedOnce == Spec => []NoDuplicateQueued
  <1>1. IInv => NoDuplicateQueued
    BY DEF IInv
  <1>. QED
    BY <1>1, Invariance, PTL

\* One worker at most runs the ServiceTask.
THEOREM OneService == Spec => []SingleService
  <1>1. IInv => SingleService
    BY DEF IInv
  <1>. QED
    BY <1>1, Invariance, PTL

-----------------------------------------------------------------------------
(***************************************************************************)
(* The dispatch as the coalescer it is.  What the counts of Coalescer are, *)
(* and how appending, taking the head and a worker's step change them.     *)
(***************************************************************************)
Bit(P) == IF P THEN 1 ELSE 0

\* Two finite sets that are alike but for one element.
LEMMA AlikeButOne ==
  ASSUME NEW S, NEW T, NEW x, IsFiniteSet(S), IsFiniteSet(T), S \ {x} = T \ {x}
  PROVE  /\ Cardinality(S) \in Nat /\ Cardinality(T) \in Nat
         /\ Cardinality(T) + Bit(x \in S) = Cardinality(S) + Bit(x \in T)
         /\ x \in S => Cardinality(S) > 0
  <1>1. Cardinality(S) \in Nat /\ Cardinality(T) \in Nat
    BY FS_CardinalityType
  <1>2. Cardinality(S \ {x}) = IF x \in S THEN Cardinality(S) - 1 ELSE Cardinality(S)
    BY FS_RemoveElement
  <1>3. Cardinality(T \ {x}) = IF x \in T THEN Cardinality(T) - 1 ELSE Cardinality(T)
    BY FS_RemoveElement
  <1>4. x \in S => Cardinality(S) # 0
    BY FS_EmptySet
  <1>5. PICK m, n, k : m = Cardinality(S) /\ n = Cardinality(T) /\ k = Cardinality(S \ {x})
    OBVIOUS
  <1>6. m \in Nat /\ n \in Nat
    BY <1>1, <1>5
  <1>7. k = m - Bit(x \in S)
    BY <1>2, <1>5, <1>6 DEF Bit
  <1>8. k = Cardinality(T \ {x})
    BY <1>5, Zenon
  <1>9. k = n - Bit(x \in T)
    BY <1>3, <1>5, <1>6, <1>8 DEF Bit
  <1>10. n + Bit(x \in S) = m + Bit(x \in T)
    BY <1>6, <1>7, <1>9 DEF Bit
  <1>. QED
    BY <1>4, <1>5, <1>6, <1>10

\* The count of a value in a sequence.
LEMMA CountIs ==
  ASSUME NEW S, NEW s \in Seq(S), NEW c
  PROVE  /\ IsFiniteSet({ i \in 1..Len(s) : s[i] = c })
         /\ Count(c, s) \in Nat
         /\ (\E i \in 1..Len(s) : s[i] = c) => Count(c, s) > 0
  <1>. DEFINE P == { i \in 1..Len(s) : s[i] = c }
  <1>1. P \subseteq 1..Len(s) /\ Len(s) \in Nat
    OBVIOUS
  <1>2. IsFiniteSet(1..Len(s))
    BY <1>1, FS_Interval
  <1>3. IsFiniteSet(P)
    BY <1>1, <1>2, FS_Subset
  <1>4. Count(c, s) = Cardinality(P)
    BY DEF Count
  <1>5. (\E i \in 1..Len(s) : s[i] = c) => P # {}
    OBVIOUS
  <1>. HIDE DEF P
  <1>6. Cardinality(P) \in Nat /\ (P # {} => Cardinality(P) # 0)
    BY <1>3, FS_CardinalityType, FS_EmptySet
  <1>7. (\E i \in 1..Len(s) : s[i] = c) => Count(c, s) > 0
    BY <1>4, <1>5, <1>6
  <1>8. Count(c, s) \in Nat
    BY <1>4, <1>6
  <1>. QED
    BY <1>3, <1>7, <1>8 DEF P

LEMMA CountNone == ASSUME NEW c PROVE Count(c, << >>) = 0
  <1>1. { i \in 1..Len(<< >>) : << >>[i] = c } = {}
    OBVIOUS
  <1>. QED
    BY <1>1, FS_EmptySet DEF Count

LEMMA CountAppend ==
  ASSUME NEW S, NEW s \in Seq(S), NEW x \in S, NEW c
  PROVE  Count(c, Append(s, x)) = Count(c, s) + Bit(x = c)
  <1>. DEFINE t == Append(s, x)
             P == { i \in 1..Len(s) : s[i] = c }
             Q == { i \in 1..Len(t) : t[i] = c }
  <1>1. /\ t \in Seq(S) /\ Len(s) \in Nat /\ Len(t) = Len(s) + 1
        /\ \A i \in 1..Len(s) : t[i] = s[i]
        /\ t[Len(s) + 1] = x
    BY AppendFacts
  <1>. HIDE DEF t
  <1>2. Q \ {Len(s) + 1} = P \ {Len(s) + 1}
    BY <1>1
  <1>3. Len(s) + 1 \notin P /\ (Len(s) + 1 \in Q <=> x = c)
    BY <1>1
  <1>4. IsFiniteSet(P) /\ IsFiniteSet(Q)
    BY <1>1, CountIs
  <1>5. Count(c, s) = Cardinality(P) /\ Count(c, t) = Cardinality(Q)
    BY DEF Count
  <1>. HIDE DEF P, Q
  <1>6. Cardinality(Q) \in Nat /\ Cardinality(P) \in Nat
        /\ Cardinality(Q) + Bit(Len(s) + 1 \in P) = Cardinality(P) + Bit(Len(s) + 1 \in Q)
    BY <1>2, <1>4, AlikeButOne
  <1>. QED
    BY <1>3, <1>5, <1>6 DEF Bit, t

LEMMA CountTail ==
  ASSUME NEW S, NEW s \in Seq(S), s # << >>, NEW c
  PROVE  /\ Count(c, Tail(s)) \in Nat
         /\ Count(c, s) = Count(c, Tail(s)) + Bit(Head(s) = c)
  <1>. DEFINE t == Tail(s)
             P == { i \in 1..Len(s) : s[i] = c }
             Q == { i \in 1..Len(t) : t[i] = c }
             R == P \ {1}
             f == [i \in Q |-> i + 1]
  <1>1. /\ Len(s) \in Nat /\ Len(s) >= 1 /\ Head(s) = s[1]
        /\ t \in Seq(S) /\ Len(t) = Len(s) - 1
        /\ \A i \in 1..Len(t) : t[i] = s[i + 1] /\ i + 1 \in 1..Len(s)
    BY TailFacts
  <1>2. IsFiniteSet(P) /\ IsFiniteSet(Q) /\ Count(c, t) \in Nat
    <2>. HIDE DEF t
    <2>. QED
      BY <1>1, CountIs
  <1>3. Count(c, s) = Cardinality(P) /\ Count(c, t) = Cardinality(Q)
    BY DEF Count
  <1>. HIDE DEF t
  <1>4. f \in [Q -> R]
    BY <1>1
  <1>5. \A i, j \in Q : f[i] = f[j] => i = j
    BY <1>1
  <1>6. ASSUME NEW k \in R PROVE \E i \in Q : f[i] = k
    <2>1. k \in 1..Len(s) /\ k # 1 /\ s[k] = c
      OBVIOUS
    <2>2. k - 1 \in 1..Len(t) /\ (k - 1) + 1 = k
      BY <2>1, <1>1
    <2>3. k - 1 \in Q
      BY <2>1, <2>2, <1>1
    <2>. QED
      BY <2>2, <2>3
  <1>7. 1 \in P <=> Head(s) = c
    BY <1>1
  <1>. HIDE DEF P, Q, R, f
  <1>8. ExistsBijection(Q, R)
    <2>1. f \in Bijection(Q, R)
      BY <1>4, <1>5, <1>6 DEF Bijection, Injection, Surjection, IsInjective
    <2>. QED
      BY <2>1 DEF ExistsBijection
  <1>9. Cardinality(R) = Cardinality(Q)
    BY <1>2, <1>8, FS_Bijection
  <1>10. Cardinality(R) = IF 1 \in P THEN Cardinality(P) - 1 ELSE Cardinality(P)
    BY <1>2, FS_RemoveElement DEF R
  <1>11. Cardinality(P) \in Nat
    BY <1>2, FS_CardinalityType
  <1>. QED
    BY <1>2, <1>3, <1>7, <1>9, <1>10, <1>11 DEF Bit, t

\* When one worker has a batch at most, what is batched is its batch; b is the
\* batches of this state or of the next.
LEMMA BatchedIs ==
  ASSUME NEW b, NEW w \in Workers, b[w] \in Seq(Requests), \A v \in Workers : v # w => b[v] = << >>,
         NEW c
  PROVE  /\ b = batch => Cardinality(Batched(c)) = Count(c, b[w])
         /\ b = batch' => Cardinality(Batched(c)') = Count(c, b[w])
  <1>. DEFINE P(v) == { i \in 1..Len(b[v]) : b[v][i] = c }
              B == UNION { {v} \X P(v) : v \in Workers }
  <1>1. \A v \in Workers : v # w => P(v) = {}
    OBVIOUS
  <1>2. (b = batch => Batched(c) = B) /\ (b = batch' => Batched(c)' = B)
    BY DEF Batched
  <1>3. IsFiniteSet(P(w)) /\ Count(c, b[w]) = Cardinality(P(w))
    BY CountIs DEF Count
  <1>. HIDE DEF P
  <1>4. B = {w} \X P(w)
    BY <1>1
  <1>5. Cardinality({w}) = 1 /\ IsFiniteSet({w}) /\ Cardinality(P(w)) \in Nat
    BY <1>3, FS_Singleton, FS_CardinalityType
  <1>6. Cardinality({w} \X P(w)) = Cardinality({w}) * Cardinality(P(w))
    BY <1>3, <1>5, FS_Product
  <1>. HIDE DEF B
  <1>7. Cardinality(B) = Count(c, b[w])
    BY <1>3, <1>4, <1>5, <1>6
  <1>. QED
    BY <1>2, <1>7

\* The counts are of what there is.
LEMMA CountsAre ==
  ASSUME IInv, NEW c \in Requests
  PROVE  /\ c.type \in Types /\ c.type # "SERVICE" /\ hold \in Seq(Requests) /\ pool[c.type] \in Seq(Contexts)
         /\ Count(c, hold) \in Nat /\ Cardinality(Batched(c)) \in Nat /\ Count(c, pool[c.type]) \in Nat
         /\ IsFiniteSet(Popped(c)) /\ Cardinality(Popped(c)) \in Nat
         /\ IsFiniteSet(Serving(c)) /\ Cardinality(Serving(c)) \in Nat
  <1>1. c.type \in Types /\ c.type # "SERVICE" /\ hold \in Seq(Requests) /\ pool[c.type] \in Seq(Contexts)
    BY RequestsAssumption DEF IInv, TypeOK, Contexts
  <1>2. Count(c, hold) \in Nat /\ Count(c, pool[c.type]) \in Nat
    BY <1>1, CountIs
  <1>3. IsFiniteSet(Popped(c)) /\ IsFiniteSet(Serving(c))
    <2>1. Popped(c) \in SUBSET Workers /\ Serving(c) \in SUBSET Workers
      BY DEF Popped, Serving
    <2>. QED
      BY <2>1, WorkersAssumption, FS_Subset
  <1>4. Cardinality(Batched(c)) \in Nat
    <2>1. CASE \E w \in Workers : batch[w] # << >>
      <3>1. PICK w \in Workers : batch[w] # << >>
        BY <2>1
      <3>2. \A v \in Workers : v # w => batch[v] = << >>
        BY <3>1 DEF IInv, SingleService, Aux
      <3>3. batch[w] \in Seq(Requests)
        BY DEF IInv, TypeOK
      <3>. QED
        BY <3>2, <3>3, BatchedIs, CountIs
    <2>2. CASE \A w \in Workers : batch[w] = << >>
      <3>1. Batched(c) = {}
        BY <2>2 DEF Batched
      <3>. QED
        BY <3>1, FS_EmptySet
    <2>. QED
      BY <2>1, <2>2
  <1>5. Cardinality(Popped(c)) \in Nat /\ Cardinality(Serving(c)) \in Nat
    BY <1>3, FS_CardinalityType
  <1>. QED
    BY <1>1, <1>2, <1>3, <1>4, <1>5

\* Only the worker that runs the ServiceTask has a batch.
LEMMA BatchAlone ==
  ASSUME IInv, NEW w \in Workers, pc[w] # "ask", task[w].type = "SERVICE"
  PROVE  /\ batch[w] \in Seq(Requests) /\ \A v \in Workers : v # w => batch[v] = << >>
         /\ \A c : Cardinality(Batched(c)) = Count(c, batch[w])
  <1>1. \A v \in Workers : v # w => batch[v] = << >>
    BY DEF IInv, SingleService, Aux
  <1>2. batch[w] \in Seq(Requests)
    BY DEF IInv, TypeOK
  <1>. QED
    BY <1>1, <1>2, BatchedIs

\* Only its context is not a request.
LEMMA ServiceServes ==
  ASSUME IInv, NEW w \in Workers, task[w].type = "SERVICE", NEW c \in Requests
  PROVE  w \notin Popped(c) /\ w \notin Serving(c)
  BY RequestsAssumption DEF Popped, Serving

\* A step of one worker changes the counts of the workers by that one.
LEMMA OneWorker ==
  ASSUME IInv, NEW w \in Workers, \A v \in Workers : v # w => pc'[v] = pc[v] /\ task'[v] = task[v],
         NEW c \in Requests,
         NEW P, P = Popped(c), NEW Q, Q = Popped(c)', NEW S, S = Serving(c), NEW T, T = Serving(c)'
  PROVE  /\ Cardinality(P) \in Nat /\ Cardinality(Q) \in Nat
         /\ Cardinality(Q) + Bit(w \in P) = Cardinality(P) + Bit(w \in Q)
         /\ w \in P => Cardinality(P) > 0
         /\ Cardinality(S) \in Nat /\ Cardinality(T) \in Nat
         /\ Cardinality(T) + Bit(w \in S) = Cardinality(S) + Bit(w \in T)
         /\ w \in S => Cardinality(S) > 0
  <1>1. P \ {w} = Q \ {w} /\ S \ {w} = T \ {w}
    BY DEF Popped, Serving
  <1>2. /\ P \in SUBSET Workers /\ Q \in SUBSET Workers /\ S \in SUBSET Workers /\ T \in SUBSET Workers
    BY DEF Popped, Serving
  <1>3. IsFiniteSet(P) /\ IsFiniteSet(Q) /\ IsFiniteSet(S) /\ IsFiniteSet(T)
    BY <1>2, WorkersAssumption, FS_Subset
  <1>. QED
    BY <1>1, <1>3, AlikeButOne

\* What a step does to the coalescer, file by file.
LEMMA WaitsAre ==
  ASSUME NEW c \in Requests
  PROVE  /\ WaitingFor[c] = Count(c, hold) + Cardinality(Batched(c)) + Count(c, pool[c.type])
                            + Cardinality(Popped(c))
         /\ WaitingFor'[c] = Count(c, hold') + Cardinality(Batched(c)') + Count(c, pool'[c.type])
                             + Cardinality(Popped(c)')
         /\ BegunFor[c] = Cardinality(Serving(c)) /\ BegunFor'[c] = Cardinality(Serving(c)')
  BY DEF WaitingFor, BegunFor, Count

LEMMA CoalescerSame ==
  /\ (\A d \in Requests : WaitingFor'[d] = WaitingFor[d]) => WaitingFor' = WaitingFor
  /\ (\A d \in Requests : BegunFor'[d] = BegunFor[d]) => BegunFor' = BegunFor
  BY DEF WaitingFor, BegunFor

LEMMA CoalescerMoves ==
  ASSUME NEW c \in Requests, NEW x
  PROVE  /\ WaitingFor'[c] = x /\ (\A d \in Requests : d # c => WaitingFor'[d] = WaitingFor[d])
              => WaitingFor' = [WaitingFor EXCEPT ![c] = x]
         /\ BegunFor'[c] = x /\ (\A d \in Requests : d # c => BegunFor'[d] = BegunFor[d])
              => BegunFor' = [BegunFor EXCEPT ![c] = x]
  BY DEF WaitingFor, BegunFor

Refines == Abstract!ANext \/ UNCHANGED <<WaitingFor, BegunFor>>

\* A step that moves no context, and no worker from one count to the other.
LEMMA NothingMoves ==
  ASSUME hold' = hold, batch' = batch, pool' = pool,
         \A c \in Requests : Popped(c)' = Popped(c) /\ Serving(c)' = Serving(c)
  PROVE  Refines
  <1>1. ASSUME NEW c \in Requests PROVE WaitingFor'[c] = WaitingFor[c] /\ BegunFor'[c] = BegunFor[c]
    <2>1. Batched(c)' = Batched(c)
      BY DEF Batched
    <2>. QED
      BY <2>1, WaitsAre
  <1>. QED
    BY <1>1, CoalescerSame DEF Refines

\* Most steps are such.
LEMMA QuietRefines ==
  ASSUME IInv, NEW w \in Workers,
         \/ SkipPreferred(w) \/ FindNothing(w) \/ CheckFilter(w) \/ EraseFilter(w) \/ StartTask(w)
         \/ RunTask(w) \/ PassUnfiltered(w) \/ AdmitNew(w) \/ InsertFilter(w) \/ EndOfBatch(w)
  PROVE  Refines
  <1>1. hold' = hold /\ batch' = batch /\ pool' = pool /\ task' = task
    BY DEF SkipPreferred, FindNothing, CheckFilter, EraseFilter, StartTask, RunTask, PassUnfiltered,
           AdmitNew, InsertFilter, EndOfBatch
  <1>2. \/ pc' = pc
        \/ pc[w] \in {"check", "erase"} /\ \E p \in {"erase", "make"} : pc' = [pc EXCEPT ![w] = p]
        \/ pc[w] \in {"start", "running"} /\ \E p \in {"running", "finished"} : pc' = [pc EXCEPT ![w] = p]
        \/ task[w].type = "SERVICE"
             /\ \E p \in {"push", "insert", "running"} : pc' = [pc EXCEPT ![w] = p]
    BY DEF SkipPreferred, FindNothing, CheckFilter, EraseFilter, StartTask, RunTask, PassUnfiltered,
           AdmitNew, InsertFilter, EndOfBatch, IInv, Aux
  <1>3. \A v \in Workers : v # w => pc'[v] = pc[v]
    BY <1>2 DEF IInv, TypeOK
  <1>4. ASSUME NEW c \in Requests PROVE Popped(c)' = Popped(c) /\ Serving(c)' = Serving(c)
    <2>1. task[w].type = "SERVICE" => task[w] # c
      BY CountsAre
    <2>2. task[w] = c => (w \in Popped(c)' <=> w \in Popped(c)) /\ (w \in Serving(c)' <=> w \in Serving(c))
      BY <1>1, <1>2, <2>1 DEF Popped, Serving, IInv, TypeOK
    <2>. QED
      BY <1>1, <1>3, <2>2 DEF Popped, Serving
  <1>. QED
    BY <1>1, <1>4, NothingMoves

\* What is enough for a step of the coalescer that is about the request c.
LEMMA RequestRefines ==
  ASSUME NEW c \in Requests,
         \A d \in Requests : d # c => WaitingFor'[d] = WaitingFor[d] /\ BegunFor'[d] = BegunFor[d],
         \/ WaitingFor'[c] = WaitingFor[c] + 1 /\ BegunFor'[c] = BegunFor[c]
         \/ /\ c.type \in FilteredTypes /\ WaitingFor[c] > 1
            /\ WaitingFor'[c] = WaitingFor[c] - 1 /\ BegunFor'[c] = BegunFor[c]
         \/ /\ c.type \in ConstructibleTypes /\ WaitingFor[c] > 0
            /\ WaitingFor'[c] = WaitingFor[c] - 1 /\ BegunFor'[c] = BegunFor[c] + 1
         \/ /\ c.type \notin ConstructibleTypes /\ WaitingFor[c] > 0
            /\ WaitingFor'[c] = WaitingFor[c] - 1 /\ BegunFor'[c] = BegunFor[c]
         \/ /\ BegunFor[c] > 0
            /\ WaitingFor'[c] = WaitingFor[c] /\ BegunFor'[c] = BegunFor[c] - 1
  PROVE  Refines
  <1>1. /\ WaitingFor' = [WaitingFor EXCEPT ![c] = WaitingFor'[c]]
        /\ BegunFor' = [BegunFor EXCEPT ![c] = BegunFor'[c]]
    BY CoalescerMoves
  <1>2. /\ WaitingFor'[c] = WaitingFor[c] => UNCHANGED WaitingFor
        /\ BegunFor'[c] = BegunFor[c] => UNCHANGED BegunFor
    BY CoalescerSame
  <1>3. CASE WaitingFor'[c] = WaitingFor[c] + 1 /\ BegunFor'[c] = BegunFor[c]
    <2>1. Abstract!Submit(c)
      BY <1>1, <1>2, <1>3 DEF Abstract!Submit
    <2>. QED
      BY <2>1 DEF Refines, Abstract!ANext
  <1>4. CASE /\ c.type \in FilteredTypes /\ WaitingFor[c] > 1
             /\ WaitingFor'[c] = WaitingFor[c] - 1 /\ BegunFor'[c] = BegunFor[c]
    <2>1. Abstract!Merge(c)
      BY <1>1, <1>2, <1>4 DEF Abstract!Merge
    <2>. QED
      BY <2>1 DEF Refines, Abstract!ANext
  <1>5. CASE /\ c.type \in ConstructibleTypes /\ WaitingFor[c] > 0
             /\ WaitingFor'[c] = WaitingFor[c] - 1 /\ BegunFor'[c] = BegunFor[c] + 1
    <2>1. Abstract!Begin(c)
      BY <1>1, <1>5 DEF Abstract!Begin
    <2>. QED
      BY <2>1 DEF Refines, Abstract!ANext
  <1>6. CASE /\ c.type \notin ConstructibleTypes /\ WaitingFor[c] > 0
             /\ WaitingFor'[c] = WaitingFor[c] - 1 /\ BegunFor'[c] = BegunFor[c]
    <2>1. Abstract!Discard(c)
      BY <1>1, <1>2, <1>6 DEF Abstract!Discard
    <2>. QED
      BY <2>1 DEF Refines, Abstract!ANext
  <1>7. CASE /\ BegunFor[c] > 0
             /\ WaitingFor'[c] = WaitingFor[c] /\ BegunFor'[c] = BegunFor[c] - 1
    <2>1. Abstract!End(c)
      BY <1>1, <1>2, <1>7 DEF Abstract!End
    <2>. QED
      BY <2>1 DEF Refines, Abstract!ANext
  <1>. QED
    BY <1>3, <1>4, <1>5, <1>6, <1>7

\* A step that moves no context in the queues, but one worker.
LEMMA WorkerMoves ==
  ASSUME IInv, NEW w \in Workers, hold' = hold, batch' = batch, pool' = pool,
         \A v \in Workers : v # w => pc'[v] = pc[v] /\ task'[v] = task[v],
         NEW d \in Requests,
         NEW P, P = Popped(d), NEW Q, Q = Popped(d)', NEW S, S = Serving(d), NEW T, T = Serving(d)'
  PROVE  /\ WaitingFor[d] \in Nat /\ BegunFor[d] \in Nat /\ WaitingFor'[d] \in Nat /\ BegunFor'[d] \in Nat
         /\ WaitingFor'[d] + Bit(w \in P) = WaitingFor[d] + Bit(w \in Q)
         /\ BegunFor'[d] + Bit(w \in S) = BegunFor[d] + Bit(w \in T)
         /\ w \in P => WaitingFor[d] > 0
         /\ w \in S => BegunFor[d] > 0
  <1>1. Batched(d)' = Batched(d)
    BY DEF Batched
  <1>2. PICK a, b, e : a = Count(d, hold) /\ b = Cardinality(Batched(d)) /\ e = Count(d, pool[d.type])
    OBVIOUS
  <1>3. a \in Nat /\ b \in Nat /\ e \in Nat
    BY <1>2, CountsAre
  <1>4. /\ WaitingFor[d] = a + b + e + Cardinality(P)
        /\ WaitingFor'[d] = a + b + e + Cardinality(Q)
        /\ BegunFor[d] = Cardinality(S) /\ BegunFor'[d] = Cardinality(T)
    BY <1>1, <1>2, WaitsAre
  <1>5. /\ Cardinality(P) \in Nat /\ Cardinality(Q) \in Nat
        /\ Cardinality(Q) + Bit(w \in P) = Cardinality(P) + Bit(w \in Q)
        /\ w \in P => Cardinality(P) > 0
        /\ Cardinality(S) \in Nat /\ Cardinality(T) \in Nat
        /\ Cardinality(T) + Bit(w \in S) = Cardinality(S) + Bit(w \in T)
        /\ w \in S => Cardinality(S) > 0
    BY OneWorker
  <1>6. Bit(w \in P) \in Nat /\ Bit(w \in Q) \in Nat
    BY DEF Bit
  <1>. QED
    BY <1>3, <1>4, <1>5, <1>6

\* Submitting, making a task, dropping a context and finishing.
LEMMA SubmitRefines ==
  ASSUME IInv, NEW c \in Requests, PushContextBack(c)
  PROVE  Refines
  <1>1. /\ hold' = Append(hold, c) /\ UNCHANGED <<pool, pc, task, batch>>
    BY DEF PushContextBack
  <1>2. ASSUME NEW d \in Requests
        PROVE  /\ WaitingFor'[d] = WaitingFor[d] + Bit(c = d)
               /\ WaitingFor[d] \in Nat /\ BegunFor'[d] = BegunFor[d]
    <2>1. Count(d, hold') = Count(d, hold) + Bit(c = d)
      BY <1>1, CountsAre, CountAppend
    <2>2. Batched(d)' = Batched(d) /\ Popped(d)' = Popped(d) /\ Serving(d)' = Serving(d)
      BY <1>1 DEF Batched, Popped, Serving
    <2>3. Bit(c = d) \in Nat
      BY DEF Bit
    <2>4. PICK a, b, e, p : /\ a = Count(d, hold) /\ b = Cardinality(Batched(d))
                            /\ e = Count(d, pool[d.type]) /\ p = Cardinality(Popped(d))
      OBVIOUS
    <2>5. a \in Nat /\ b \in Nat /\ e \in Nat /\ p \in Nat
      BY <2>4, CountsAre
    <2>6. WaitingFor[d] = a + b + e + p /\ WaitingFor'[d] = (a + Bit(c = d)) + b + e + p
      BY <1>1, <2>1, <2>2, <2>4, WaitsAre
    <2>7. BegunFor'[d] = BegunFor[d]
      BY <2>2, WaitsAre
    <2>. QED
      BY <2>3, <2>5, <2>6, <2>7
  <1>. QED
    BY <1>2, RequestRefines DEF Bit

LEMMA MakeRefines ==
  ASSUME IInv, NEW w \in Workers, MakeTask(w)
  PROVE  Refines
  <1>1. /\ UNCHANGED <<hold, batch, pool, task>> /\ pc[w] = "make" /\ pc'[w] = "start"
        /\ \A v \in Workers : v # w => pc'[v] = pc[v] /\ task'[v] = task[v]
        /\ task[w].type \in ConstructibleTypes
    BY DEF MakeTask, IInv, TypeOK
  <1>2. ASSUME NEW d \in Requests
        PROVE  /\ WaitingFor[d] \in Nat /\ BegunFor[d] \in Nat
               /\ d # task[w] => WaitingFor'[d] = WaitingFor[d] /\ BegunFor'[d] = BegunFor[d]
               /\ d = task[w] => /\ WaitingFor[d] > 0 /\ WaitingFor'[d] = WaitingFor[d] - 1
                                 /\ BegunFor'[d] = BegunFor[d] + 1
    <2>1. PICK P, Q, S, T : P = Popped(d) /\ Q = Popped(d)' /\ S = Serving(d) /\ T = Serving(d)'
      OBVIOUS
    <2>2. w \notin Q /\ w \notin S /\ (w \in P <=> d = task[w]) /\ (w \in T <=> d = task[w])
      BY <1>1, <2>1 DEF Popped, Serving
    <2>3. /\ WaitingFor[d] \in Nat /\ BegunFor[d] \in Nat /\ WaitingFor'[d] \in Nat /\ BegunFor'[d] \in Nat
          /\ WaitingFor'[d] + Bit(w \in P) = WaitingFor[d] + Bit(w \in Q)
          /\ BegunFor'[d] + Bit(w \in S) = BegunFor[d] + Bit(w \in T)
          /\ w \in P => WaitingFor[d] > 0
      BY <1>1, <2>1, WorkerMoves
    <2>. QED
      BY <2>2, <2>3 DEF Bit
  <1>3. CASE task[w] \in Requests
    BY <1>1, <1>2, <1>3, RequestRefines
  <1>4. CASE task[w] \notin Requests
    BY <1>2, <1>4, CoalescerSame DEF Refines
  <1>. QED
    BY <1>3, <1>4

LEMMA DropUnconstructibleRefines ==
  ASSUME IInv, NEW w \in Workers, DropUnconstructible(w)
  PROVE  Refines
  <1>1. /\ UNCHANGED <<hold, batch, pool>> /\ pc[w] = "make" /\ pc'[w] = "ask"
        /\ \A v \in Workers : v # w => pc'[v] = pc[v] /\ task'[v] = task[v]
        /\ task[w].type \notin ConstructibleTypes
    BY DEF DropUnconstructible, IInv, TypeOK
  <1>2. ASSUME NEW d \in Requests
        PROVE  /\ WaitingFor[d] \in Nat /\ BegunFor'[d] = BegunFor[d]
               /\ d # task[w] => WaitingFor'[d] = WaitingFor[d]
               /\ d = task[w] => WaitingFor[d] > 0 /\ WaitingFor'[d] = WaitingFor[d] - 1
    <2>1. PICK P, Q, S, T : P = Popped(d) /\ Q = Popped(d)' /\ S = Serving(d) /\ T = Serving(d)'
      OBVIOUS
    <2>2. w \notin Q /\ w \notin S /\ (w \in P <=> d = task[w]) /\ w \notin T
      BY <1>1, <2>1 DEF Popped, Serving
    <2>3. /\ WaitingFor[d] \in Nat /\ BegunFor[d] \in Nat /\ WaitingFor'[d] \in Nat /\ BegunFor'[d] \in Nat
          /\ WaitingFor'[d] + Bit(w \in P) = WaitingFor[d] + Bit(w \in Q)
          /\ BegunFor'[d] + Bit(w \in S) = BegunFor[d] + Bit(w \in T)
          /\ w \in P => WaitingFor[d] > 0
      BY <1>1, <2>1, WorkerMoves
    <2>. QED
      BY <2>2, <2>3 DEF Bit
  <1>3. CASE task[w] \in Requests
    BY <1>1, <1>2, <1>3, RequestRefines
  <1>4. CASE task[w] \notin Requests
    BY <1>2, <1>4, CoalescerSame DEF Refines
  <1>. QED
    BY <1>3, <1>4

LEMMA FinishRefines ==
  ASSUME IInv, NEW w \in Workers, FinishTask(w)
  PROVE  Refines
  <1>1. /\ UNCHANGED <<hold, batch, pool>> /\ pc[w] = "finished" /\ pc'[w] = "ask"
        /\ \A v \in Workers : v # w => pc'[v] = pc[v] /\ task'[v] = task[v]
    BY DEF FinishTask, IInv, TypeOK
  <1>2. ASSUME NEW d \in Requests
        PROVE  /\ BegunFor[d] \in Nat /\ WaitingFor'[d] = WaitingFor[d]
               /\ d # task[w] => BegunFor'[d] = BegunFor[d]
               /\ d = task[w] => BegunFor[d] > 0 /\ BegunFor'[d] = BegunFor[d] - 1
    <2>1. PICK P, Q, S, T : P = Popped(d) /\ Q = Popped(d)' /\ S = Serving(d) /\ T = Serving(d)'
      OBVIOUS
    <2>2. w \notin Q /\ w \notin P /\ (w \in S <=> d = task[w]) /\ w \notin T
      BY <1>1, <2>1 DEF Popped, Serving
    <2>3. /\ WaitingFor[d] \in Nat /\ BegunFor[d] \in Nat /\ WaitingFor'[d] \in Nat /\ BegunFor'[d] \in Nat
          /\ WaitingFor'[d] + Bit(w \in P) = WaitingFor[d] + Bit(w \in Q)
          /\ BegunFor'[d] + Bit(w \in S) = BegunFor[d] + Bit(w \in T)
          /\ w \in S => BegunFor[d] > 0
      BY <1>1, <2>1, WorkerMoves
    <2>4. WaitingFor'[d] + 0 = WaitingFor[d] + 0
      BY <2>2, <2>3 DEF Bit
    <2>5. BegunFor'[d] + Bit(w \in S) = BegunFor[d] + 0
      BY <2>2, <2>3 DEF Bit
    <2>6. Bit(w \in S) = IF d = task[w] THEN 1 ELSE 0
      BY <2>2 DEF Bit
    <2>7. w \in S => BegunFor[d] > 0
      BY <2>3
    <2>. QED
      BY <2>2, <2>3, <2>4, <2>5, <2>6, <2>7
  <1>3. CASE task[w] \in Requests
    BY <1>1, <1>2, <1>3, RequestRefines
  <1>4. CASE task[w] \notin Requests
    BY <1>2, <1>4, CoalescerSame DEF Refines
  <1>. QED
    BY <1>3, <1>4

\* Taking a context from the pool: it is popped instead of queued.
LEMMA TakeRefines ==
  ASSUME IInv, NEW w \in Workers, NEW t \in Types, pc[w] = "ask", Take(w, t)
  PROVE  Refines
  <1>1. /\ UNCHANGED <<hold, batch>> /\ pool[t] # << >> /\ pool[t] \in Seq(Contexts)
        /\ pool'[t] = Tail(pool[t]) /\ \A u \in Types : u # t => pool'[u] = pool[u]
        /\ task'[w] = Head(pool[t]) /\ pc'[w] \in {"check", "make"}
        /\ \A v \in Workers : v # w => pc'[v] = pc[v] /\ task'[v] = task[v]
    BY DEF Take, IInv, TypeOK
  <1>2. Head(pool[t]).type = t
    <2>1. /\ Len(pool[t]) \in Nat /\ Len(pool[t]) >= 1 /\ Head(pool[t]) = pool[t][1]
      BY <1>1, TailFacts
    <2>. QED
      BY <2>1 DEF IInv, TypeOK
  <1>3. ASSUME NEW d \in Requests PROVE WaitingFor'[d] = WaitingFor[d] /\ BegunFor'[d] = BegunFor[d]
    <2>1. PICK P, Q, S, T : P = Popped(d) /\ Q = Popped(d)' /\ S = Serving(d) /\ T = Serving(d)'
      OBVIOUS
    <2>2. w \notin P /\ w \notin S /\ w \notin T /\ (w \in Q <=> Head(pool[t]) = d)
      BY <1>1, <2>1 DEF Popped, Serving
    <2>3. /\ Cardinality(P) \in Nat /\ Cardinality(Q) \in Nat
          /\ Cardinality(Q) + Bit(w \in P) = Cardinality(P) + Bit(w \in Q)
          /\ Cardinality(S) \in Nat /\ Cardinality(T) \in Nat
          /\ Cardinality(T) + Bit(w \in S) = Cardinality(S) + Bit(w \in T)
      BY <1>1, <2>1, OneWorker
    <2>4. Cardinality(Q) = Cardinality(P) + Bit(Head(pool[t]) = d) /\ Cardinality(T) = Cardinality(S)
      BY <2>2, <2>3 DEF Bit
    <2>5. /\ d.type \in Types /\ Count(d, hold) \in Nat /\ Cardinality(Batched(d)) \in Nat
      BY CountsAre
    <2>6. /\ Count(d, pool'[d.type]) \in Nat
          /\ Count(d, pool[d.type]) = Count(d, pool'[d.type]) + Bit(Head(pool[t]) = d)
      <3>1. CASE d.type = t
        BY <1>1, <3>1, CountTail
      <3>2. CASE d.type # t
        BY <1>1, <1>2, <2>5, <3>2, CountsAre DEF Bit
      <3>. QED
        BY <3>1, <3>2
    <2>7. Batched(d)' = Batched(d)
      BY <1>1 DEF Batched
    <2>8. PICK a, b, e, n, m : /\ a = Count(d, hold) /\ b = Cardinality(Batched(d))
                               /\ e = Count(d, pool'[d.type]) /\ n = Cardinality(P)
                               /\ m = Bit(Head(pool[t]) = d)
      OBVIOUS
    <2>9. a \in Nat /\ b \in Nat /\ e \in Nat /\ n \in Nat /\ m \in Nat
      BY <2>3, <2>5, <2>6, <2>8 DEF Bit
    <2>10. WaitingFor[d] = a + b + (e + m) + n /\ WaitingFor'[d] = a + b + e + (n + m)
      BY <1>1, <2>1, <2>4, <2>6, <2>7, <2>8, WaitsAre
    <2>11. BegunFor'[d] = BegunFor[d]
      BY <2>1, <2>4, WaitsAre
    <2>. QED
      BY <2>9, <2>10, <2>11
  <1>. QED
    BY <1>3, CoalescerSame DEF Refines

\* A step of the ServiceTask leaves the other workers' contexts alone.
LEMMA ServiceStays ==
  ASSUME IInv, NEW w \in Workers, task' = task, task[w].type = "SERVICE",
         \A v \in Workers : v # w => pc'[v] = pc[v], NEW d \in Requests
  PROVE  /\ Popped(d)' = Popped(d) /\ Serving(d)' = Serving(d)
         /\ Cardinality(Popped(d)) \in Nat
  <1>1. task[w] # d
    BY CountsAre
  <1>. QED
    BY <1>1, CountsAre DEF Popped, Serving

\* RetrieveTasks takes over the whole context queue.
LEMMA RetrieveRefines ==
  ASSUME IInv, NEW w \in Workers, RetrieveContextQueue(w)
  PROVE  Refines
  <1>1. /\ hold' = << >> /\ UNCHANGED <<pool, task>> /\ pc[w] = "running" /\ task[w].type = "SERVICE"
        /\ batch'[w] = hold /\ hold \in Seq(Requests)
        /\ \A v \in Workers : v # w => pc'[v] = pc[v] /\ batch'[v] = batch[v]
    BY DEF RetrieveContextQueue, IInv, TypeOK
  <1>2. /\ batch[w] = << >>
        /\ \A v \in Workers : v # w => batch[v] = << >>
        /\ \A c : Cardinality(Batched(c)) = Count(c, batch[w])
    BY <1>1, BatchAlone DEF IInv, SingleService
  <1>3. ASSUME NEW d \in Requests PROVE WaitingFor'[d] = WaitingFor[d] /\ BegunFor'[d] = BegunFor[d]
    <2>1. Cardinality(Batched(d)') = Count(d, hold)
      <3>1. PICK b : b = batch'
        OBVIOUS
      <3>2. b[w] \in Seq(Requests) /\ b[w] = hold /\ \A v \in Workers : v # w => b[v] = << >>
        BY <1>1, <1>2, <3>1
      <3>. QED
        BY <3>1, <3>2, BatchedIs
    <2>2. Cardinality(Batched(d)) = 0 /\ Count(d, hold') = 0
      BY <1>1, <1>2, CountNone
    <2>3. Popped(d)' = Popped(d) /\ Serving(d)' = Serving(d)
      BY <1>1, ServiceStays
    <2>4. PICK a, e, n : /\ a = Count(d, hold) /\ e = Count(d, pool[d.type])
                         /\ n = Cardinality(Popped(d))
      OBVIOUS
    <2>5. a \in Nat /\ e \in Nat /\ n \in Nat
      BY <2>4, CountsAre
    <2>6. WaitingFor[d] = a + 0 + e + n /\ WaitingFor'[d] = 0 + a + e + n
      BY <1>1, <2>1, <2>2, <2>3, <2>4, WaitsAre
    <2>7. BegunFor'[d] = BegunFor[d]
      BY <2>3, WaitsAre
    <2>. QED
      BY <2>5, <2>6, <2>7
  <1>. QED
    BY <1>3, CoalescerSame DEF Refines

\* The head of the batch leaves it.
LEMMA BatchMoves ==
  ASSUME IInv, NEW w \in Workers, task[w].type = "SERVICE", pc[w] # "ask", batch[w] # << >>,
         batch' = [batch EXCEPT ![w] = Tail(@)], NEW d \in Requests
  PROVE  /\ Cardinality(Batched(d)') \in Nat
         /\ Cardinality(Batched(d)) = Cardinality(Batched(d)') + Bit(Head(batch[w]) = d)
  <1>1. /\ batch[w] \in Seq(Requests) /\ Tail(batch[w]) \in Seq(Requests)
        /\ \A v \in Workers : v # w => batch[v] = << >>
        /\ Cardinality(Batched(d)) = Count(d, batch[w])
    BY BatchAlone
  <1>2. batch'[w] = Tail(batch[w]) /\ \A v \in Workers : v # w => batch'[v] = << >>
    BY <1>1 DEF IInv, TypeOK
  <1>3. Cardinality(Batched(d)') = Count(d, Tail(batch[w]))
    <2>1. PICK b : b = batch'
      OBVIOUS
    <2>2. b[w] \in Seq(Requests) /\ b[w] = Tail(batch[w]) /\ \A v \in Workers : v # w => b[v] = << >>
      BY <1>1, <1>2, <2>1
    <2>. QED
      BY <2>1, <2>2, BatchedIs
  <1>. QED
    BY <1>1, <1>3, CountTail

\* FilterTask drops a context: it has a twin in the pool, or popped by a worker
\* that has not cleared the filter for it yet.
LEMMA DropDuplicateRefines ==
  ASSUME IInv, NEW w \in Workers, DropDuplicate(w)
  PROVE  Refines
  <1>1. /\ UNCHANGED <<hold, pool, task, pc>> /\ pc[w] = "filter" /\ task[w].type = "SERVICE"
        /\ batch[w] # << >> /\ batch' = [batch EXCEPT ![w] = Tail(@)] /\ batch[w] \in Seq(Requests)
    BY DEF DropDuplicate, IInv, TypeOK, Aux
  <1>2. PICK c : c = Head(batch[w])
    OBVIOUS
  <1>3. c \in Requests /\ c.type \in FilteredTypes /\ c \in filter
    BY <1>1, <1>2, TailFacts DEF DropDuplicate
  <1>4. ASSUME NEW d \in Requests
        PROVE  /\ WaitingFor[d] = WaitingFor'[d] + Bit(c = d) /\ BegunFor'[d] = BegunFor[d]
               /\ WaitingFor'[d] \in Nat
               /\ WaitingFor'[d] >= Count(d, pool[d.type]) + Cardinality(Popped(d))
    <2>1. /\ Cardinality(Batched(d)') \in Nat
          /\ Cardinality(Batched(d)) = Cardinality(Batched(d)') + Bit(c = d)
      BY <1>1, <1>2, BatchMoves
    <2>2. Popped(d)' = Popped(d) /\ Serving(d)' = Serving(d)
      BY <1>1, ServiceStays
    <2>3. PICK a, b, e, n, m : /\ a = Count(d, hold) /\ b = Cardinality(Batched(d)')
                               /\ e = Count(d, pool[d.type]) /\ n = Cardinality(Popped(d))
                               /\ m = Bit(c = d)
      OBVIOUS
    <2>4. a \in Nat /\ b \in Nat /\ e \in Nat /\ n \in Nat /\ m \in Nat
      BY <2>1, <2>3, CountsAre DEF Bit
    <2>5. WaitingFor[d] = a + (b + m) + e + n /\ WaitingFor'[d] = a + b + e + n
      BY <1>1, <2>1, <2>2, <2>3, WaitsAre
    <2>6. BegunFor'[d] = BegunFor[d]
      BY <2>2, WaitsAre
    <2>7. WaitingFor[d] = WaitingFor'[d] + m /\ WaitingFor'[d] \in Nat /\ WaitingFor'[d] >= e + n
      BY <2>4, <2>5
    <2>. QED
      BY <2>3, <2>6, <2>7
  <1>5. Count(c, pool[c.type]) + Cardinality(Popped(c)) > 0
    <2>1. /\ pool[c.type] \in Seq(Contexts) /\ Count(c, pool[c.type]) \in Nat
          /\ IsFiniteSet(Popped(c)) /\ Cardinality(Popped(c)) \in Nat
      BY <1>3, CountsAre
    <2>2. CASE \E i \in 1..Len(pool[c.type]) : pool[c.type][i] = c
      <3>1. PICK s : s = pool[c.type]
        OBVIOUS
      <3>2. s \in Seq(Contexts) /\ \E i \in 1..Len(s) : s[i] = c
        BY <2>1, <2>2, <3>1
      <3>3. Count(c, s) > 0
        BY <3>2, CountIs
      <3>. QED
        BY <2>1, <3>1, <3>3
    <2>3. CASE \E v \in Workers : Clearing(v) /\ task[v] = c
      <3>1. Popped(c) # {}
        BY <2>3 DEF Popped, Clearing
      <3>2. Cardinality(Popped(c)) # 0
        BY <2>1, <3>1, FS_EmptySet
      <3>. QED
        BY <2>1, <3>2
    <2>4. ~ \E v \in Workers : Admitting(v) /\ Head(batch[v]) = c
      BY <1>1 DEF Admitting, IInv, SingleService, Aux
    <2>. QED
      BY <1>3, <2>2, <2>3, <2>4 DEF IInv, NoStrandedFilter
  <1>6. /\ WaitingFor[c] = WaitingFor'[c] + 1 /\ WaitingFor'[c] \in Nat /\ WaitingFor'[c] > 0
        /\ BegunFor'[c] = BegunFor[c]
    <2>1. PICK k : k = Count(c, pool[c.type]) + Cardinality(Popped(c))
      OBVIOUS
    <2>2. k \in Nat /\ k > 0
      BY <1>3, <1>5, <2>1, CountsAre
    <2>. QED
      BY <1>3, <1>4, <2>1, <2>2 DEF Bit
  <1>7. \A d \in Requests : d # c => WaitingFor'[d] = WaitingFor[d] /\ BegunFor'[d] = BegunFor[d]
    BY <1>4 DEF Bit
  <1>8. WaitingFor[c] > 1 /\ WaitingFor'[c] = WaitingFor[c] - 1
    BY <1>6
  <1>. QED
    BY <1>3, <1>6, <1>7, <1>8, RequestRefines

\* PushContextBack of the pool: the head of the batch is queued.
LEMMA PushBackRefines ==
  ASSUME IInv, NEW w \in Workers, PushBack(w)
  PROVE  Refines
  <1>1. /\ UNCHANGED <<hold, task>> /\ pc[w] = "push" /\ task[w].type = "SERVICE"
        /\ batch[w] # << >> /\ batch' = [batch EXCEPT ![w] = Tail(@)] /\ batch[w] \in Seq(Requests)
        /\ \A v \in Workers : v # w => pc'[v] = pc[v]
    BY DEF PushBack, IInv, TypeOK, Aux
  <1>2. PICK c : c = Head(batch[w])
    OBVIOUS
  <1>3. c \in Requests /\ c \in Contexts /\ c.type \in Types /\ pool[c.type] \in Seq(Contexts)
    <2>1. c \in Requests
      BY <1>1, <1>2, TailFacts
    <2>. QED
      BY <2>1, CountsAre, RequestsAssumption
  <1>4. pool' = [pool EXCEPT ![c.type] = Append(@, c)]
    BY <1>2 DEF PushBack
  <1>5. ASSUME NEW d \in Requests PROVE WaitingFor'[d] = WaitingFor[d] /\ BegunFor'[d] = BegunFor[d]
    <2>1. /\ Cardinality(Batched(d)') \in Nat
          /\ Cardinality(Batched(d)) = Cardinality(Batched(d)') + Bit(c = d)
      BY <1>1, <1>2, BatchMoves
    <2>2. Popped(d)' = Popped(d) /\ Serving(d)' = Serving(d)
      BY <1>1, ServiceStays
    <2>3. Count(d, pool'[d.type]) = Count(d, pool[d.type]) + Bit(c = d)
      <3>1. CASE d.type = c.type
        <4>1. pool'[d.type] = Append(pool[d.type], c)
          BY <1>3, <1>4, <3>1 DEF IInv, TypeOK
        <4>. QED
          BY <1>3, <3>1, <4>1, CountAppend
      <3>2. CASE d.type # c.type
        <4>1. pool'[d.type] = pool[d.type] /\ Count(d, pool[d.type]) \in Nat
          BY <1>3, <1>4, <3>2, CountsAre DEF IInv, TypeOK
        <4>. QED
          BY <3>2, <4>1 DEF Bit
      <3>. QED
        BY <3>1, <3>2
    <2>4. PICK a, b, e, n, m : /\ a = Count(d, hold) /\ b = Cardinality(Batched(d)')
                               /\ e = Count(d, pool[d.type]) /\ n = Cardinality(Popped(d))
                               /\ m = Bit(c = d)
      OBVIOUS
    <2>5. a \in Nat /\ b \in Nat /\ e \in Nat /\ n \in Nat /\ m \in Nat
      BY <2>1, <2>4, CountsAre DEF Bit
    <2>6. WaitingFor[d] = a + (b + m) + e + n /\ WaitingFor'[d] = a + b + (e + m) + n
      BY <1>1, <2>1, <2>2, <2>3, <2>4, WaitsAre
    <2>7. BegunFor'[d] = BegunFor[d]
      BY <2>2, WaitsAre
    <2>. QED
      BY <2>5, <2>6, <2>7
  <1>. QED
    BY <1>5, CoalescerSame DEF Refines

\* Nobody has asked for anything when the workers start.
LEMMA StartsEmpty == Init => Abstract!AInit
  <1>. SUFFICES ASSUME Init PROVE Abstract!AInit
    OBVIOUS
  <1>1. IInv
    BY InitIInv
  <1>2. ASSUME NEW c \in Requests PROVE WaitingFor[c] = 0 /\ BegunFor[c] = 0
    <2>1. c.type \in Types /\ c.type # "SERVICE"
      BY <1>1, CountsAre
    <2>2. hold = << >> /\ pool[c.type] = << >>
      BY <2>1 DEF Init
    <2>3. Batched(c) = {} /\ Popped(c) = {} /\ Serving(c) = {}
      BY DEF Init, Batched, Popped, Serving
    <2>4. Cardinality({}) = 0
      BY FS_EmptySet
    <2>5. Count(c, hold) = 0 /\ Count(c, pool[c.type]) = 0
      BY <2>2, CountNone
    <2>6. Cardinality(Batched(c)) = 0 /\ Cardinality(Popped(c)) = 0 /\ Cardinality(Serving(c)) = 0
      BY <2>3, <2>4
    <2>7. WaitingFor[c] = 0 + 0 + 0 + 0 /\ BegunFor[c] = 0
      BY <2>5, <2>6 DEF WaitingFor, BegunFor
    <2>. QED
      BY <2>7
  <1>. QED
    BY <1>2 DEF Abstract!AInit, WaitingFor, BegunFor

\* Every step is a step of the coalescer or none: one case per action.
LEMMA StepRefines == IInv /\ [Next]_vars => [Abstract!ANext]_(Abstract!avars)
  <1>. SUFFICES ASSUME IInv, [Next]_vars PROVE Refines
    BY DEF Refines, Abstract!avars
  <1>1. ASSUME NEW c \in Requests, PushContextBack(c) PROVE Refines
    BY <1>1, SubmitRefines
  <1>2. ASSUME NEW w \in Workers, Retrieve(w) PROVE Refines
    <2>1. CASE TakePreferred(w)
      <3>1. PICK t \in ask[w] : Take(w, t)
        BY <2>1 DEF TakePreferred
      <3>2. t \in Types /\ pc[w] = "ask"
        BY <2>1 DEF TakePreferred, IInv, TypeOK
      <3>. QED
        BY <3>1, <3>2, TakeRefines
    <2>2. CASE TakeAny(w)
      <3>1. PICK t \in Types : Take(w, t)
        BY <2>2 DEF TakeAny
      <3>2. pc[w] = "ask"
        BY <2>2 DEF TakeAny
      <3>. QED
        BY <3>1, <3>2, TakeRefines
    <2>. QED
      BY <1>2, <2>1, <2>2, QuietRefines DEF Retrieve
  <1>3. ASSUME NEW w \in Workers, Poll(w) PROVE Refines
    BY <1>3, MakeRefines, DropUnconstructibleRefines, QuietRefines, FinishRefines DEF Poll
  <1>4. ASSUME NEW w \in Workers, Service(w) PROVE Refines
    BY <1>4, RetrieveRefines, QuietRefines, DropDuplicateRefines, PushBackRefines DEF Service
  <1>5. CASE UNCHANGED vars
    BY <1>5, NothingMoves DEF vars, Popped, Serving
  <1>. QED
    BY <1>1, <1>2, <1>3, <1>4, <1>5 DEF Next, Run

\* Whatever the threads do between its critical sections, the dispatch merges
\* requests without losing one: a context FilterTask drops has a twin that no
\* task has been made for yet (taskarbiter.cpp, FilterTask).
THEOREM DispatchCoalesces == Spec => Coalesces
  BY Invariance, StartsEmpty, StepRefines, PTL DEF Spec, Coalesces, Abstract!ASpec
=============================================================================
