----------------------------- MODULE WireProofs -----------------------------
(***************************************************************************)
(* Theorems about Wire, for every set of threads, stride and supply of     *)
(* connection numbers.  A thread that extends the pool has the mutex, and  *)
(* all that is in the pool then is what it made: so it finds one to take,  *)
(* and the connections besides are those the other threads have borrowed.  *)
(* A connection that was never left with a rest is in the pool empty, so   *)
(* that who writes on it has the only request there, and reads its answer. *)
(***************************************************************************)
EXTENDS Wire, FiniteSetTheorems, FunctionTheorems, SequenceTheorems, TLAPS

\* Who extends the pool has the mutex and has put there what is in it.
Extending ==
  /\ \A t \in Threads : pc[t] = "extending" => lock = t /\ Len(pool) = made
  /\ (\A t \in Threads : pc[t] # "extending") => made = 0

\* The connections there are when the pool is extended are the others' and those
\* made since; else there may be a whole stride more than the others have.
Bound ==
  /\ \A t \in Threads : pc[t] = "extending" => Cardinality(InUse) < Cardinality(Threads) + made
  /\ PoolBound

IInv == TypeOK /\ OneHolder /\ Extending /\ Bound

-----------------------------------------------------------------------------
(* Connections in use.                                                      *)

\* The assumptions, as the proofs use them.
LEMMA Constants ==
    /\ NoThread \notin Threads /\ NoConn \notin Conns /\ Conns \subseteq Nat
    /\ IsFiniteSet(Threads) /\ IsFiniteSet(Conns)
    /\ Stride \in Nat \ {0} /\ Cardinality(Threads) \in Nat
  BY WireAssumption, FS_CardinalityType DEF NoThread, NoConn

\* They are finitely many, before and after a step.
LEMMA InUseFinite ==
    /\ IsFiniteSet(InUse) /\ Cardinality(InUse) \in Nat
    /\ IsFiniteSet(InUse') /\ Cardinality(InUse') \in Nat
  <1>1. InUse \subseteq Conns /\ InUse' \subseteq Conns
    BY DEF InUse
  <1> QED BY <1>1, Constants, FS_Subset, FS_CardinalityType

\* The others have borrowed fewer than there are threads.
LEMMA BorrowedByOthers ==
    ASSUME TypeOK, NEW t \in Threads, con[t] = NoConn
    PROVE  IsFiniteSet(Borrowed) /\ Cardinality(Borrowed) < Cardinality(Threads)
  <1> DEFINE T == Threads \ {t}
             S == {con[s] : s \in T}
             f == [s \in T |-> con[s]]
  <1>1. /\ IsFiniteSet(T) /\ Cardinality(T) = Cardinality(Threads) - 1
    BY Constants, FS_RemoveElement
  <1>2. f \in Surjection(T, S)
    BY DEF Surjection
  <1>3. IsFiniteSet(S) /\ Cardinality(S) <= Cardinality(T)
    <2> HIDE DEF T, S, f
    <2> QED BY <1>1, <1>2, FS_Surjection
  <1>4. Borrowed \subseteq S
    BY DEF Borrowed
  <1>5. IsFiniteSet(Borrowed) /\ Cardinality(Borrowed) <= Cardinality(S)
    <2> HIDE DEF S
    <2> QED BY <1>3, <1>4, FS_Subset
  <1>6. Cardinality(S) \in Nat /\ Cardinality(Borrowed) \in Nat /\ Cardinality(T) \in Nat
    BY <1>1, <1>3, <1>5, FS_CardinalityType
  <1> HIDE DEF T, S
  <1> QED BY <1>1, <1>3, <1>5, <1>6, Constants

-----------------------------------------------------------------------------
(* The initial state.                                                       *)

LEMMA InitIInv == Init => IInv
  <1> SUFFICES ASSUME Init PROVE IInv
    OBVIOUS
  <1>1. TypeOK
    <2>1. link \in [Conns -> Links]
      <3>1. Link("free") \in Links
        BY DEF Link, Links, States
      <3> QED BY <3>1 DEF Init
    <2>2. response \in [Threads -> Responses]
      BY DEF Init, NoAnswer, Responses
    <2>3. /\ pool \in Seq(Conns) /\ made \in 0 .. Stride /\ faults \in 0 .. MaxFaults
          /\ mixed \subseteq Conns
      BY WireAssumption DEF Init
    <2>4. /\ pc \in [Threads -> {"idle", "asking", "extending", "writing", "reading",
                                 "reclaiming", "done"}]
          /\ con \in [Threads -> Conns \cup {NoConn}]
          /\ \A t \in Threads : (con[t] # NoConn) = (pc[t] \in {"writing", "reading", "reclaiming"})
      BY DEF Init
    <2>5. closes \in [Threads -> BOOLEAN] /\ fresh \in [Threads -> BOOLEAN]
      BY DEF Init
    <2>6. initialized \in BOOLEAN /\ lock \in Threads \cup {NoThread}
      BY DEF Init
    <2> QED BY <2>1, <2>2, <2>3, <2>4, <2>5, <2>6 DEF TypeOK
  <1>2. Pooled = {} /\ Borrowed = {} /\ InUse = {}
    BY DEF Init, Pooled, Borrowed, InUse, Link
  <1>3. OneHolder
    BY <1>2 DEF OneHolder, Init
  <1>4. Extending
    BY DEF Extending, Init
  <1>5. Bound
    <2>1. Cardinality(InUse) = 0
      BY <1>2, FS_EmptySet
    <2> QED BY <2>1, Constants DEF Bound, PoolBound, Init
  <1> QED BY <1>1, <1>3, <1>4, <1>5 DEF IInv

-----------------------------------------------------------------------------
(* The steps that move no connection.                                       *)

\* Who holds which connection, where none is made, lent or lost.
LEMMA HoldersKept ==
    ASSUME IInv, UNCHANGED <<pool, con>>, \A c \in Conns : link'[c].state = "free" <=> link[c].state = "free"
    PROVE  OneHolder' /\ InUse' = InUse
  <1>1. Pooled' = Pooled /\ Borrowed' = Borrowed /\ InUse' = InUse
    BY DEF Pooled, Borrowed, InUse
  <1> QED BY <1>1 DEF IInv, OneHolder

\* Nor does the mutex, if nobody begins or ends to extend the pool.
LEMMA ExtendingKept ==
    ASSUME IInv, UNCHANGED <<pool, con, lock, made>>,
           \A c \in Conns : link'[c].state = "free" <=> link[c].state = "free",
           \A t \in Threads : pc'[t] = "extending" <=> pc[t] = "extending"
    PROVE  OneHolder' /\ Extending' /\ Bound'
  <1>1. OneHolder' /\ InUse' = InUse
    BY HoldersKept
  <1> QED BY <1>1 DEF IInv, Extending, Bound, PoolBound

\* A thread asks, and is refused, or the manager is initialised.
LEMMA QuietStep ==
    ASSUME IInv, NEW t \in Threads, Initialize \/ Ask(t) \/ RefuseConnection(t)
    PROVE  IInv'
  <1> USE Constants
  <1>1. TypeOK'
    <2>1. CASE Initialize
      BY <2>1 DEF IInv, TypeOK, Initialize, wire, handler
    <2>2. CASE Ask(t)
      <3>1. fresh' \in [Threads -> BOOLEAN] /\ closes' \in [Threads -> BOOLEAN]
        <4>1. (response[t] = NoAnswer) \in BOOLEAN
          OBVIOUS
        <4>2. fresh' = [fresh EXCEPT ![t] = (response[t] = NoAnswer)]
          BY <2>2 DEF Ask, HttpKeepAlive, HttpDelete
        <4>3. fresh \in [Threads -> BOOLEAN] /\ closes \in [Threads -> BOOLEAN]
          BY DEF IInv, TypeOK
        <4>4. closes' = closes \/ closes' = [closes EXCEPT ![t] = TRUE]
          BY <2>2 DEF Ask, HttpKeepAlive, HttpDelete
        <4> QED BY <4>1, <4>2, <4>3, <4>4, Zenon
      <3>2. /\ pc[t] = "idle" /\ pc' = [pc EXCEPT ![t] = "asking"]
            /\ UNCHANGED <<con, response, manager, wire>>
        BY <2>2 DEF Ask, HttpKeepAlive, HttpDelete, Go
      <3> QED BY <3>1, <3>2 DEF IInv, TypeOK, manager, wire
    <2>3. CASE RefuseConnection(t)
      BY <2>3 DEF IInv, TypeOK, RefuseConnection, Go, manager, wire, handler
    <2> QED BY <2>1, <2>2, <2>3
  <1>2. UNCHANGED <<pool, con, lock, made, link>>
    BY DEF Initialize, Ask, HttpKeepAlive, HttpDelete, RefuseConnection, manager, wire
  <1>3. \A s \in Threads : pc'[s] = "extending" <=> pc[s] = "extending"
    BY DEF IInv, TypeOK, Initialize, Ask, HttpKeepAlive, HttpDelete, RefuseConnection, Go
  <1> QED BY <1>1, <1>2, <1>3, ExtendingKept DEF IInv

\* A connection that is changed and not freed leaves the others as they are.
LEMMA LinkReplaced ==
    ASSUME link \in [Conns -> Links], NEW c \in Conns, NEW l \in Links,
           l.state = "free" <=> link[c].state = "free", link' = [link EXCEPT ![c] = l]
    PROVE  /\ link' \in [Conns -> Links]
           /\ \A d \in Conns : link'[d].state = "free" <=> link[d].state = "free"
  OBVIOUS

\* What a thread writes or reads changes a connection, and frees none.
LEMMA ExchangeStep ==
    ASSUME IInv, NEW t \in Threads, Write(t) \/ InterpretResponse(t) \/ InterpretFails(t)
    PROVE  IInv'
  <1> USE Constants
  <1> DEFINE c == con[t]
  <1>1. c \in Conns /\ link[c] \in Links
    BY DEF IInv, TypeOK, Write, InterpretResponse, InterpretFails, Go
  <1>2. \E to \in {"reading", "reclaiming"} :
          pc[t] \in {"writing", "reading"} /\ pc' = [pc EXCEPT ![t] = to]
    BY DEF Write, InterpretResponse, InterpretFails, Go
  <1>3. UNCHANGED <<manager, fresh, closes, con, faults>>
    BY DEF Write, InterpretResponse, InterpretFails, wire, handler
  <1>4. /\ link' \in [Conns -> Links] /\ mixed' \subseteq Conns
        /\ response' \in [Threads -> Responses]
        /\ \A d \in Conns : link'[d].state = "free" <=> link[d].state = "free"
    <2>1. CASE Write(t)
      <3>1. [of |-> t, closes |-> closes[t]] \in Requests
        BY DEF Requests, Whose, IInv, TypeOK
      <3>2. CASE link' = [link EXCEPT ![c].requests = Append(@, [of |-> t, closes |-> closes[t]])]
        <4> DEFINE r == Append(link[c].requests, [of |-> t, closes |-> closes[t]])
        <4>1. r \in Seq(Requests)
          BY <1>1, <3>1 DEF Links
        <4>2. link' = [link EXCEPT ![c] = [link[c] EXCEPT !.requests = r]]
          BY <1>1, <3>2
        <4>3. [link[c] EXCEPT !.requests = r] \in Links
              /\ [link[c] EXCEPT !.requests = r].state = link[c].state
          <5> HIDE DEF r, c
          <5> QED BY <1>1, <4>1 DEF Links
        <4>4. link \in [Conns -> Links] /\ UNCHANGED <<mixed, response>>
          BY <2>1 DEF IInv, TypeOK, Write, handler
        <4> HIDE DEF r, c
        <4> QED BY <1>1, <4>2, <4>3, <4>4, LinkReplaced DEF IInv, TypeOK
      <3>3. CASE /\ link[c].state = "closed"
                 /\ link' = [link EXCEPT ![c].state = "reset", ![c].answers = << >>]
        <4>1. << >> \in Seq(Answers \cup {Rest}) /\ "reset" \in States
          BY DEF States
        <4>2. link' = [link EXCEPT ![c] = [link[c] EXCEPT !.state = "reset", !.answers = << >>]]
          BY <1>1, <3>3
        <4>3. [link[c] EXCEPT !.state = "reset", !.answers = << >>] \in Links
              /\ [link[c] EXCEPT !.state = "reset", !.answers = << >>].state = "reset"
          <5> HIDE DEF c
          <5> QED BY <1>1, <4>1 DEF Links
        <4>4. link \in [Conns -> Links] /\ UNCHANGED <<mixed, response>>
          BY <2>1 DEF IInv, TypeOK, Write, handler
        <4> HIDE DEF c
        <4> QED BY <1>1, <3>3, <4>2, <4>3, <4>4, LinkReplaced DEF IInv, TypeOK
      <3> QED BY <2>1, <3>2, <3>3 DEF Write
    <2>2. CASE InterpretResponse(t)
      <3>1. /\ link[c].answers # << >> /\ link[c].answers \in Seq(Answers \cup {Rest})
            /\ (c \in mixed) \in BOOLEAN
        BY <1>1, <2>2 DEF InterpretResponse, Links
      <3>2. /\ Head(link[c].answers) \in Answers \cup {Rest}
            /\ Tail(link[c].answers) \in Seq(Answers \cup {Rest})
        BY <3>1
      <3>3. PICK code \in {0, 200}, left \in {<< >>, <<Rest>>} : Interpret(t, code, left)
        BY <2>2 DEF InterpretResponse
      <3>4. [of |-> Head(link[c].answers).of, code |-> code, behind |-> c \in mixed] \in Responses
        BY <3>1, <3>2 DEF Answers, Rest, Responses, Whose
      <3>5. response' \in [Threads -> Responses]
        BY <3>3, <3>4 DEF Interpret, IInv, TypeOK
      <3>6. left \o Tail(link[c].answers) \in Seq(Answers \cup {Rest})
        <4>1. left \in Seq(Answers \cup {Rest})
          <5>1. <<Rest>> \in Seq(Answers \cup {Rest}) /\ << >> \in Seq(Answers \cup {Rest})
            OBVIOUS
          <5> QED BY <5>1
        <4> QED BY <3>2, <4>1, ConcatProperties
      <3>7. link' = [link EXCEPT ![c].answers = left \o Tail(@)]
        BY <3>3 DEF Interpret
      <3>8. /\ link' \in [Conns -> Links]
            /\ \A d \in Conns : link'[d].state = "free" <=> link[d].state = "free"
        <4> DEFINE a == left \o Tail(link[c].answers)
        <4>1. link' = [link EXCEPT ![c] = [link[c] EXCEPT !.answers = a]]
          BY <1>1, <3>7
        <4>2. [link[c] EXCEPT !.answers = a] \in Links
              /\ [link[c] EXCEPT !.answers = a].state = link[c].state
          <5> HIDE DEF a, c
          <5>1. a \in Seq(Answers \cup {Rest})
            BY <3>6 DEF a
          <5> QED BY <1>1, <5>1 DEF Links
        <4>3. link \in [Conns -> Links]
          BY DEF IInv, TypeOK
        <4> HIDE DEF a, c
        <4> QED BY <1>1, <4>1, <4>2, <4>3, LinkReplaced
      <3>9. mixed' \subseteq Conns
        <4>1. mixed' = mixed \/ mixed' = mixed \cup {c}
          BY <2>2 DEF InterpretResponse
        <4>2. mixed \subseteq Conns
          BY DEF IInv, TypeOK
        <4> HIDE DEF c
        <4> QED BY <1>1, <4>1, <4>2
      <3> QED BY <3>5, <3>8, <3>9
    <2>3. CASE InterpretFails(t)
      BY <2>3 DEF IInv, TypeOK, InterpretFails, wire, handler
    <2> QED BY <2>1, <2>2, <2>3
  <1>5. TypeOK'
    BY <1>2, <1>3, <1>4 DEF IInv, TypeOK, manager
  <1>6. \A s \in Threads : pc'[s] = "extending" <=> pc[s] = "extending"
    BY <1>2 DEF IInv, TypeOK
  <1> QED BY <1>3, <1>4, <1>5, <1>6, ExtendingKept DEF IInv, manager

\* The server answers a request or closes a connection; none becomes free.
LEMMA ServerStep ==
    ASSUME IInv, NEW c \in Conns, ServerAnswers(c) \/ ServerCloses(c)
    PROVE  IInv'
  <1>1. /\ link' \in [Conns -> Links] /\ faults' \in 0 .. MaxFaults
        /\ \A d \in Conns : link'[d].state = "free" <=> link[d].state = "free"
    <2>1. link[c] \in Links /\ faults \in 0 .. MaxFaults /\ MaxFaults \in Nat
      BY WireAssumption DEF IInv, TypeOK
    <2>2. CASE ServerAnswers(c)
      <3>1. link[c].requests \in Seq(Requests) /\ link[c].requests # << >>
        BY <2>1, <2>2 DEF Links, ServerAnswers
      <3>2. Head(link[c].requests) \in Requests /\ Tail(link[c].requests) \in Seq(Requests)
        BY <3>1
      <3>3. PICK sized \in BOOLEAN :
              LET request == Head(link[c].requests)
              IN  /\ IF sized THEN UNCHANGED faults ELSE Fault
                  /\ link' = [link EXCEPT ![c] =
                       [state |-> IF request.closes THEN "closed" ELSE "open",
                        requests |-> IF request.closes THEN << >> ELSE Tail(@.requests),
                        answers |-> Append(@.answers, [of |-> request.of, sized |-> sized])]]
        BY <2>2 DEF ServerAnswers
      <3>4. [of |-> Head(link[c].requests).of, sized |-> sized] \in Answers \cup {Rest}
        BY <3>2 DEF Requests, Answers
      <3>5. Append(link[c].answers, [of |-> Head(link[c].requests).of, sized |-> sized])
              \in Seq(Answers \cup {Rest})
        BY <2>1, <3>4 DEF Links
      <3>6. /\ link'[c] \in Links /\ link'[c].state \in {"open", "closed"}
            /\ link' = [link EXCEPT ![c] = link'[c]]
        BY <3>2, <3>3, <3>5 DEF IInv, TypeOK, Links, States
      <3>7. link[c].state # "free"
        BY <2>2 DEF ServerAnswers
      <3>8. faults' \in 0 .. MaxFaults
        BY <2>1, <3>3 DEF Fault
      <3> QED BY <3>6, <3>7, <3>8 DEF IInv, TypeOK
    <2>3. CASE ServerCloses(c)
      <3>1. link' = [link EXCEPT ![c].state = "closed", ![c].requests = << >>]
        BY <2>3 DEF ServerCloses
      <3>2. faults' \in 0 .. MaxFaults
        BY <2>1, <2>3 DEF ServerCloses, Fault
      <3>3. << >> \in Seq(Requests) /\ "closed" \in States
        BY DEF States
      <3>4. link' = [link EXCEPT ![c] = [link[c] EXCEPT !.state = "closed", !.requests = << >>]]
        BY <2>1, <3>1
      <3>5. [link[c] EXCEPT !.state = "closed", !.requests = << >>] \in Links
            /\ [link[c] EXCEPT !.state = "closed", !.requests = << >>].state = "closed"
        BY <2>1, <3>3 DEF Links
      <3>6. link[c].state # "free" /\ link \in [Conns -> Links]
        BY <2>3 DEF ServerCloses, IInv, TypeOK
      <3> QED BY <3>2, <3>4, <3>5, <3>6, LinkReplaced
    <2> QED BY <2>2, <2>3
  <1>2. UNCHANGED <<manager, mixed, handler, pc, con>>
    BY DEF ServerAnswers, ServerCloses
  <1>3. TypeOK'
    BY <1>1, <1>2 DEF IInv, TypeOK, manager, handler
  <1> QED BY <1>1, <1>2, <1>3, ExtendingKept DEF IInv, manager

\* The requests and answers of a thread that returns keep their kind.
LEMMA RelabelledTyped ==
    ASSUME NEW t \in Threads
    PROVE  /\ \A s \in Seq(Requests) : Relabelled(t, s) \in Seq(Requests)
           /\ \A s \in Seq(Answers \cup {Rest}) : Relabelled(t, s) \in Seq(Answers \cup {Rest})
  <1>1. ASSUME NEW s \in Seq(Requests) PROVE Relabelled(t, s) \in Seq(Requests)
    <2>1. ASSUME NEW q \in Requests PROVE [q EXCEPT !.of = Aged(t, @)] \in Requests
      BY DEF Requests, Whose, Aged
    <2>2. DOMAIN s = 1 .. Len(s) /\ Len(s) \in Nat /\ \A i \in 1 .. Len(s) : s[i] \in Requests
      OBVIOUS
    <2>3. \A i \in 1 .. Len(s) : [s[i] EXCEPT !.of = Aged(t, @)] \in Requests
      BY <2>1, <2>2
    <2>4. Relabelled(t, s) \in [1 .. Len(s) -> Requests]
      BY <2>2, <2>3 DEF Relabelled
    <2> QED BY <2>2, <2>4
  <1>2. ASSUME NEW s \in Seq(Answers \cup {Rest})
        PROVE  Relabelled(t, s) \in Seq(Answers \cup {Rest})
    <2>1. ASSUME NEW q \in Answers \cup {Rest}
          PROVE  [q EXCEPT !.of = Aged(t, @)] \in Answers \cup {Rest}
      <3>1. CASE q \in Answers
        BY <3>1 DEF Answers, Whose, Aged
      <3>2. CASE q = Rest
        BY <3>2, Constants DEF Rest, Aged
      <3> QED BY <3>1, <3>2
    <2>2. /\ DOMAIN s = 1 .. Len(s) /\ Len(s) \in Nat
          /\ \A i \in 1 .. Len(s) : s[i] \in Answers \cup {Rest}
      OBVIOUS
    <2>3. \A i \in 1 .. Len(s) : [s[i] EXCEPT !.of = Aged(t, @)] \in Answers \cup {Rest}
      BY <2>1, <2>2
    <2>4. Relabelled(t, s) \in [1 .. Len(s) -> Answers \cup {Rest}]
      BY <2>2, <2>3 DEF Relabelled
    <2> QED BY <2>2, <2>4
  <1> QED BY <1>1, <1>2

\* A thread returns, and what was of it is of nobody who waits.
LEMMA ReturnStep ==
    ASSUME IInv, NEW t \in Threads, Return(t)
    PROVE  IInv'
  <1> DEFINE agedLink(c) == [link[c] EXCEPT !.requests = Relabelled(t, @),
                                            !.answers = Relabelled(t, @)]
  <1>1. link' = [c \in Conns |-> agedLink(c)]
    BY DEF Return
  <1>2. ASSUME NEW c \in Conns
        PROVE  agedLink(c) \in Links /\ agedLink(c).state = link[c].state
    <2>1. link[c] \in Links
      BY DEF IInv, TypeOK
    <2>2. link[c].requests \in Seq(Requests) /\ link[c].answers \in Seq(Answers \cup {Rest})
      BY <2>1 DEF Links
    <2>3. Relabelled(t, link[c].requests) \in Seq(Requests)
      BY <2>2, RelabelledTyped
    <2>4. Relabelled(t, link[c].answers) \in Seq(Answers \cup {Rest})
      BY <2>2, RelabelledTyped
    <2> QED BY <2>1, <2>3, <2>4 DEF Links
  <1>3. /\ link' \in [Conns -> Links]
        /\ \A c \in Conns : link'[c].state = "free" <=> link[c].state = "free"
    <2> HIDE DEF agedLink
    <2> QED BY <1>1, <1>2
  <1>4. response' \in [Threads -> Responses]
    <2>1. NoAnswer \in Responses
      BY DEF NoAnswer, Responses
    <2>2. [response[t] EXCEPT !.of = Aged(t, response[t].of)] \in Responses
      BY DEF IInv, TypeOK, Responses, Whose, Aged
    <2>3. \/ response' = [response EXCEPT ![t] = NoAnswer]
          \/ response' = [response EXCEPT ![t] = [response[t] EXCEPT !.of = Aged(t, response[t].of)]]
      BY DEF Return, IInv, TypeOK
    <2> QED BY <2>1, <2>2, <2>3 DEF IInv, TypeOK
  <1>5. /\ pc[t] = "done" /\ pc' = [pc EXCEPT ![t] = "idle"]
        /\ closes' = [closes EXCEPT ![t] = FALSE] /\ fresh' = [fresh EXCEPT ![t] = TRUE]
        /\ UNCHANGED <<manager, mixed, faults, con>>
    BY DEF Return, Go
  <1>6. TypeOK'
    BY <1>3, <1>4, <1>5 DEF IInv, TypeOK, manager
  <1>7. \A s \in Threads : pc'[s] = "extending" <=> pc[s] = "extending"
    BY <1>5 DEF IInv, TypeOK
  <1> QED BY <1>3, <1>5, <1>6, <1>7, ExtendingKept DEF IInv, manager

-----------------------------------------------------------------------------
(* The steps that lend, make, lose and take back a connection.              *)

\* The first connection of the pool becomes the thread's: those in use stay.
LEMMA PopFrontHolds ==
    ASSUME TypeOK, OneHolder, NEW t \in Threads, con[t] = NoConn, pool # << >>,
           PopFront(t), UNCHANGED link
    PROVE  /\ OneHolder' /\ InUse' = InUse
           /\ con' = [con EXCEPT ![t] = Head(pool)] /\ Head(pool) \in Conns
           /\ pool' \in Seq(Conns) /\ con' \in [Threads -> Conns \cup {NoConn}]
  <1> USE Constants
  <1>1. /\ pool \in Seq(Conns) /\ con \in [Threads -> Conns \cup {NoConn}]
        /\ Len(pool) \in Nat \ {0} /\ DOMAIN pool = 1 .. Len(pool)
    BY DEF TypeOK
  <1>2. /\ con' = [con EXCEPT ![t] = Head(pool)] /\ pool' = Tail(pool)
    BY DEF PopFront
  <1>3. /\ Head(pool) = pool[1] /\ Head(pool) \in Conns
        /\ pool' \in Seq(Conns) /\ Len(pool') = Len(pool) - 1 /\ DOMAIN pool' = 1 .. Len(pool) - 1
        /\ \A i \in 1 .. Len(pool) - 1 : pool'[i] = pool[i + 1]
    BY <1>1, <1>2, HeadTailProperties
  <1>4. Pooled' = Pooled \ {Head(pool)} /\ Head(pool) \in Pooled
    <2>1. ASSUME NEW c \in Pooled' PROVE c \in Pooled \ {Head(pool)}
      <3>1. PICK i \in 1 .. Len(pool) - 1 : c = pool[i + 1]
        BY <2>1, <1>3 DEF Pooled
      <3>2. i + 1 \in DOMAIN pool /\ i + 1 # 1 /\ 1 \in DOMAIN pool
        BY <1>1
      <3> QED BY <1>3, <3>1, <3>2 DEF Pooled, OneHolder
    <2>2. ASSUME NEW c \in Pooled, c # Head(pool) PROVE c \in Pooled'
      <3>1. PICK i \in 1 .. Len(pool) : c = pool[i]
        BY <1>1 DEF Pooled
      <3>2. i # 1
        BY <1>3, <2>2, <3>1
      <3>3. i - 1 \in DOMAIN pool' /\ pool'[i - 1] = c
        BY <1>1, <1>3, <3>1, <3>2
      <3> QED BY <3>3 DEF Pooled
    <2>3. Head(pool) \in Pooled
      BY <1>1, <1>3 DEF Pooled
    <2> QED BY <2>1, <2>2, <2>3
  <1>5. Borrowed' = Borrowed \cup {Head(pool)}
    BY <1>1, <1>2, <1>3 DEF Borrowed
  <1>6. Head(pool) \notin Borrowed
    BY <1>4 DEF OneHolder
  <1>7. InUse' = InUse
    BY DEF InUse
  <1>8. \A i, j \in DOMAIN pool' : pool'[i] = pool'[j] => i = j
    <2> SUFFICES ASSUME NEW i \in 1 .. Len(pool) - 1, NEW j \in 1 .. Len(pool) - 1, pool'[i] = pool'[j]
                 PROVE  i = j
      BY <1>3
    <2>1. pool[i + 1] = pool[j + 1] /\ i + 1 \in DOMAIN pool /\ j + 1 \in DOMAIN pool
      BY <1>1, <1>3
    <2>2. i + 1 = j + 1
      BY <2>1 DEF OneHolder
    <2> QED BY <2>2
  <1>9. \A r, s \in Threads : con'[r] = con'[s] /\ con'[r] # NoConn => r = s
    BY <1>1, <1>2, <1>3, <1>6 DEF OneHolder, Borrowed
  <1> QED BY <1>1, <1>2, <1>3, <1>4, <1>5, <1>6, <1>7, <1>8, <1>9 DEF OneHolder

\* A thread finds a connection in the pool, while nobody extends it.
LEMMA TakePooledStep ==
    ASSUME IInv, NEW t \in Threads, TakePooled(t)
    PROVE  IInv'
  <1> USE Constants
  <1>1. /\ pc[t] = "asking" /\ pc' = [pc EXCEPT ![t] = "writing"] /\ lock = NoThread
        /\ pool # << >> /\ PopFront(t) /\ UNCHANGED <<initialized, lock, made, wire, handler>>
    BY DEF TakePooled, Go
  <1>2. con[t] = NoConn
    BY <1>1 DEF IInv, TypeOK
  <1>3. /\ OneHolder' /\ InUse' = InUse
        /\ con' = [con EXCEPT ![t] = Head(pool)] /\ Head(pool) \in Conns
        /\ pool' \in Seq(Conns) /\ con' \in [Threads -> Conns \cup {NoConn}]
    BY <1>1, <1>2, PopFrontHolds DEF IInv, wire
  <1>4. TypeOK'
    BY <1>1, <1>3 DEF IInv, TypeOK, wire, handler
  <1>5. \A s \in Threads : pc[s] # "extending" /\ pc'[s] # "extending"
    BY <1>1 DEF IInv, TypeOK, Extending
  <1>6. Extending' /\ Bound'
    BY <1>1, <1>3, <1>5 DEF IInv, Extending, Bound, PoolBound
  <1> QED BY <1>3, <1>4, <1>6 DEF IInv

\* A thread that finds the pool empty takes the mutex: what there is, others have.
LEMMA ExtendPoolStep ==
    ASSUME IInv, NEW t \in Threads, ExtendPool(t)
    PROVE  IInv'
  <1> USE Constants
  <1>1. /\ pc[t] = "asking" /\ pc' = [pc EXCEPT ![t] = "extending"]
        /\ lock = NoThread /\ lock' = t /\ pool = << >>
        /\ UNCHANGED <<initialized, made, pool, wire, handler, con>>
    BY DEF ExtendPool, Go
  <1>2. TypeOK'
    BY <1>1 DEF IInv, TypeOK, wire, handler
  <1>3. OneHolder' /\ InUse' = InUse
    BY <1>1, HoldersKept DEF wire
  <1>4. \A s \in Threads : pc[s] # "extending"
    BY <1>1 DEF IInv, Extending
  <1>5. made = 0 /\ Len(pool) = 0
    BY <1>1, <1>4 DEF IInv, Extending
  <1>6. Extending'
    BY <1>1, <1>4, <1>5 DEF Extending, IInv, TypeOK
  <1>7. Pooled = {}
    BY <1>1 DEF Pooled
  <1>8. InUse = Borrowed /\ con[t] = NoConn
    BY <1>1, <1>7 DEF IInv, TypeOK, OneHolder
  <1>9. Cardinality(InUse) < Cardinality(Threads)
    BY <1>8, BorrowedByOthers DEF IInv
  <1>10. Bound'
    BY <1>1, <1>3, <1>5, <1>9 DEF IInv, Bound, PoolBound
  <1> QED BY <1>2, <1>3, <1>6, <1>10 DEF IInv

\* A connection that is made goes to the pool of the thread that makes it.
LEMMA PoolStep ==
    ASSUME IInv, NEW t \in Threads, NEW state \in {"open", "unconnected"},
           pc[t] = "extending", made < Stride, Pool(t, state), faults' \in 0 .. MaxFaults
    PROVE  IInv'
  <1> USE Constants
  <1>1. PICK c \in Conns :
          /\ link[c].state = "free" /\ link' = [link EXCEPT ![c] = Link(state)]
          /\ mixed' = mixed \ {c} /\ pool' = Append(pool, c) /\ made' = made + 1
          /\ UNCHANGED <<initialized, lock, handler, pc, con>>
    BY DEF Pool
  <1>2. Link(state) \in Links /\ Link(state).state # "free"
    BY DEF Link, Links, States
  <1>3. /\ pool \in Seq(Conns) /\ Len(pool) \in Nat /\ DOMAIN pool = 1 .. Len(pool)
        /\ pool' \in Seq(Conns) /\ Len(pool') = Len(pool) + 1 /\ DOMAIN pool' = 1 .. Len(pool) + 1
        /\ \A i \in 1 .. Len(pool) : pool'[i] = pool[i]
        /\ pool'[Len(pool) + 1] = c
    BY <1>1, AppendProperties DEF IInv, TypeOK
  <1>4. made \in Nat /\ made + 1 \in 0 .. Stride
    BY DEF IInv, TypeOK
  <1>5. TypeOK'
    <2>1. link' \in [Conns -> Links]
      BY <1>1, <1>2 DEF IInv, TypeOK
    <2> QED BY <1>1, <1>3, <1>4, <2>1 DEF IInv, TypeOK, handler
  <1>6. c \notin InUse /\ InUse' = InUse \cup {c}
    BY <1>1, <1>2 DEF InUse, IInv, TypeOK
  <1>7. Pooled' = Pooled \cup {c} /\ Borrowed' = Borrowed
    <2>1. Borrowed' = Borrowed
      BY <1>1 DEF Borrowed
    <2>2. ASSUME NEW d \in Pooled' PROVE d \in Pooled \cup {c}
      BY <1>3 DEF Pooled
    <2>3. ASSUME NEW d \in Pooled PROVE d \in Pooled'
      BY <1>3 DEF Pooled
    <2>4. c \in Pooled'
      BY <1>3 DEF Pooled
    <2> QED BY <2>1, <2>2, <2>3, <2>4
  <1>8. OneHolder'
    <2>1. \A i \in 1 .. Len(pool) : pool[i] # c
      BY <1>3, <1>6 DEF IInv, OneHolder, Pooled
    <2>2. \A i, j \in DOMAIN pool' : pool'[i] = pool'[j] => i = j
      BY <1>3, <2>1 DEF IInv, OneHolder
    <2>3. c \notin Borrowed
      BY <1>6 DEF IInv, OneHolder
    <2> QED BY <1>1, <1>6, <1>7, <2>2, <2>3 DEF IInv, OneHolder
  <1>9. \A s \in Threads : pc[s] = "extending" => s = t
    BY DEF IInv, Extending
  <1>10. Extending'
    BY <1>1, <1>3, <1>4 DEF IInv, Extending
  <1>11. Cardinality(InUse') = Cardinality(InUse) + 1 /\ Cardinality(InUse) \in Nat
    <2> HIDE DEF InUse
    <2> QED BY <1>6, InUseFinite, FS_AddElement
  <1>12. Cardinality(InUse') < Cardinality(Threads) + made'
    BY <1>1, <1>4, <1>11 DEF IInv, Bound
  <1>13. Bound'
    BY <1>1, <1>4, <1>9, <1>11, <1>12, InUseFinite DEF Bound, PoolBound
  <1> QED BY <1>5, <1>8, <1>10, <1>13 DEF IInv

\* A thread that makes connections: one more, an exception, or the first of them.
LEMMA ExtendingStep ==
    ASSUME IInv, NEW t \in Threads,
           Connect(t) \/ ConnectFails(t) \/ ExtendThrows(t) \/ TakeExtended(t)
    PROVE  IInv'
  <1> USE Constants
  <1>1. faults \in 0 .. MaxFaults /\ MaxFaults \in Nat /\ made \in Nat
    BY WireAssumption DEF IInv, TypeOK
  <1>2. CASE Connect(t) \/ ConnectFails(t)
    <2>1. faults' \in 0 .. MaxFaults
      BY <1>1, <1>2 DEF Connect, ConnectFails, Fault
    <2>2. pc[t] = "extending" /\ made < Stride /\ (Pool(t, "open") \/ Pool(t, "unconnected"))
      BY <1>2 DEF Connect, ConnectFails
    <2> QED BY <2>1, <2>2, PoolStep
  <1>3. \A s \in Threads : pc[s] = "extending" /\ pc[t] = "extending" => s = t
    BY DEF IInv, Extending
  <1>4. CASE ExtendThrows(t)
    <2>1. /\ pc[t] = "extending" /\ pc' = [pc EXCEPT ![t] = "done"] /\ made' = 0
          /\ UNCHANGED <<initialized, lock, pool, link, mixed, handler, con>>
      BY <1>4 DEF ExtendThrows, Go
    <2>2. faults' \in 0 .. MaxFaults
      BY <1>1, <1>4 DEF ExtendThrows, Fault
    <2>3. TypeOK'
      BY <2>1, <2>2 DEF IInv, TypeOK, handler
    <2>4. OneHolder' /\ InUse' = InUse
      BY <2>1, HoldersKept
    <2>5. \A s \in Threads : pc'[s] # "extending"
      BY <1>3, <2>1 DEF IInv, TypeOK
    <2> QED BY <2>1, <2>3, <2>4, <2>5 DEF IInv, Extending, Bound, PoolBound
  <1>5. CASE TakeExtended(t)
    <2>1. /\ pc[t] = "extending" /\ pc' = [pc EXCEPT ![t] = "writing"]
          /\ made = Stride /\ PopFront(t) /\ lock' = NoThread /\ made' = 0
          /\ UNCHANGED <<initialized, wire, handler>>
      BY <1>5 DEF TakeExtended, Go
    <2>2. con[t] = NoConn /\ pool # << >>
      <3>1. Len(pool) = Stride
        BY <2>1 DEF IInv, Extending
      <3>2. pool # << >>
        BY <3>1
      <3> QED BY <2>1, <3>2 DEF IInv, TypeOK
    <2>3. /\ OneHolder' /\ InUse' = InUse
          /\ con' = [con EXCEPT ![t] = Head(pool)] /\ Head(pool) \in Conns
          /\ pool' \in Seq(Conns) /\ con' \in [Threads -> Conns \cup {NoConn}]
      BY <2>1, <2>2, PopFrontHolds DEF IInv, wire
    <2>4. TypeOK'
      BY <2>1, <2>3 DEF IInv, TypeOK, wire, handler
    <2>5. \A s \in Threads : pc'[s] # "extending"
      BY <1>3, <2>1 DEF IInv, TypeOK
    <2> QED BY <2>1, <2>3, <2>4, <2>5 DEF IInv, Extending, Bound, PoolBound
  <1> QED BY <1>2, <1>4, <1>5

\* A connection that broke is nobody's any more.
LEMMA WriteThrowsStep ==
    ASSUME IInv, NEW t \in Threads, WriteThrows(t)
    PROVE  IInv'
  <1> USE Constants
  <1>1. /\ pc[t] = "writing" /\ pc' = [pc EXCEPT ![t] = "done"]
        /\ link[con[t]].state \in {"reset", "unconnected"}
        /\ link' = [link EXCEPT ![con[t]] = Link("free")]
        /\ con' = [con EXCEPT ![t] = NoConn]
        /\ UNCHANGED <<manager, mixed, faults, handler>>
    BY DEF WriteThrows, Go
  <1>2. PICK c \in Conns : c = con[t] /\ c # NoConn
    BY <1>1 DEF IInv, TypeOK
  <1>3. Link("free") \in Links /\ Link("free").state = "free"
    BY DEF Link, Links, States
  <1>4. TypeOK'
    <2>1. link' \in [Conns -> Links]
      BY <1>1, <1>3 DEF IInv, TypeOK
    <2> QED BY <1>1, <2>1 DEF IInv, TypeOK, manager, handler
  <1>5. InUse' = InUse \ {c} /\ c \in InUse
    BY <1>1, <1>2, <1>3 DEF InUse, IInv, TypeOK
  <1>6. Pooled' = Pooled /\ Borrowed' = Borrowed \ {c} /\ c \in Borrowed
    <2>1. Pooled' = Pooled /\ c \in Borrowed
      BY <1>1, <1>2 DEF Pooled, Borrowed, manager
    <2>2. \A s \in Threads : s # t => con[s] # c
      BY <1>2 DEF IInv, OneHolder
    <2>3. con \in [Threads -> Conns \cup {NoConn}]
      BY DEF IInv, TypeOK
    <2> QED BY <1>1, <1>2, <2>1, <2>2, <2>3 DEF Borrowed
  <1>7. OneHolder'
    <2>1. \A r, s \in Threads : con'[r] = con'[s] /\ con'[r] # NoConn => r = s
      BY <1>1 DEF IInv, TypeOK, OneHolder
    <2>2. pool' = pool
      BY <1>1 DEF manager
    <2> QED BY <1>5, <1>6, <2>1, <2>2 DEF IInv, OneHolder
  <1>8. Cardinality(InUse') <= Cardinality(InUse)
    <2>1. InUse' \subseteq InUse
      BY <1>5
    <2> HIDE DEF InUse
    <2> QED BY <2>1, InUseFinite, FS_Subset
  <1>9. UNCHANGED <<lock, pool, made>> /\ \A s \in Threads : pc'[s] = "extending" <=> pc[s] = "extending"
    BY <1>1 DEF IInv, TypeOK, manager
  <1>10. made \in Nat
    BY DEF IInv, TypeOK
  <1>11. Extending' /\ Bound'
    BY <1>8, <1>9, <1>10, InUseFinite DEF IInv, Extending, Bound, PoolBound
  <1> QED BY <1>4, <1>7, <1>11 DEF IInv

\* A connection goes back to the pool, while nobody extends it.
LEMMA ReclaimConnectionStep ==
    ASSUME IInv, NEW t \in Threads, ReclaimConnection(t)
    PROVE  IInv'
  <1> USE Constants
  <1>1. /\ lock = NoThread /\ pc[t] = "reclaiming" /\ pc' = [pc EXCEPT ![t] = "done"]
        /\ pool' = Append(pool, con[t]) /\ con' = [con EXCEPT ![t] = NoConn]
        /\ UNCHANGED <<initialized, lock, made, wire, handler>>
    BY DEF ReclaimConnection, Go
  <1>2. PICK c \in Conns : c = con[t] /\ c # NoConn
    BY <1>1 DEF IInv, TypeOK
  <1>3. /\ pool \in Seq(Conns) /\ Len(pool) \in Nat /\ DOMAIN pool = 1 .. Len(pool)
        /\ pool' \in Seq(Conns) /\ Len(pool') = Len(pool) + 1 /\ DOMAIN pool' = 1 .. Len(pool) + 1
        /\ \A i \in 1 .. Len(pool) : pool'[i] = pool[i]
        /\ pool'[Len(pool) + 1] = c
    BY <1>1, <1>2, AppendProperties DEF IInv, TypeOK
  <1>4. TypeOK'
    BY <1>1, <1>3 DEF IInv, TypeOK, wire, handler
  <1>5. InUse' = InUse
    BY <1>1 DEF InUse, wire
  <1>6. c \in Borrowed /\ c \notin Pooled
    BY <1>2 DEF Borrowed, IInv, OneHolder
  <1>7. Borrowed' = Borrowed \ {c}
    <2>1. \A s \in Threads : s # t => con[s] # c
      BY <1>2 DEF IInv, OneHolder
    <2>2. con \in [Threads -> Conns \cup {NoConn}]
      BY DEF IInv, TypeOK
    <2> QED BY <1>1, <1>2, <2>1, <2>2 DEF Borrowed
  <1>8. Pooled' = Pooled \cup {c}
    <2>1. ASSUME NEW d \in Pooled' PROVE d \in Pooled \cup {c}
      BY <1>3 DEF Pooled
    <2>2. ASSUME NEW d \in Pooled PROVE d \in Pooled'
      BY <1>3 DEF Pooled
    <2>3. c \in Pooled'
      BY <1>3 DEF Pooled
    <2> QED BY <2>1, <2>2, <2>3
  <1>9. OneHolder'
    <2>1. \A i \in 1 .. Len(pool) : pool[i] # c
      BY <1>3, <1>6 DEF Pooled
    <2>2. \A i, j \in DOMAIN pool' : pool'[i] = pool'[j] => i = j
      BY <1>3, <2>1 DEF IInv, OneHolder
    <2>3. \A r, s \in Threads : con'[r] = con'[s] /\ con'[r] # NoConn => r = s
      BY <1>1 DEF IInv, TypeOK, OneHolder
    <2> QED BY <1>5, <1>6, <1>7, <1>8, <2>2, <2>3 DEF IInv, OneHolder
  <1>10. \A s \in Threads : pc[s] # "extending" /\ pc'[s] # "extending"
    BY <1>1 DEF IInv, TypeOK, Extending
  <1>11. Extending' /\ Bound'
    BY <1>1, <1>5, <1>10 DEF IInv, Extending, Bound, PoolBound
  <1> QED BY <1>4, <1>9, <1>11 DEF IInv

-----------------------------------------------------------------------------
(* Whose answer a thread reads.  A connection that was never left with a    *)
(* rest is empty, but for what the thread that reads from it has asked.     *)

Empty(c) == link[c].requests = << >> /\ link[c].answers = << >>

Asked(c, t) ==
  Len(link[c].requests) = 1 /\ link[c].requests[1].of = t /\ link[c].answers = << >>
IsAnswered(c, t) ==
  link[c].requests = << >> /\ Len(link[c].answers) = 1 /\ link[c].answers[1].of = t

Exchange(c, t) == pc[t] = "reading" /\ con[t] = c /\ (Asked(c, t) \/ IsAnswered(c, t))

Exchanged == \A c \in Conns \ mixed : Empty(c) \/ \E t \in Threads : Exchange(c, t)

\* A thread that began with no answer has none until it has read one, and then
\* that of its own request, unless the connection was behind.
OwnResponse ==
  \A t \in Threads : fresh[t] =>
    /\ pc[t] \in {"asking", "extending", "writing", "reading"} => response[t].code = 0
    /\ /\ pc[t] \in {"reclaiming", "done"}
       /\ response[t].code = 200 /\ ~response[t].behind
       => response[t].of = t

\* Nothing is asked over a connection that is not open any more.
Unasked == \A c \in Conns : link[c].state # "open" => link[c].requests = << >>

OInv == Exchanged /\ OwnResponse /\ Unasked

\* What a thread leaves behind is as long as it was, and the others' stays theirs.
LEMMA RelabelledKept ==
    ASSUME NEW t \in Threads, NEW s \in Seq(Requests) \cup Seq(Answers \cup {Rest})
    PROVE  /\ s = << >> => Relabelled(t, s) = << >>
           /\ Len(s) = 1 /\ s[1].of # t =>
                Len(Relabelled(t, s)) = 1 /\ Relabelled(t, s)[1].of = s[1].of
  <1>1. /\ Len(s) \in Nat /\ DOMAIN s = 1 .. Len(s)
        /\ \A i \in 1 .. Len(s) : s[i] \in Requests \cup Answers \cup {Rest}
    OBVIOUS
  <1>2. Relabelled(t, s) \in Seq(Requests) \cup Seq(Answers \cup {Rest})
    BY RelabelledTyped
  <1>3. DOMAIN Relabelled(t, s) = 1 .. Len(s)
    BY <1>1 DEF Relabelled
  <1>4. Len(Relabelled(t, s)) = Len(s)
    BY <1>1, <1>2, <1>3
  <1>5. ASSUME Len(s) = 1, s[1].of # t PROVE Relabelled(t, s)[1].of = s[1].of
    <2>1. 1 \in DOMAIN s /\ s[1] \in Requests \cup Answers \cup {Rest}
      BY <1>1, <1>5
    <2>2. Relabelled(t, s)[1] = [s[1] EXCEPT !.of = Aged(t, @)]
      BY <2>1 DEF Relabelled
    <2> QED BY <1>5, <2>1, <2>2 DEF Aged, Requests, Answers, Rest
  <1> QED BY <1>2, <1>4, <1>5

\* Of a sequence of one the first is all.
LEMMA TailOfOne ==
    ASSUME NEW S, NEW s \in Seq(S), Len(s) = 1
    PROVE  Tail(s) = << >> /\ << >> \o Tail(s) = << >> /\ Head(s) = s[1]
  <1>1. s # << >>
    OBVIOUS
  <1>2. Tail(s) \in Seq(S) /\ Len(Tail(s)) = 0 /\ Head(s) = s[1]
    BY <1>1, HeadTailProperties
  <1>3. Tail(s) = << >>
    BY <1>2, EmptySeq
  <1>4. << >> \o Tail(s) = Tail(s)
    BY <1>2, ConcatEmptySeq
  <1> QED BY <1>2, <1>3, <1>4

\* One field of a connection changes, and the others stay.
LEMMA FieldChanged ==
    ASSUME TypeOK, NEW c \in Conns, NEW a
    PROVE  /\ link' = [link EXCEPT ![c].answers = a] =>
                /\ \A d \in Conns : d # c => link'[d] = link[d]
                /\ link'[c].answers = a
                /\ link'[c].requests = link[c].requests /\ link'[c].state = link[c].state
           /\ link' = [link EXCEPT ![c].requests = a] =>
                /\ \A d \in Conns : d # c => link'[d] = link[d]
                /\ link'[c].requests = a
                /\ link'[c].answers = link[c].answers /\ link'[c].state = link[c].state
           /\ link' = [link EXCEPT ![c].state = "reset", ![c].answers = a] =>
                /\ \A d \in Conns : d # c => link'[d] = link[d]
                /\ link'[c].answers = a /\ link'[c].requests = link[c].requests
                /\ link'[c].state = "reset"
  <1>1. link \in [Conns -> Links] /\ link[c] \in Links
    BY DEF TypeOK
  <1>2. ASSUME link' = [link EXCEPT ![c].answers = a]
        PROVE  /\ \A d \in Conns : d # c => link'[d] = link[d]
               /\ link'[c] = [link[c] EXCEPT !.answers = a]
    BY <1>1, <1>2
  <1>3. ASSUME link' = [link EXCEPT ![c].requests = a]
        PROVE  /\ \A d \in Conns : d # c => link'[d] = link[d]
               /\ link'[c] = [link[c] EXCEPT !.requests = a]
    BY <1>1, <1>3
  <1>4. ASSUME link' = [link EXCEPT ![c].state = "reset", ![c].answers = a]
        PROVE  /\ \A d \in Conns : d # c => link'[d] = link[d]
               /\ link'[c] = [link[c] EXCEPT !.state = "reset", !.answers = a]
    BY <1>1, <1>4
  <1> QED BY <1>1, <1>2, <1>3, <1>4 DEF Links

\* A connection that is not touched, and whose reader goes on reading, or that is
\* empty now.
LEMMA ExchangedKept ==
    ASSUME Exchanged,
           \A c \in Conns \ mixed' :
             \/ Empty(c)'
             \/ /\ c \notin mixed /\ link'[c] = link[c]
                /\ \A t \in Threads : pc[t] = "reading" /\ con[t] = c =>
                                        pc'[t] = "reading" /\ con'[t] = c
    PROVE  Exchanged'
  BY DEF Exchanged, Exchange, Empty, Asked, IsAnswered

\* What a thread was answered stays the answer, while it goes on within its
\* request.
LEMMA OwnResponseKept ==
    ASSUME TypeOK, OwnResponse, UNCHANGED <<response, fresh>>,
           NEW t \in Threads, NEW from, NEW to, pc[t] = from, pc' = [pc EXCEPT ![t] = to],
           \/ from = "reclaiming" /\ to = "done"
           \/ /\ from \in {"asking", "extending", "writing", "reading"}
              /\ to \in {"extending", "writing", "reading", "reclaiming", "done"}
    PROVE  OwnResponse'
  BY DEF OwnResponse, TypeOK

\* A thread borrows a connection, or extends the pool: what is made is empty.
LEMMA BorrowOwn ==
    ASSUME IInv, OInv, NEW t \in Threads, Borrow(t)
    PROVE  OInv'
  <1> USE DEF IInv, OInv
  <1>1. CASE RefuseConnection(t) \/ TakePooled(t) \/ ExtendPool(t) \/ ExtendThrows(t)
             \/ TakeExtended(t)
    <2>1. /\ \/ pc[t] = "asking" /\ pc' = [pc EXCEPT ![t] = "done"]
             \/ pc[t] = "asking" /\ pc' = [pc EXCEPT ![t] = "writing"]
             \/ pc[t] = "asking" /\ pc' = [pc EXCEPT ![t] = "extending"]
             \/ pc[t] = "extending" /\ pc' = [pc EXCEPT ![t] = "done"]
             \/ pc[t] = "extending" /\ pc' = [pc EXCEPT ![t] = "writing"]
          /\ UNCHANGED <<link, mixed, response, fresh>>
          /\ con' = con \/ con' = [con EXCEPT ![t] = Head(pool)]
      BY <1>1 DEF RefuseConnection, TakePooled, ExtendPool, ExtendThrows, TakeExtended, PopFront,
                  Go, wire, handler
    <2>2. OwnResponse'
      BY <2>1, OwnResponseKept
    <2>3. Exchanged'
      BY <2>1, ExchangedKept DEF TypeOK
    <2> QED BY <2>1, <2>2, <2>3 DEF Unasked
  <1>2. ASSUME NEW state, Pool(t, state) PROVE OInv'
    <2>1. PICK c \in Conns :
            /\ link' = [link EXCEPT ![c] = Link(state)] /\ mixed' = mixed \ {c}
            /\ UNCHANGED <<handler, pc, con>>
      BY <1>2 DEF Pool
    <2>2. Empty(c)'
      BY <2>1 DEF Empty, Link, TypeOK
    <2>3. Exchanged'
      BY <2>1, <2>2, ExchangedKept DEF TypeOK
    <2>4. OwnResponse'
      BY <2>1 DEF OwnResponse, handler
    <2>5. Unasked'
      BY <2>1, <2>2 DEF Unasked, Empty, TypeOK
    <2> QED BY <2>3, <2>4, <2>5
  <1>3. CASE Connect(t) \/ ConnectFails(t)
    BY <1>2, <1>3 DEF Connect, ConnectFails
  <1> QED BY <1>1, <1>3 DEF Borrow

\* A thread that writes finds its connection empty, so that its request is the
\* only one; where the server has closed it there is none at all.
LEMMA WriteOwn ==
    ASSUME IInv, OInv, NEW t \in Threads, Write(t)
    PROVE  OInv'
  <1> DEFINE c == con[t]
  <1> USE DEF IInv, OInv
  <1>1. /\ c \in Conns /\ link[c] \in Links
        /\ pc[t] = "writing" /\ pc' = [pc EXCEPT ![t] = "reading"]
        /\ UNCHANGED <<mixed, response, fresh, con>>
    BY DEF Write, Go, TypeOK, handler
  <1>2. OwnResponse'
    BY <1>1, OwnResponseKept
  <1>3. \A s \in Threads : con[s] = c => s = t
    BY <1>1, Constants DEF OneHolder
  <1>4. c \notin mixed => Empty(c)
    BY <1>1, <1>3 DEF Exchanged, Exchange
  <1>5. ASSUME NEW d \in Conns \ mixed, d # c
        PROVE  Empty(d)' \/ \E s \in Threads : Exchange(d, s)'
    <2>1. link'[d] = link[d]
      BY <1>1, <1>5 DEF Write, TypeOK
    <2>2. Empty(d) \/ \E s \in Threads : Exchange(d, s)
      BY DEF Exchanged
    <2>3. \A s \in Threads : Exchange(d, s) => Exchange(d, s)'
      BY <1>1, <2>1 DEF Exchange, Asked, IsAnswered, TypeOK
    <2> QED BY <2>1, <2>2, <2>3 DEF Empty
  <1>6. ASSUME c \notin mixed
        PROVE  Empty(c)' \/ Exchange(c, t)'
    <2>1. CASE link' = [link EXCEPT ![c].requests = Append(@, [of |-> t, closes |-> closes[t]])]
      <3> DEFINE request == [of |-> t, closes |-> closes[t]]
      <3>1. link'[c].requests = Append(<< >>, request) /\ link'[c].answers = << >>
        <4>1. link' = [link EXCEPT ![c].requests = Append(link[c].requests, request)]
          BY <1>1, <2>1 DEF TypeOK
        <4>2. link[c].requests = << >> /\ link[c].answers = << >>
          BY <1>4, <1>6 DEF Empty
        <4> HIDE DEF c, request
        <4> QED BY <1>1, <4>1, <4>2, FieldChanged
      <3>2. Len(link'[c].requests) = 1 /\ link'[c].requests[1].of = t
        <4>1. link'[c].requests = <<request>>
          BY <3>1
        <4> QED BY <4>1
      <3> QED BY <1>1, <3>1, <3>2 DEF Exchange, Asked, TypeOK
    <2>2. CASE link' = [link EXCEPT ![c].state = "reset", ![c].answers = << >>]
      <3>1. link'[c].answers = << >> /\ link'[c].requests = link[c].requests
        <4> HIDE DEF c
        <4> QED BY <1>1, <2>2, FieldChanged
      <3> QED BY <1>1, <1>4, <1>6, <3>1 DEF Empty
    <2> QED BY <2>1, <2>2 DEF Write
  <1>7. Exchanged'
    BY <1>1, <1>5, <1>6 DEF Exchanged
  <1>8. Unasked'
    <2>1. \A d \in Conns : d # c => link'[d] = link[d]
      BY <1>1 DEF Write, TypeOK
    <2>2. CASE link[c].state = "open"
               /\ link' = [link EXCEPT ![c].requests = Append(@, [of |-> t, closes |-> closes[t]])]
      <3>1. link'[c].state = "open"
        <4>1. link' = [link EXCEPT ![c].requests = Append(link[c].requests, [of |-> t, closes |-> closes[t]])]
          BY <1>1, <2>2 DEF TypeOK
        <4> HIDE DEF c
        <4> QED BY <1>1, <2>2, <4>1, FieldChanged
      <3> QED BY <2>1, <3>1 DEF Unasked
    <2>3. CASE link[c].state = "closed"
               /\ link' = [link EXCEPT ![c].state = "reset", ![c].answers = << >>]
      <3>1. link'[c].requests = link[c].requests
        <4> HIDE DEF c
        <4> QED BY <1>1, <2>3, FieldChanged
      <3> QED BY <1>1, <2>1, <2>3, <3>1 DEF Unasked
    <2> QED BY <2>2, <2>3 DEF Write
  <1> QED BY <1>2, <1>7, <1>8

\* A thread reads the answer to its own request, and leaves nothing; or it leaves
\* a rest, and the connection is one that does.
LEMMA ReadOwn ==
    ASSUME IInv, OInv, NEW t \in Threads, InterpretResponse(t)
    PROVE  OInv'
  <1> DEFINE c == con[t]
             answer == Head(link[c].answers)
  <1> USE DEF IInv, OInv
  <1>1. /\ c \in Conns /\ link[c] \in Links /\ link[c].answers # << >>
        /\ pc[t] = "reading" /\ pc' = [pc EXCEPT ![t] = "reclaiming"]
        /\ UNCHANGED <<fresh, con>> /\ mixed \subseteq mixed'
    BY DEF InterpretResponse, Go, TypeOK
  <1>2. PICK code \in {0, 200}, left \in {<< >>, <<Rest>>} :
          /\ Interpret(t, code, left)
          /\ c \notin mixed' => left = << >>
    BY DEF InterpretResponse
  <1>3. \A s \in Threads : con[s] = c => s = t
    BY <1>1, Constants DEF OneHolder
  <1>4. c \notin mixed => IsAnswered(c, t)
    BY <1>1, <1>3 DEF Exchanged, Exchange, Empty, Asked
  <1>5. c \notin mixed => answer.of = t
    BY <1>1, <1>4 DEF IsAnswered, Links
  <1>6. response' = [response EXCEPT ![t] = [of |-> answer.of, code |-> code, behind |-> c \in mixed]]
        /\ link' = [link EXCEPT ![c].answers = left \o Tail(@)]
    BY <1>2 DEF Interpret
  <1>7. /\ \A d \in Conns : d # c => link'[d] = link[d]
        /\ link'[c].answers = left \o Tail(link[c].answers)
        /\ link'[c].requests = link[c].requests /\ link'[c].state = link[c].state
    <2>1. link' = [link EXCEPT ![c].answers = left \o Tail(link[c].answers)]
      BY <1>1, <1>6 DEF TypeOK
    <2> HIDE DEF c
    <2> QED BY <1>1, <2>1, FieldChanged
  <1>8. OwnResponse'
    <2>1. /\ response'[t] = [of |-> answer.of, code |-> code, behind |-> c \in mixed]
          /\ \A s \in Threads : s # t => response'[s] = response[s] /\ pc'[s] = pc[s]
          /\ pc'[t] = "reclaiming"
      <3> HIDE DEF answer, c
      <3> QED BY <1>1, <1>6 DEF TypeOK
    <2>2. response'[t].of = answer.of /\ (c \in mixed => response'[t].behind)
      <3> DEFINE behind == c \in mixed
      <3>1. response'[t] = [of |-> answer.of, code |-> code, behind |-> behind]
        BY <2>1
      <3> HIDE DEF answer, behind
      <3>2. response'[t].of = answer.of /\ response'[t].behind = behind
        BY <3>1
      <3> QED BY <3>2, Zenon DEF behind
    <2>3. ~response'[t].behind => response'[t].of = t
      BY <1>5, <2>2
    <2>4. \A s \in Threads : s # t => response'[s] = response[s] /\ pc'[s] = pc[s]
      BY <2>1
    <2> HIDE DEF answer, c
    <2> QED BY <1>1, <2>1, <2>3, <2>4 DEF OwnResponse
  <1>9. c \notin mixed' => Empty(c)'
    <2> SUFFICES ASSUME c \notin mixed' PROVE Empty(c)'
      OBVIOUS
    <2>1. IsAnswered(c, t) /\ left = << >>
      BY <1>1, <1>2, <1>4
    <2>2. Len(link[c].answers) = 1 /\ link[c].answers \in Seq(Answers \cup {Rest})
      BY <1>1, <2>1 DEF IsAnswered, Links
    <2>3. << >> \o Tail(link[c].answers) = << >>
      BY <2>2, TailOfOne
    <2>4. link'[c].answers = << >> /\ link'[c].requests = link[c].requests
      BY <1>7, <2>1, <2>3
    <2> QED BY <1>1, <2>1, <2>4 DEF Empty, IsAnswered
  <1>10. \A d \in Conns : d # c => link'[d] = link[d]
    BY <1>7
  <1>11. Exchanged'
    BY <1>1, <1>9, <1>10, ExchangedKept DEF TypeOK
  <1>12. Unasked'
    <2>1. link'[c].requests = link[c].requests /\ link'[c].state = link[c].state
      BY <1>7
    <2> QED BY <1>1, <1>10, <2>1 DEF Unasked
  <1> QED BY <1>8, <1>11, <1>12

\* A thread that finds the connection closed reads nothing and keeps what it had:
\* there is no request under way; and a connection is given back empty.
LEMMA EndOwn ==
    ASSUME IInv, OInv, NEW t \in Threads,
           InterpretFails(t) \/ WriteThrows(t) \/ ReclaimConnection(t)
    PROVE  OInv'
  <1> USE DEF IInv, OInv
  <1>1. CASE InterpretFails(t)
    <2>1. /\ pc[t] = "reading" /\ pc' = [pc EXCEPT ![t] = "reclaiming"]
          /\ link[con[t]].state # "open" /\ link[con[t]].answers = << >>
          /\ con[t] \in Conns
          /\ UNCHANGED <<link, mixed, response, fresh, con>>
      BY <1>1 DEF InterpretFails, Go, wire, handler, TypeOK
    <2>2. Empty(con[t])'
      BY <2>1 DEF Unasked, Empty
    <2>3. Exchanged'
      BY <2>1, <2>2, ExchangedKept DEF TypeOK
    <2> QED BY <2>1, <2>3, OwnResponseKept DEF Unasked
  <1>2. CASE WriteThrows(t)
    <2>1. /\ pc[t] = "writing" /\ pc' = [pc EXCEPT ![t] = "done"]
          /\ link' = [link EXCEPT ![con[t]] = Link("free")] /\ con' = [con EXCEPT ![t] = NoConn]
          /\ UNCHANGED <<mixed, response, fresh>>
      BY <1>2 DEF WriteThrows, Go, handler
    <2>2. PICK c \in Conns : c = con[t]
      BY <2>1 DEF TypeOK
    <2>3. Empty(c)' /\ \A d \in Conns : d # c => link'[d] = link[d]
      BY <2>1, <2>2 DEF Empty, Link, TypeOK
    <2>4. Unasked'
      BY <2>3 DEF Unasked, Empty
    <2>5. \A s \in Threads : pc[s] = "reading" => pc'[s] = "reading" /\ con'[s] = con[s]
      BY <2>1 DEF TypeOK
    <2>6. Exchanged'
      BY <2>1, <2>3, <2>5, ExchangedKept
    <2> QED BY <2>1, <2>4, <2>6, OwnResponseKept
  <1>3. CASE ReclaimConnection(t)
    <2>1. /\ pc[t] = "reclaiming" /\ pc' = [pc EXCEPT ![t] = "done"]
          /\ con' = [con EXCEPT ![t] = NoConn]
          /\ UNCHANGED <<link, mixed, response, fresh>>
      BY <1>3 DEF ReclaimConnection, Go, wire, handler
    <2>2. Exchanged'
      BY <2>1, ExchangedKept DEF TypeOK
    <2> QED BY <2>1, <2>2, OwnResponseKept DEF Unasked
  <1> QED BY <1>1, <1>2, <1>3

\* The server answers the one request of a connection, or closes it.
LEMMA ServerOwn ==
    ASSUME IInv, OInv, NEW c \in Conns, ServerAnswers(c) \/ ServerCloses(c)
    PROVE  OInv'
  <1> USE DEF IInv, OInv
  <1>1. /\ link[c] \in Links /\ link[c].state = "open"
        /\ UNCHANGED <<mixed, response, fresh, pc, con>>
    BY DEF ServerAnswers, ServerCloses, TypeOK, handler
  <1>2. OwnResponse'
    BY <1>1 DEF OwnResponse
  <1>3. CASE ServerCloses(c)
    <2>1. link' = [link EXCEPT ![c].state = "closed", ![c].requests = << >>]
      BY <1>3 DEF ServerCloses
    <2>2. Unasked'
      BY <1>1, <2>1 DEF Unasked, TypeOK
    <2>3. ASSUME NEW d \in Conns \ mixed
          PROVE  Empty(d)' \/ \E t \in Threads : Exchange(d, t)'
      BY <1>1, <2>1 DEF Exchanged, Exchange, Empty, Asked, IsAnswered, TypeOK
    <2> QED BY <1>1, <1>2, <2>2, <2>3 DEF Exchanged
  <1>4. CASE ServerAnswers(c)
    <2>1. link[c].requests # << >> /\ link[c].requests \in Seq(Requests)
          /\ link[c].answers \in Seq(Answers \cup {Rest})
      BY <1>1, <1>4 DEF ServerAnswers, Links
    <2>2. PICK sized \in BOOLEAN :
            link' = [link EXCEPT ![c] =
               [state |-> IF Head(link[c].requests).closes THEN "closed" ELSE "open",
                requests |-> IF Head(link[c].requests).closes THEN << >> ELSE Tail(@.requests),
                answers |-> Append(@.answers, [of |-> Head(link[c].requests).of, sized |-> sized])]]
      BY <1>4 DEF ServerAnswers
    <2>3. /\ link'[c].requests = IF Head(link[c].requests).closes THEN << >>
                                 ELSE Tail(link[c].requests)
          /\ link'[c].answers = Append(link[c].answers,
                                       [of |-> Head(link[c].requests).of, sized |-> sized])
          /\ link'[c].state = IF Head(link[c].requests).closes THEN "closed" ELSE "open"
          /\ \A d \in Conns : d # c => link'[d] = link[d]
      BY <2>2 DEF TypeOK
    <2>4. Unasked'
      BY <2>3 DEF Unasked
    <2>5. ASSUME c \notin mixed
          PROVE  \E t \in Threads : Exchange(c, t)'
      <3>1. PICK t \in Threads : Exchange(c, t)
        BY <2>1, <2>5 DEF Exchanged, Empty
      <3>2. Asked(c, t)
        BY <2>1, <3>1 DEF Exchange, IsAnswered
      <3>3. Head(link[c].requests).of = t /\ Tail(link[c].requests) = << >>
        BY <2>1, <3>2, TailOfOne DEF Asked
      <3>4. link'[c].requests = << >>
        BY <2>3, <3>3
      <3>5. link'[c].answers = <<[of |-> t, sized |-> sized]>>
        BY <2>3, <3>2, <3>3 DEF Asked
      <3>6. Len(link'[c].answers) = 1 /\ link'[c].answers[1].of = t
        BY <3>5
      <3> QED BY <1>1, <3>1, <3>4, <3>6 DEF Exchange, IsAnswered
    <2>6. ASSUME NEW d \in Conns \ mixed, d # c
          PROVE  Empty(d)' \/ \E t \in Threads : Exchange(d, t)'
      BY <1>1, <2>3, <2>6 DEF Exchanged, Exchange, Empty, Asked, IsAnswered
    <2> QED BY <1>1, <1>2, <2>4, <2>5, <2>6 DEF Exchanged
  <1> QED BY <1>3, <1>4

\* A thread asks, and so begins without an answer or is known not to; or it
\* returns, and what is under way for the others keeps its name.
LEMMA AskReturnOwn ==
    ASSUME IInv, OInv, NEW t \in Threads, Ask(t) \/ Return(t)
    PROVE  OInv'
  <1> USE DEF IInv, OInv
  <1>1. CASE Ask(t)
    <2>1. /\ pc[t] = "idle" /\ pc' = [pc EXCEPT ![t] = "asking"]
          /\ fresh' = [fresh EXCEPT ![t] = response[t] = NoAnswer]
          /\ UNCHANGED <<link, mixed, response, con>>
      BY <1>1 DEF Ask, HttpKeepAlive, HttpDelete, Go, wire
    <2>2. Exchanged'
      BY <2>1, ExchangedKept DEF TypeOK
    <2>3. OwnResponse'
      <3>1. fresh'[t] => response[t].code = 0
        <4>1. fresh \in [Threads -> BOOLEAN]
          BY DEF TypeOK
        <4>2. fresh'[t] = (response[t] = NoAnswer)
          BY <2>1, <4>1, Zenon
        <4>3. fresh'[t] => response[t] = NoAnswer
          BY <4>2, Zenon
        <4> QED BY <4>3 DEF NoAnswer
      <3>2. /\ pc'[t] = "asking"
            /\ \A s \in Threads : s # t => pc'[s] = pc[s] /\ fresh'[s] = fresh[s]
        BY <2>1 DEF TypeOK
      <3> QED BY <2>1, <3>1, <3>2 DEF OwnResponse
    <2> QED BY <2>1, <2>2, <2>3 DEF Unasked
  <1>2. CASE Return(t)
    <2>1. /\ pc[t] = "done" /\ pc' = [pc EXCEPT ![t] = "idle"]
          /\ fresh' = [fresh EXCEPT ![t] = TRUE]
          /\ UNCHANGED <<mixed, con>>
          /\ \A s \in Threads : s # t => response'[s] = response[s]
      BY <1>2 DEF Return, Go, TypeOK
    <2>2. OwnResponse'
      <3>1. /\ pc'[t] = "idle"
            /\ \A s \in Threads : s # t => pc'[s] = pc[s] /\ fresh'[s] = fresh[s]
        BY <2>1 DEF TypeOK
      <3> QED BY <2>1, <3>1 DEF OwnResponse
    <2>3. ASSUME NEW c \in Conns
          PROVE  /\ link[c].requests \in Seq(Requests) /\ link[c].answers \in Seq(Answers \cup {Rest})
                 /\ link'[c].requests = Relabelled(t, link[c].requests)
                 /\ link'[c].answers = Relabelled(t, link[c].answers)
                 /\ link'[c].state = link[c].state
      <3>1. link[c] \in Links
        BY DEF TypeOK
      <3>2. link'[c] = [link[c] EXCEPT !.requests = Relabelled(t, @), !.answers = Relabelled(t, @)]
        BY <1>2 DEF Return
      <3> QED BY <3>1, <3>2 DEF Links
    <2>4. Unasked'
      BY <2>3, RelabelledKept DEF Unasked
    <2>5. ASSUME NEW c \in Conns \ mixed
          PROVE  Empty(c)' \/ \E s \in Threads : Exchange(c, s)'
      <3>1. CASE Empty(c)
        BY <2>3, <3>1, RelabelledKept DEF Empty
      <3>2. ASSUME NEW s \in Threads, Exchange(c, s) PROVE Exchange(c, s)'
        <4>1. s # t /\ pc'[s] = pc[s] /\ con'[s] = con[s]
          BY <2>1, <3>2 DEF Exchange, TypeOK
        <4>2. CASE Asked(c, s)
          BY <2>3, <3>2, <4>1, <4>2, RelabelledKept DEF Exchange, Asked
        <4>3. CASE IsAnswered(c, s)
          BY <2>3, <3>2, <4>1, <4>3, RelabelledKept DEF Exchange, IsAnswered
        <4> QED BY <3>2, <4>2, <4>3 DEF Exchange
      <3> QED BY <3>1, <3>2 DEF Exchanged
    <2> QED BY <2>1, <2>2, <2>4, <2>5 DEF Exchanged
  <1> QED BY <1>1, <1>2

-----------------------------------------------------------------------------
(* The theorems.                                                            *)

\* The invariant is inductive.
LEMMA StepIInv == IInv /\ [Next]_vars => IInv'
  <1> SUFFICES ASSUME IInv, [Next]_vars PROVE IInv'
    OBVIOUS
  <1>1. CASE UNCHANGED vars
    <2>1. TypeOK'
      BY <1>1 DEF IInv, TypeOK, vars, manager, wire, handler
    <2>2. UNCHANGED <<pool, con, lock, made, link, pc>>
      BY <1>1 DEF vars, manager, wire
    <2> QED BY <2>1, <2>2, ExtendingKept DEF IInv
  <1>2. CASE Initialize
    <2>1. TypeOK'
      BY <1>2 DEF IInv, TypeOK, Initialize, wire, handler
    <2>2. UNCHANGED <<pool, con, lock, made, link, pc>>
      BY <1>2 DEF Initialize, wire
    <2> QED BY <2>1, <2>2, ExtendingKept DEF IInv
  <1>3. ASSUME NEW t \in Threads, Ask(t) \/ Step(t) PROVE IInv'
    <2>1. CASE Borrow(t)
      BY <2>1, QuietStep, TakePooledStep, ExtendPoolStep, ExtendingStep DEF Borrow
    <2>2. CASE HttpRequest(t)
      BY <2>2, ExchangeStep, WriteThrowsStep, ReclaimConnectionStep DEF HttpRequest
    <2> QED BY <1>3, <2>1, <2>2, QuietStep, ReturnStep DEF Step
  <1> QED BY <1>1, <1>2, <1>3, ServerStep DEF Next

\* The invariant holds throughout.
LEMMA Invariance == Spec => []IInv
  BY InitIInv, StepIInv, PTL DEF Spec

\* Every variable keeps its kind of value: a thread has a connection just where
\* it writes on it, reads from it or gives it back.
THEOREM TypeCorrect == Spec => []TypeOK
  <1>1. IInv => TypeOK
    BY DEF IInv
  <1> QED BY Invariance, <1>1, PTL

\* No connection is ever with two threads, twice in the pool, or with a thread
\* and in the pool, whatever throws in between.
THEOREM HeldOnce == Spec => []OneHolder
  <1>1. IInv => OneHolder
    BY DEF IInv
  <1> QED BY Invariance, <1>1, PTL

\* There are never more connections than the other threads may have borrowed
\* and one stride.
THEOREM PoolBounded == Spec => []PoolBound
  <1>1. IInv => PoolBound
    BY DEF IInv, Bound
  <1> QED BY Invariance, <1>1, PTL

\* Who is told 200 was told so in answer to this very request, unless the handler
\* still had its last answer or the connection was one that keeps a rest: answers
\* do not get to other threads, though any thread may get any connection.
THEOREM AnswersOwn == Spec => []OwnAnswer
  <1>1. Init => OInv
    <2> SUFFICES ASSUME Init PROVE OInv
      OBVIOUS
    <2>1. \A c \in Conns : link[c] = Link("free")
      BY DEF Init
    <2> QED BY <2>1 DEF OInv, Exchanged, Empty, OwnResponse, Unasked, Link, Init
  <1>2. IInv /\ OInv /\ [Next]_vars => OInv'
    <2> SUFFICES ASSUME IInv, OInv, [Next]_vars PROVE OInv'
      OBVIOUS
    <2>1. CASE UNCHANGED vars \/ Initialize
      <3>1. UNCHANGED <<link, mixed, response, fresh, pc, con>>
        BY <2>1 DEF vars, Initialize, wire, handler
      <3>2. Exchanged'
        BY <3>1, ExchangedKept DEF OInv
      <3> QED BY <3>1, <3>2 DEF OInv, OwnResponse, Unasked
    <2>2. ASSUME NEW t \in Threads, Ask(t) \/ Step(t) PROVE OInv'
      BY <2>2, BorrowOwn, WriteOwn, ReadOwn, EndOwn, AskReturnOwn DEF Step, HttpRequest
    <2> QED BY <2>1, <2>2, ServerOwn DEF Next
  <1>3. OInv => OwnAnswer
    BY DEF OInv, OwnResponse, OwnAnswer
  <1> QED BY Invariance, <1>1, <1>2, <1>3, PTL DEF Spec

=============================================================================
