-------------------------------- MODULE Wire --------------------------------
(***************************************************************************)
(* Requests to the server.  A PostHandler goes through ConnectionHandler,  *)
(* which borrows one of the connections ConnectionManager pools.  The      *)
(* functions of netlib make a connection for each request, share nothing,  *)
(* and are left out.                                                       *)
(*                                                                         *)
(* A request is named after the thread it is of, and becomes Old when the  *)
(* thread is through with it.  Of an answer only whose request it answers  *)
(* is kept, and a code of 200 stands for any: a refusal is an answer too.  *)
(* A connection that ends after the status may have cut the body.  A lost  *)
(* connection is one nobody points to: its number is free again, though    *)
(* its socket is not.                                                      *)
(***************************************************************************)
EXTENDS Naturals, Sequences, FiniteSets

CONSTANTS Threads,
          Reusers,     \* threads that may ask twice through one PostHandler
          Ssl,         \* the entity's url begins with https
          Stride,      \* connections ExtendPool makes at once
          Conns,       \* numbers of connections
          MaxFaults    \* bound: connections that fail, answers without length

ASSUME WireAssumption ==
  /\ IsFiniteSet(Threads) /\ Threads \cap {"old", "none"} = {} /\ Reusers \subseteq Threads
  /\ Ssl \in BOOLEAN
  /\ Stride \in Nat \ {0} /\ MaxFaults \in Nat
  /\ Conns \subseteq Nat \ {0} /\ IsFiniteSet(Conns)
  /\ Cardinality(Conns) > Cardinality(Threads) + Stride

VARIABLES initialized,  \* ConnectionManager::initialized_
          lock,         \* the thread that has pool_mtx_
          pool,         \* ConnectionPool::pool_
          link,         \* what each connection is, and what is under way on it
          pc,
          con,          \* the connection a thread borrowed
          made,         \* connections the present ExtendPool has made
          closes,       \* the request says "Connection: close"
          response,     \* PostHandlerImpl::response_
          fresh,        \* history: response_ was empty when the request began
          mixed,        \* history: the connections that hold a rest of an answer
          faults

manager == <<initialized, lock, pool, made>>
wire == <<link, mixed, faults>>
handler == <<response, fresh, closes>>
vars == <<manager, wire, handler, pc, con>>

-----------------------------------------------------------------------------
Old == "old"
NoThread == "none"
NoConn == 0
Whose == Threads \cup {Old}

(* What is left of an answer that did not say its length is nobody's.      *)
Answers == [of : Whose, sized : BOOLEAN]
Rest == [of |-> NoThread, sized |-> TRUE]

NoAnswer == [of |-> NoThread, code |-> 0, behind |-> FALSE]
Responses == [of : Whose \cup {NoThread}, code : {0, 200}, behind : BOOLEAN]

(* A connection is "free" as long as none of that number is there.  To     *)
(* write on one the server closed succeeds, and is what tells the kernel.  *)
States == {"free", "open", "closed", "reset", "unconnected"}
Link(state) == [state |-> state, requests |-> << >>, answers |-> << >>]
Requests == [of : Whose, closes : BOOLEAN]
Links == [state : States, requests : Seq(Requests), answers : Seq(Answers \cup {Rest})]

Init ==
  /\ initialized = FALSE /\ lock = NoThread /\ pool = << >> /\ made = 0
  /\ link = [c \in Conns |-> Link("free")]
  /\ pc = [t \in Threads |-> "idle"]
  /\ con = [t \in Threads |-> NoConn]
  /\ closes = [t \in Threads |-> FALSE]
  /\ response = [t \in Threads |-> NoAnswer]
  /\ fresh = [t \in Threads |-> TRUE]
  /\ mixed = {} /\ faults = 0

Go(t, from, to) == pc[t] = from /\ pc' = [pc EXCEPT ![t] = to]
Fault == faults < MaxFaults /\ faults' = faults + 1

(* AtticService::InitializeConnectionManager, when the service starts.     *)
Initialize ==
  /\ ~initialized /\ initialized' = TRUE
  /\ UNCHANGED <<lock, pool, made, wire, handler, pc, con>>

-----------------------------------------------------------------------------
(* A PostHandler is asked to post, put or get, which leaves the connection *)
(* open, or to delete, which asks the server to close it.                  *)
HttpKeepAlive(t) ==
  /\ Go(t, "idle", "asking")
  /\ fresh' = [fresh EXCEPT ![t] = response[t] = NoAnswer]
  /\ UNCHANGED <<manager, wire, response, closes, con>>

HttpDelete(t) ==
  /\ Go(t, "idle", "asking")
  /\ closes' = [closes EXCEPT ![t] = TRUE]
  /\ fresh' = [fresh EXCEPT ![t] = response[t] = NoAnswer]
  /\ UNCHANGED <<manager, wire, response, con>>

(* Without an initialised manager there is no connection.                  *)
RefuseConnection(t) ==
  /\ lock = NoThread /\ ~initialized
  /\ Go(t, "asking", "done")
  /\ UNCHANGED <<manager, wire, handler, con>>

(* A wrong variant: the connection stays in the pool.                      *)
PopFront_Kept(t) ==
  /\ con' = [con EXCEPT ![t] = Head(pool)]
  /\ UNCHANGED pool

(* RequestConnection takes the first connection of the pool; TestConnection*)
(* finds every one good.                                                   *)
PopFront(t) ==
  /\ con' = [con EXCEPT ![t] = Head(pool)]
  /\ pool' = Tail(pool)

TakePooled(t) ==
  /\ lock = NoThread /\ initialized /\ pool # << >>
  /\ Go(t, "asking", "writing")
  /\ PopFront(t)
  /\ UNCHANGED <<initialized, lock, made, wire, handler>>

(* A wrong variant: the last connection is taken for none.                 *)
ExtendPool_Early(t) ==
  /\ lock = NoThread /\ initialized /\ Len(pool) <= 1
  /\ Go(t, "asking", "extending")
  /\ lock' = t
  /\ UNCHANGED <<initialized, made, pool, wire, handler, con>>

(* An empty pool is extended, with the mutex held all the while.           *)
ExtendPool(t) ==
  /\ lock = NoThread /\ initialized /\ pool = << >>
  /\ Go(t, "asking", "extending")
  /\ lock' = t
  /\ UNCHANGED <<initialized, made, pool, wire, handler, con>>

(* A connection of the pool that is made, as it is after ResolveHost.      *)
Pool(t, state) ==
  \E c \in {d \in Conns : link[d].state = "free"} :
    /\ \A d \in Conns : link[d].state = "free" => c <= d
    /\ link' = [link EXCEPT ![c] = Link(state)]
    /\ mixed' = mixed \ {c}
    /\ pool' = Append(pool, c)
    /\ made' = made + 1
    /\ UNCHANGED <<initialized, lock, handler, pc, con>>

Connect(t) ==
  /\ pc[t] = "extending" /\ made < Stride
  /\ Pool(t, "open")
  /\ UNCHANGED faults

(* No endpoint answers: Initialize says so and ExtendPool does not listen. *)
(* With TLS the handshake throws.                                          *)
ConnectFails(t) ==
  /\ pc[t] = "extending" /\ made < Stride /\ ~Ssl
  /\ Fault
  /\ Pool(t, "unconnected")

(* resolve, open or the handshake throws: HttpRequest catches it, and      *)
(* nobody unlocks pool_mtx_.                                               *)
ExtendThrows(t) ==
  /\ made < Stride
  /\ Fault
  /\ Go(t, "extending", "done")
  /\ made' = 0
  /\ UNCHANGED <<initialized, lock, pool, link, mixed, handler, con>>

TakeExtended(t) ==
  /\ made = Stride
  /\ Go(t, "extending", "writing")
  /\ PopFront(t)
  /\ lock' = NoThread /\ made' = 0
  /\ UNCHANGED <<initialized, wire, handler>>

-----------------------------------------------------------------------------
Write(t) ==
  LET c == con[t]
  IN  /\ Go(t, "writing", "reading")
      /\ \/ /\ link[c].state = "open"
            /\ link' = [link EXCEPT ![c].requests = Append(@, [of |-> t, closes |-> closes[t]])]
         \/ /\ link[c].state = "closed"
            /\ link' = [link EXCEPT ![c].state = "reset", ![c].answers = << >>]
      /\ UNCHANGED <<manager, mixed, faults, handler, con>>

(* A wrong variant: the broken connection goes back to the pool.           *)
WriteThrows_Reclaimed(t) ==
  /\ Go(t, "writing", "reclaiming")
  /\ link[con[t]].state \in {"reset", "unconnected"}
  /\ UNCHANGED <<manager, wire, handler, con>>

(* The exception passes ReclaimConnection by: the connection is lost.      *)
WriteThrows(t) ==
  /\ Go(t, "writing", "done")
  /\ link[con[t]].state \in {"reset", "unconnected"}
  /\ link' = [link EXCEPT ![con[t]] = Link("free")]
  /\ con' = [con EXCEPT ![t] = NoConn]
  /\ UNCHANGED <<manager, mixed, faults, handler>>

(* The server answers the requests of a connection in their order.         *)
ServerAnswers(c) ==
  /\ link[c].state = "open" /\ link[c].requests # << >>
  /\ \E sized \in BOOLEAN :
       LET request == Head(link[c].requests)
       IN  /\ IF sized THEN UNCHANGED faults ELSE Fault
           /\ link' = [link EXCEPT ![c] =
                [state |-> IF request.closes THEN "closed" ELSE "open",
                 requests |-> IF request.closes THEN << >> ELSE Tail(@.requests),
                 answers |-> Append(@.answers, [of |-> request.of, sized |-> sized])]]
  /\ UNCHANGED <<manager, mixed, handler, pc, con>>

(* It closes idle connections, and any may break.                          *)
ServerCloses(c) ==
  /\ link[c].state = "open"
  /\ Fault
  /\ link' = [link EXCEPT ![c].state = "closed", ![c].requests = << >>]
  /\ UNCHANGED <<manager, mixed, handler, pc, con>>

(* InterpretResponse reads a status, headers and as much body as           *)
(* Content-Length says, or what has come if it says nothing.  Of a rest it *)
(* makes what it can.                                                      *)
Interpret(t, code, left) ==
  LET c == con[t]
  IN  /\ response' = [response EXCEPT ![t] =
           [of |-> Head(link[c].answers).of, code |-> code, behind |-> c \in mixed]]
      /\ link' = [link EXCEPT ![c].answers = left \o Tail(@)]

InterpretResponse(t) ==
  LET c == con[t]
      answer == Head(link[c].answers)
  IN  /\ Go(t, "reading", "reclaiming")
      /\ link[c].answers # << >>
      /\ \/ answer # Rest /\ Interpret(t, 200, << >>) /\ UNCHANGED mixed
         \/ ~answer.sized /\ Interpret(t, 200, <<Rest>>) /\ mixed' = mixed \cup {c}
         \/ /\ answer = Rest
            /\ \E code \in {0, 200} : Interpret(t, code, << >>)
            /\ UNCHANGED mixed
      /\ UNCHANGED <<manager, faults, fresh, closes, con>>

(* It reads the end of the connection, throws and returns false, which     *)
(* HttpRequest does not look at: response_ is as it was.                   *)
InterpretFails(t) ==
  /\ Go(t, "reading", "reclaiming")
  /\ link[con[t]].state # "open" /\ link[con[t]].answers = << >>
  /\ UNCHANGED <<manager, wire, handler, con>>

ReclaimConnection(t) ==
  /\ lock = NoThread
  /\ Go(t, "reclaiming", "done")
  /\ pool' = Append(pool, con[t])
  /\ con' = [con EXCEPT ![t] = NoConn]
  /\ UNCHANGED <<initialized, lock, made, wire, handler>>

(* The caller has looked at the code; what comes later is too late.  The   *)
(* PostHandlers of the program serve one request; nothing stops a caller   *)
(* from asking one again without a flush (MetaTask::MakePostNewHead is     *)
(* written so and has no caller), and threads in Reusers may.              *)
Aged(t, w) == IF w = t THEN Old ELSE w
Relabelled(t, s) == [i \in DOMAIN s |-> [s[i] EXCEPT !.of = Aged(t, @)]]

Return(t) ==
  /\ Go(t, "done", "idle")
  /\ \/ response' = [response EXCEPT ![t] = NoAnswer]
     \/ t \in Reusers /\ response' = [response EXCEPT ![t].of = Aged(t, @)]
  /\ closes' = [closes EXCEPT ![t] = FALSE]
  /\ fresh' = [fresh EXCEPT ![t] = TRUE]
  /\ link' = [c \in Conns |-> [link[c] EXCEPT !.requests = Relabelled(t, @),
                                              !.answers = Relabelled(t, @)]]
  /\ UNCHANGED <<manager, mixed, faults, con>>

-----------------------------------------------------------------------------
Borrow(t) ==
  \/ RefuseConnection(t) \/ TakePooled(t)
  \/ ExtendPool(t) \/ Connect(t) \/ ConnectFails(t) \/ ExtendThrows(t) \/ TakeExtended(t)

HttpRequest(t) ==
  \/ Write(t) \/ WriteThrows(t) \/ InterpretResponse(t) \/ InterpretFails(t)
  \/ ReclaimConnection(t)

Step(t) == Borrow(t) \/ HttpRequest(t) \/ Return(t)
Ask(t) == HttpKeepAlive(t) \/ HttpDelete(t)

Next ==
  \/ Initialize
  \/ \E t \in Threads : Ask(t) \/ Step(t)
  \/ \E c \in Conns : ServerAnswers(c) \/ ServerCloses(c)

Spec ==
  /\ Init /\ [][Next]_vars
  /\ \A t \in Threads : WF_vars(Step(t))
  /\ \A c \in Conns : WF_vars(ServerAnswers(c))

-----------------------------------------------------------------------------
Pooled == {pool[i] : i \in DOMAIN pool}
Borrowed == {con[t] : t \in Threads} \ {NoConn}
InUse == {c \in Conns : link[c].state # "free"}

TypeOK ==
  /\ initialized \in BOOLEAN /\ lock \in Threads \cup {NoThread}
  /\ pool \in Seq(Conns) /\ made \in 0 .. Stride
  /\ link \in [Conns -> Links]
  /\ pc \in [Threads -> {"idle", "asking", "extending", "writing", "reading",
                         "reclaiming", "done"}]
  /\ con \in [Threads -> Conns \cup {NoConn}]
  /\ \A t \in Threads : (con[t] # NoConn) = (pc[t] \in {"writing", "reading", "reclaiming"})
  /\ closes \in [Threads -> BOOLEAN] /\ fresh \in [Threads -> BOOLEAN]
  /\ response \in [Threads -> Responses]
  /\ mixed \subseteq Conns /\ faults \in 0 .. MaxFaults

(* A connection is in the pool once, or one thread has it: no two requests *)
(* are written to one socket.  (RequestConnection, ReclaimConnection and   *)
(* the throws between them.)                                               *)
OneHolder ==
  /\ \A i, j \in DOMAIN pool : pool[i] = pool[j] => i = j
  /\ \A s, t \in Threads : con[s] = con[t] /\ con[s] # NoConn => s = t
  /\ Pooled \cap Borrowed = {}
  /\ InUse = Pooled \cup Borrowed

(* Who is told 200 was told so in answer to this very request, unless the  *)
(* PostHandler still had the answer to its last one, or an answer without  *)
(* a length had left its rest on the very connection.                      *)
OwnAnswer ==
  \A t \in Threads :
    /\ pc[t] = "done" /\ fresh[t]
    /\ response[t].code = 200 /\ ~response[t].behind
    => response[t].of = t

(* Though ExtendPool adds Stride connections at a time, there are never    *)
(* more than the other threads may have borrowed and one stride.           *)
PoolBound == Cardinality(InUse) < Cardinality(Threads) + Stride

(* When connections stop failing, tasks that keep asking are answered      *)
(* again and again: dead connections are used up, since a write on them is *)
(* what loses them.  Not so if ExtendPool threw, which leaves pool_mtx_    *)
(* locked for good, nor over a connection that is one answer behind.       *)
Answered(t) == InterpretResponse(t) /\ response'[t].of = t
Recovers ==
  []<>(initialized /\ \E t \in Threads : pc[t] = "asking") =>
    \/ <>[](lock # NoThread) \/ <>[](mixed # {})
    \/ []<><<\E t \in Threads : Answered(t)>>_vars
=============================================================================
