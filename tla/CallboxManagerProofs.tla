-------------------------- MODULE CallboxManagerProofs --------------------------
(****************************************************************************)
(* The types of CallboxManager, and that an API object always wraps the     *)
(* client the manager holds: _ensure_client() makes, connects and wraps a   *)
(* client in one critical section, and disconnect_service() is another.     *)
(* And what close_all() leaves closed, what get_status() has noted and what *)
(* becomes of a client that is replaced.                                    *)
(****************************************************************************)
EXTENDS CallboxManager, SequenceTheorems, TLAPS

\* A thread with a connection to make or to use has a client.
HasClient ==
    \A t \in Threads :
        pc[t] \in {"connect", "call", "reopen", "exchange"} => handle[t] \in Clients

TypeInv == TypeOK /\ HasClient

USE ManagerThreadsAssumption, ManagerBoundAssumption

----------------------------------------------------------------------------
(* What the helpers return.                                                 *)

LEMMA CurrentType ==
  ASSUME TypeInv, NEW t \in Threads
  PROVE  Current(t) \in Services
<1>1. todo[t] \in Seq(Services) /\ todo[t] # << >>
  BY DEF TypeInv, TypeOK, ThreadTypes
<1> QED
  BY <1>1, HeadTailProperties DEF Current

LEMMA RestOf ==
  ASSUME NEW S, NEW q \in Seq(S), Len(q) > 1
  PROVE  Tail(q) \in Seq(S) \ {<< >>}
<1>1. q # << >>
  BY EmptySeq
<1>2. Tail(q) \in Seq(S) /\ Len(Tail(q)) = Len(q) - 1
  BY <1>1, HeadTailProperties
<1>3. Len(Tail(q)) # 0
  BY <1>2, LenProperties
<1> QED
  BY <1>2, <1>3, EmptySeq

LEMMA ConnectEndsTypes ==
  \A end \in ConnectEnds : end[1] \in Links /\ end[2] \in Answers
  BY DEF ConnectEnds, Links, Answers

LEMMA ExchangeEndsTypes ==
  ASSUME NEW state \in Links, NEW end \in ExchangeEnds(state)
  PROVE  end[1] \in Links /\ end[2] \in Answers
<1>1. CASE state = "on"
  BY <1>1 DEF ExchangeEnds, Links, Answers
<1>2. CASE state = "dead"
  BY <1>2 DEF ExchangeEnds, Links, Answers
<1>3. CASE state = "off"
  BY <1>3 DEF ExchangeEnds, Links, Answers
<1> QED
  BY <1>1, <1>2, <1>3 DEF Links

LEMMA InitTypes == Init => TypeInv
<1> SUFFICES ASSUME Init PROVE TypeInv
  OBVIOUS
<1>1. ManagerTypes
  BY DEF Init, ManagerTypes, Clients, Links
<1>2. Order \in Seq(Services) \ {<< >>}
  BY OrderAssumption
<1>3. ThreadTypes
  BY <1>2 DEF Init, ThreadTypes, Labels, OpKinds, Answers
<1>4. HasClient
  BY DEF Init, HasClient
<1> QED
  BY <1>1, <1>3, <1>4 DEF TypeInv, TypeOK

\* After a service: the next one, the status that ends connect_all(), or the end.
LEMMA AfterServiceTypes ==
  ASSUME TypeInv, NEW t \in Threads, AfterService(t)
  PROVE  /\ todo' \in [Threads -> Seq(Services) \ {<< >>}]
         /\ op' \in [Threads -> OpKinds]
         /\ pc' \in [Threads -> Labels]
         /\ pc'[t] \in {"idle", "ensure", "lockAll", "look", "close"}
         /\ \A u \in Threads \ {t} : pc'[u] = pc[u] /\ todo'[u] = todo[u]
         /\ lock' \in {lock, None}
         /\ lock' # lock => lock = t
<1>1. todo[t] \in Seq(Services) /\ todo \in [Threads -> Seq(Services) \ {<< >>}]
  BY DEF TypeInv, TypeOK, ThreadTypes
<1>2. Len(todo[t]) > 1 => Tail(todo[t]) \in Seq(Services) \ {<< >>}
  BY <1>1, RestOf
<1>3. Order \in Seq(Services) \ {<< >>}
  BY OrderAssumption
<1>4. /\ todo' \in [Threads -> Seq(Services) \ {<< >>}]
      /\ \A u \in Threads \ {t} : todo'[u] = todo[u]
  BY <1>1, <1>2, <1>3 DEF AfterService
<1>5. op' \in [Threads -> OpKinds]
  BY DEF AfterService, OpKinds, TypeInv, TypeOK, ThreadTypes
<1>6. PICK label \in {"idle", "ensure", "lockAll", "look", "close"} :
        pc' = [pc EXCEPT ![t] = label]
  BY DEF AfterService, Goto
<1>7. /\ pc' \in [Threads -> Labels] /\ pc'[t] = label
      /\ \A u \in Threads \ {t} : pc'[u] = pc[u]
  BY <1>6 DEF TypeInv, TypeOK, ThreadTypes, Labels
<1>8. lock' \in {lock, None} /\ (lock' # lock => lock = t)
  BY DEF AfterService
<1> QED
  BY <1>4, <1>5, <1>7, <1>8

LEMMA NoteType ==
  ASSUME TypeInv, NEW t \in Threads, NEW up \in BOOLEAN, Note(t, up)
  PROVE  seen' \in [Threads -> [Services -> BOOLEAN]]
<1>1. seen[t] \in [Services -> BOOLEAN] /\ Current(t) \in Services
  BY CurrentType DEF TypeInv, TypeOK, ThreadTypes
<1>2. [seen[t] EXCEPT ![Current(t)] = up] \in [Services -> BOOLEAN]
  BY <1>1
<1>3. seen' = [seen EXCEPT ![t] = [seen[t] EXCEPT ![Current(t)] = up]]
  BY DEF Note
<1> QED
  BY <1>2, <1>3 DEF TypeInv, TypeOK, ThreadTypes

LEMMA CallEndsTypes ==
  ASSUME TypeInv, NEW t \in Threads, NEW result \in Answers, CallEnds(t, result)
  PROVE  /\ handle' \in [Threads -> 0..MaxClients]
         /\ answer' \in [Threads -> Answers]
         /\ seen' \in [Threads -> [Services -> BOOLEAN]]
         /\ \A u \in Threads \ {t} : handle'[u] = handle[u]
         /\ AfterService(t)
<1>1. seen' \in [Threads -> [Services -> BOOLEAN]]
  <2>1. CASE UNCHANGED seen
    BY <2>1 DEF TypeInv, TypeOK, ThreadTypes
  <2>2. CASE Note(t, result = "ok") \/ Note(t, TRUE)
    <3>1. \E up \in BOOLEAN : Note(t, up)
      BY <2>2
    <3> QED
      BY <3>1, NoteType
  <2> QED
    BY <2>1, <2>2 DEF CallEnds
<1>2. /\ handle' = [handle EXCEPT ![t] = 0]
      /\ answer' = [answer EXCEPT ![t] = IF op[t] = "request" THEN result ELSE @]
      /\ AfterService(t)
  BY DEF CallEnds
<1>3. answer' \in [Threads -> Answers]
  BY <1>2 DEF TypeInv, TypeOK, ThreadTypes
<1>4. /\ handle' \in [Threads -> 0..MaxClients]
      /\ \A u \in Threads \ {t} : handle'[u] = handle[u]
  BY <1>2 DEF TypeInv, TypeOK, ThreadTypes
<1> QED
  BY <1>1, <1>2, <1>3, <1>4

----------------------------------------------------------------------------
(* Every action keeps the types.                                            *)

LEMMA BeginTypes ==
  ASSUME TypeInv, NEW t \in Threads, NEW o \in Ops, NEW s \in Services, Begin(t, o, s)
  PROVE  TypeInv'
<1>1. PICK label \in {"ensure", "lockAll", "close"} : pc' = [pc EXCEPT ![t] = label]
  BY DEF Begin, Goto
<1>2. o \in OpKinds
  BY ManagerOpsAssumption
<1>3. todo' \in [Threads -> Seq(Services) \ {<< >>}]
  <2>1. <<s>> \in Seq(Services) /\ <<s>> # << >>
    OBVIOUS
  <2> QED
    BY <2>1, OrderAssumption DEF Begin, TypeInv, TypeOK, ThreadTypes
<1>4. calls' \in [Threads -> 0..MaxCalls]
  BY DEF Begin, TypeInv, TypeOK, ThreadTypes
<1>5. ThreadTypes'
  BY <1>1, <1>2, <1>3, <1>4
  DEF Begin, TypeInv, TypeOK, ThreadTypes, Labels, Answers
<1>6. ManagerTypes'
  BY DEF Begin, managerVars, TypeInv, TypeOK, ManagerTypes
<1>7. HasClient'
  BY <1>1 DEF Begin, HasClient, TypeInv, TypeOK, ThreadTypes
<1> QED
  BY <1>5, <1>6, <1>7 DEF TypeInv, TypeOK

LEMMA EnsureTypes ==
  ASSUME TypeInv, NEW t \in Threads, Ensure(t)
  PROVE  TypeInv'
<1>1. Current(t) \in Services
  BY CurrentType
<1>2. /\ client[Current(t)] \in 0..MaxClients
      /\ api[Current(t)] \in 0..MaxClients
  BY <1>1 DEF TypeInv, TypeOK, ManagerTypes
<1>3. PICK label \in {"call", "create"}, h \in 0..MaxClients :
        /\ pc' = [pc EXCEPT ![t] = label]
        /\ handle' = [handle EXCEPT ![t] = h]
        /\ label = "call" => h # 0
  BY <1>2 DEF Ensure, Goto
<1>4. ThreadTypes'
  BY <1>3 DEF Ensure, TypeInv, TypeOK, ThreadTypes, Labels
<1>5. ManagerTypes'
  BY DEF Ensure, TypeInv, TypeOK, ManagerTypes
<1>6. HasClient'
  BY <1>3 DEF HasClient, Clients, TypeInv, TypeOK, ThreadTypes
<1> QED
  BY <1>4, <1>5, <1>6 DEF TypeInv, TypeOK

LEMMA CreateTypes ==
  ASSUME TypeInv, NEW t \in Threads, Create(t)
  PROVE  TypeInv'
<1>1. Current(t) \in Services
  BY CurrentType
<1>2. PICK h \in Clients : handle'[t] = h /\ handle' = [handle EXCEPT ![t] = h]
  <2>1. CASE handle[t] # 0 /\ UNCHANGED handle
    BY <2>1 DEF Clients, TypeInv, TypeOK, ThreadTypes
  <2>2. CASE created < MaxClients /\ handle' = [handle EXCEPT ![t] = created + 1]
    <3>1. created + 1 \in Clients
      BY <2>2 DEF Clients, TypeInv, TypeOK, ManagerTypes
    <3> QED
      BY <2>2, <3>1 DEF TypeInv, TypeOK, ThreadTypes
  <2> QED
    BY <2>1, <2>2 DEF Create
<1>3. ManagerTypes'
  BY <1>1 DEF Create, TypeInv, TypeOK, ManagerTypes
<1>4. ThreadTypes'
  BY <1>2 DEF Create, Goto, TypeInv, TypeOK, ThreadTypes, Labels, Clients
<1>5. HasClient'
  BY <1>2 DEF Create, Goto, HasClient, TypeInv, TypeOK, ThreadTypes
<1> QED
  BY <1>3, <1>4, <1>5 DEF TypeInv, TypeOK

\* A call that ends leaves the manager's own variables of their types.
LEMMA CallEndsKeeps ==
  ASSUME TypeInv, NEW t \in Threads, NEW result \in Answers, CallEnds(t, result),
         link' \in [Clients -> Links], UNCHANGED <<client, api, created, calls>>
  PROVE  TypeInv'
<1>1. AfterService(t)
  BY CallEndsTypes
<1>2. ManagerTypes'
  BY <1>1, AfterServiceTypes DEF TypeInv, TypeOK, ManagerTypes
<1>3. ThreadTypes'
  BY <1>1, AfterServiceTypes, CallEndsTypes DEF TypeInv, TypeOK, ThreadTypes
<1>4. HasClient'
  <2>1. \A u \in Threads \ {t} : pc'[u] = pc[u] /\ handle'[u] = handle[u]
    BY <1>1, AfterServiceTypes, CallEndsTypes
  <2>2. pc'[t] \notin {"connect", "call", "reopen", "exchange"}
    BY <1>1, AfterServiceTypes
  <2> QED
    BY <2>1, <2>2 DEF HasClient, TypeInv
<1> QED
  BY <1>2, <1>3, <1>4 DEF TypeInv, TypeOK

LEMMA ConnectTypes ==
  ASSUME TypeInv, NEW t \in Threads, Connect(t)
  PROVE  TypeInv'
<1>1. PICK result \in Answers :
        /\ TryConnect(handle[t], result)
        /\ IF result = "ok"
           THEN /\ api' = [api EXCEPT ![Current(t)] = IF @ = 0 THEN handle[t] ELSE @]
                /\ handle' = [handle EXCEPT ![t] = api'[Current(t)]]
                /\ Goto(t, "call")
                /\ lock' = None
                /\ UNCHANGED <<op, todo, answer, seen>>
           ELSE CallEnds(t, result) /\ UNCHANGED api
  BY DEF Connect
<1>2. link' \in [Clients -> Links]
  BY <1>1, ConnectEndsTypes DEF TryConnect, TypeInv, TypeOK, ManagerTypes
<1>3. UNCHANGED <<client, created, calls>> /\ handle[t] \in Clients
  BY DEF Connect, TypeInv, HasClient
<1>4. CASE result = "ok"
  <2>1. Current(t) \in Services
    BY CurrentType
  <2>2. api' \in [Services -> 0..MaxClients] /\ api'[Current(t)] \in Clients
    BY <1>1, <1>3, <1>4, <2>1 DEF Clients, TypeInv, TypeOK, ManagerTypes
  <2>3. ManagerTypes'
    BY <1>1, <1>2, <1>3, <1>4, <2>2 DEF TypeInv, TypeOK, ManagerTypes
  <2>4. ThreadTypes'
    <3>1. handle' \in [Threads -> 0..MaxClients]
      <4>1. api'[Current(t)] \in 0..MaxClients
        BY <2>2 DEF Clients
      <4>2. handle' = [handle EXCEPT ![t] = api'[Current(t)]]
        BY <1>1, <1>4
      <4> QED
        BY <4>1, <4>2 DEF TypeInv, TypeOK, ThreadTypes
    <3> QED
      BY <1>1, <1>3, <1>4, <3>1 DEF Goto, TypeInv, TypeOK, ThreadTypes, Labels
  <2>5. HasClient'
    BY <1>1, <1>4, <2>2 DEF Goto, HasClient, TypeInv, TypeOK, ThreadTypes
  <2> QED
    BY <2>3, <2>4, <2>5 DEF TypeInv, TypeOK
<1>5. CASE result # "ok"
  BY <1>1, <1>2, <1>3, <1>5, CallEndsKeeps
<1> QED
  BY <1>4, <1>5

\* A thread goes on with the client it has.
LEMMA GoesOnTypes ==
  ASSUME TypeInv, NEW t \in Threads, NEW label \in {"exchange", "reopen"},
         Goto(t, label), handle[t] \in Clients, link' \in [Clients -> Links],
         UNCHANGED <<client, api, created, calls>>,
         UNCHANGED <<lock, op, todo, handle, answer, seen>>
  PROVE  TypeInv'
<1>1. ManagerTypes'
  BY DEF TypeInv, TypeOK, ManagerTypes
<1>2. ThreadTypes'
  BY DEF Goto, TypeInv, TypeOK, ThreadTypes, Labels
<1>3. HasClient'
  BY DEF Goto, HasClient, TypeInv, TypeOK, ThreadTypes
<1> QED
  BY <1>1, <1>2, <1>3 DEF TypeInv, TypeOK

LEMMA CallTypes ==
  ASSUME TypeInv, NEW t \in Threads, Call(t)
  PROVE  TypeInv'
<1>1. /\ handle[t] \in Clients
      /\ UNCHANGED <<client, api, created, calls>>
      /\ link \in [Clients -> Links]
  BY DEF Call, TypeInv, HasClient, TypeOK, ManagerTypes
<1>2. UNCHANGED link
  BY DEF Call
<1>3. CASE CallEnds(t, "crash") \/ CallEnds(t, "unavailable")
  BY <1>1, <1>2, <1>3, CallEndsKeeps DEF Answers
<1>4. CASE /\ Goto(t, "exchange") \/ Goto(t, "reopen")
           /\ UNCHANGED <<lock, op, todo, handle, answer, seen>>
  BY <1>1, <1>2, <1>4, GoesOnTypes
<1> QED
  BY <1>3, <1>4 DEF Call

LEMMA ReopenTypes ==
  ASSUME TypeInv, NEW t \in Threads, Reopen(t)
  PROVE  TypeInv'
<1>1. /\ handle[t] \in Clients
      /\ UNCHANGED <<client, api, created, calls>>
      /\ link[handle[t]] \in Links
  BY DEF Reopen, TypeInv, HasClient, TypeOK, ManagerTypes
<1>2. PICK end \in ConnectEnds \cup {<<link[handle[t]], "ok">>} :
        /\ link' = [link EXCEPT ![handle[t]] = end[1]]
        /\ IF end[2] = "ok"
           THEN Goto(t, "exchange") /\ UNCHANGED <<lock, op, todo, handle, answer, seen>>
           ELSE CallEnds(t, end[2])
  BY DEF Reopen
<1>3. end[1] \in Links /\ end[2] \in Answers
  BY <1>1, <1>2, ConnectEndsTypes DEF Answers
<1>4. link' \in [Clients -> Links]
  BY <1>2, <1>3 DEF TypeInv, TypeOK, ManagerTypes
<1>5. CASE end[2] = "ok"
  BY <1>1, <1>2, <1>4, <1>5, GoesOnTypes
<1>6. CASE end[2] # "ok"
  BY <1>1, <1>2, <1>3, <1>4, <1>6, CallEndsKeeps
<1> QED
  BY <1>5, <1>6

LEMMA ExchangeTypes ==
  ASSUME TypeInv, NEW t \in Threads, Exchange(t)
  PROVE  TypeInv'
<1>1. /\ UNCHANGED <<client, api, created, calls>>
      /\ link[handle[t]] \in Links
  BY DEF Exchange, TypeInv, HasClient, TypeOK, ManagerTypes
<1>2. PICK end \in ExchangeEnds(link[handle[t]]) :
        link' = [link EXCEPT ![handle[t]] = end[1]] /\ CallEnds(t, end[2])
  BY DEF Exchange
<1>3. end[1] \in Links /\ end[2] \in Answers
  BY <1>1, ExchangeEndsTypes
<1>4. link' \in [Clients -> Links]
  BY <1>2, <1>3 DEF TypeInv, TypeOK, ManagerTypes
<1> QED
  BY <1>1, <1>2, <1>3, <1>4, CallEndsKeeps

LEMMA LockAllTypes ==
  ASSUME TypeInv, NEW t \in Threads, LockAll(t)
  PROVE  TypeInv'
<1>1. PICK label \in {"look", "close"} : pc' = [pc EXCEPT ![t] = label]
  BY DEF LockAll, Goto
<1>2. ManagerTypes' /\ ThreadTypes'
  BY <1>1 DEF LockAll, TypeInv, TypeOK, ManagerTypes, ThreadTypes, Labels
<1>3. HasClient'
  BY <1>1 DEF LockAll, HasClient, TypeInv, TypeOK, ThreadTypes
<1> QED
  BY <1>2, <1>3 DEF TypeInv, TypeOK

LEMMA LookTypes ==
  ASSUME TypeInv, NEW t \in Threads, Look(t)
  PROVE  TypeInv'
<1>1. UNCHANGED <<client, api, created, link, calls, answer>> /\ Current(t) \in Services
  BY CurrentType DEF Look
<1>2. ASSUME NEW up \in BOOLEAN, Note(t, up), AfterService(t), UNCHANGED handle
      PROVE  TypeInv'
  <2>1. seen' \in [Threads -> [Services -> BOOLEAN]]
    BY <1>2, NoteType
  <2>2. ManagerTypes' /\ ThreadTypes'
    BY <1>1, <1>2, <2>1, AfterServiceTypes
    DEF TypeInv, TypeOK, ManagerTypes, ThreadTypes
  <2>3. HasClient'
    BY <1>2, AfterServiceTypes DEF HasClient, TypeInv
  <2> QED
    BY <2>2, <2>3 DEF TypeInv, TypeOK
<1>3. CASE /\ api[Current(t)] # 0
           /\ handle' = [handle EXCEPT ![t] = api[Current(t)]]
           /\ Goto(t, "call") /\ UNCHANGED <<lock, op, todo, seen>>
  <2>1. api[Current(t)] \in Clients
    BY <1>1, <1>3 DEF Clients, TypeInv, TypeOK, ManagerTypes
  <2>2. ManagerTypes' /\ ThreadTypes'
    BY <1>1, <1>3, <2>1
    DEF Goto, TypeInv, TypeOK, ManagerTypes, ThreadTypes, Labels, Clients
  <2>3. HasClient'
    BY <1>3, <2>1 DEF Goto, HasClient, TypeInv, TypeOK, ThreadTypes
  <2> QED
    BY <2>2, <2>3 DEF TypeInv, TypeOK
<1> QED
  BY <1>2, <1>3 DEF Look

\* disconnect_service() is over, be it by itself or in another method.
LEMMA AfterDropTypes ==
  ASSUME TypeInv, NEW t \in Threads, AfterDrop(t), link' \in [Clients -> Links],
         client' \in [Services -> 0..MaxClients], api' \in [Services -> 0..MaxClients],
         UNCHANGED <<created, calls, handle, answer, seen>>
  PROVE  TypeInv'
<1>1. CASE /\ Goto(t, "ensure") /\ UNCHANGED <<op, todo>>
           /\ lock' = IF lock = t THEN None ELSE lock
  <2>1. ManagerTypes' /\ ThreadTypes'
    BY <1>1 DEF Goto, TypeInv, TypeOK, ManagerTypes, ThreadTypes, Labels
  <2>2. HasClient'
    BY <1>1 DEF Goto, HasClient, TypeInv, TypeOK, ThreadTypes
  <2> QED
    BY <2>1, <2>2 DEF TypeInv, TypeOK
<1>2. CASE AfterService(t)
  <2>1. ManagerTypes' /\ ThreadTypes'
    BY <1>2, AfterServiceTypes DEF TypeInv, TypeOK, ManagerTypes, ThreadTypes
  <2>2. HasClient'
    BY <1>2, AfterServiceTypes DEF HasClient, TypeInv
  <2> QED
    BY <2>1, <2>2 DEF TypeInv, TypeOK
<1> QED
  BY <1>1, <1>2 DEF AfterDrop

LEMMA CloseTypes ==
  ASSUME TypeInv, NEW t \in Threads, Close(t)
  PROVE  TypeInv'
<1>1. /\ UNCHANGED <<client, api, created, calls, handle, answer, seen>>
      /\ link \in [Clients -> Links]
      /\ client \in [Services -> 0..MaxClients] /\ api \in [Services -> 0..MaxClients]
  BY DEF Close, TypeInv, TypeOK, ManagerTypes
<1>2. CASE AfterDrop(t) /\ UNCHANGED link
  BY <1>1, <1>2, AfterDropTypes
<1>3. CASE /\ link' = [link EXCEPT ![client[Current(t)]] = "off"]
           /\ Goto(t, "forget") /\ lock' = t /\ UNCHANGED <<op, todo>>
  <2>1. link' \in [Clients -> Links]
    BY <1>1, <1>3 DEF Links
  <2>2. ManagerTypes' /\ ThreadTypes'
    BY <1>1, <1>3, <2>1 DEF Goto, TypeInv, TypeOK, ManagerTypes, ThreadTypes, Labels
  <2>3. HasClient'
    BY <1>1, <1>3 DEF Goto, HasClient, TypeInv, TypeOK, ThreadTypes
  <2> QED
    BY <2>2, <2>3 DEF TypeInv, TypeOK
<1> QED
  BY <1>2, <1>3 DEF Close

LEMMA ForgetTypes ==
  ASSUME TypeInv, NEW t \in Threads, Forget(t)
  PROVE  TypeInv'
<1>1. 0 \in 0..MaxClients /\ Current(t) \in Services
  BY CurrentType
<1>2. client' \in [Services -> 0..MaxClients]
  BY <1>1 DEF Forget, TypeInv, TypeOK, ManagerTypes
<1>3. api' \in [Services -> 0..MaxClients] /\ link' \in [Clients -> Links]
  BY <1>1 DEF Forget, TypeInv, TypeOK, ManagerTypes
<1> QED
  BY <1>2, <1>3, AfterDropTypes DEF Forget

LEMMA BreaksTypes ==
  ASSUME TypeInv, NEW c \in Clients, Breaks(c)
  PROVE  TypeInv'
  BY DEF Breaks, managerVars, threadVars, Links, HasClient, TypeInv, TypeOK,
         ManagerTypes, ThreadTypes

LEMMA UnchangedTypes == TypeInv /\ UNCHANGED vars => TypeInv'
  BY DEF vars, managerVars, threadVars, HasClient, TypeInv, TypeOK, ManagerTypes,
         ThreadTypes

LEMMA StepTypes ==
  ASSUME TypeInv, NEW t \in Threads, Step(t)
  PROVE  TypeInv'
  BY EnsureTypes, CreateTypes, ConnectTypes, CallTypes, ReopenTypes, ExchangeTypes,
     LockAllTypes, LookTypes, CloseTypes, ForgetTypes DEF Step

LEMMA NextTypes == TypeInv /\ [Next]_vars => TypeInv'
  BY BeginTypes, StepTypes, BreaksTypes, UnchangedTypes DEF Next, AllCallsMade

\* Every value of the manager and of its threads is of its type, and a method
\* under way always has a service left to deal with.
THEOREM ManagerTypeCorrect == Spec => []TypeOK
<1>1. Init => TypeInv
  BY InitTypes
<1>2. TypeInv /\ [Next]_vars => TypeInv'
  BY NextTypes
<1>3. TypeInv => TypeOK
  BY DEF TypeInv
<1> QED
  BY <1>1, <1>2, <1>3, PTL DEF Spec

----------------------------------------------------------------------------
(* An API object wraps the manager's client.                                *)

Making(t) == pc[t] \in {"create", "connect", "forget"}

\* Who may take the lock is alone in making or dropping a client.
LEMMA AloneInMaking ==
  ASSUME ApiInv, NEW t \in Threads, NEW u \in Threads \ {t}, lock \in {None, t}
  PROVE  ~Making(u)
  BY DEF ApiInv, Making

\* A thread that makes and drops no client disturbs nobody who does.
LEMMA AsideKeeps ==
  ASSUME ApiInv, NEW t \in Threads, ApiWrapsClient', UNCHANGED client,
         lock' = lock \/ lock \in {None, t},
         ~Making(t)',
         \A u \in Threads \ {t} :
            pc'[u] = pc[u] /\ handle'[u] = handle[u] /\ todo'[u] = todo[u]
  PROVE  ApiInv'
<1>1. ASSUME NEW u \in Threads, Making(u)'
      PROVE  lock' = u /\ (pc'[u] # "forget" => handle'[u] = client'[Current(u)'])
  <2>1. u \in Threads \ {t} /\ Making(u)
    BY <1>1 DEF Making
  <2>2. lock = u /\ (pc[u] # "forget" => handle[u] = client[Current(u)])
    BY <2>1 DEF ApiInv, Making
  <2>3. lock' = lock
    BY <2>1, AloneInMaking
  <2> QED
    BY <2>1, <2>2, <2>3 DEF Current
<1> QED
  BY <1>1 DEF ApiInv, Making

\* As when a call ends.
LEMMA EndsKeeps ==
  ASSUME TypeInv, ApiInv, NEW t \in Threads, AfterService(t), ApiWrapsClient',
         UNCHANGED client, \A u \in Threads \ {t} : handle'[u] = handle[u]
  PROVE  ApiInv'
<1>1. /\ \A u \in Threads \ {t} : pc'[u] = pc[u] /\ todo'[u] = todo[u]
      /\ lock' = lock \/ lock \in {None, t}
      /\ ~Making(t)'
  BY AfterServiceTypes DEF Making
<1> QED
  BY <1>1, AsideKeeps

LEMMA InitWraps == Init => ApiInv
  BY DEF Init, ApiInv, ApiWrapsClient

LEMMA BeginWraps ==
  ASSUME TypeInv, ApiInv, NEW t \in Threads, NEW o \in Ops, NEW s \in Services,
         Begin(t, o, s)
  PROVE  ApiInv'
<1>1. PICK label \in {"ensure", "lockAll", "close"} : pc' = [pc EXCEPT ![t] = label]
  BY DEF Begin, Goto
<1>2. UNCHANGED <<lock, client, api, handle>> /\ \A u \in Threads \ {t} : todo'[u] = todo[u]
  BY DEF Begin, managerVars, TypeInv, TypeOK, ThreadTypes
<1>3. ~Making(t)' /\ \A u \in Threads \ {t} : pc'[u] = pc[u]
  BY <1>1 DEF Making, TypeInv, TypeOK, ThreadTypes
<1>4. ApiWrapsClient'
  BY <1>2 DEF ApiInv, ApiWrapsClient
<1> QED
  BY <1>2, <1>3, <1>4, AsideKeeps

LEMMA EnsureWraps ==
  ASSUME TypeInv, ApiInv, NEW t \in Threads, Ensure(t)
  PROVE  ApiInv'
<1>1. UNCHANGED <<client, api, todo>> /\ lock \in {None, t}
  BY DEF Ensure, CanLock
<1>2. \A u \in Threads \ {t} : pc'[u] = pc[u] /\ handle'[u] = handle[u]
  BY DEF Ensure, Goto, TypeInv, TypeOK, ThreadTypes
<1>3. ApiWrapsClient'
  BY <1>1 DEF ApiInv, ApiWrapsClient
<1>4. CASE pc'[t] = "call"
  BY <1>1, <1>2, <1>3, <1>4, AsideKeeps DEF Making
<1>5. CASE /\ handle' = [handle EXCEPT ![t] = client[Current(t)]]
           /\ Goto(t, "create") /\ lock' = t
  <2>1. \A u \in Threads \ {t} : ~Making(u)'
    BY <1>1, <1>2, AloneInMaking DEF Making
  <2>2. handle'[t] = client'[Current(t)']
    BY <1>1, <1>5 DEF Current, TypeInv, TypeOK, ThreadTypes
  <2> QED
    BY <1>3, <1>5, <2>1, <2>2 DEF ApiInv, Making
<1> QED
  BY <1>4, <1>5 DEF Ensure, Goto, TypeInv, TypeOK, ThreadTypes

LEMMA CreateWraps ==
  ASSUME TypeInv, ApiInv, NEW t \in Threads, Create(t)
  PROVE  ApiInv'
<1>1. /\ lock = t /\ handle[t] = client[Current(t)] /\ Current(t) \in Services
      /\ UNCHANGED <<lock, api, todo>>
  BY CurrentType DEF Create, ApiInv
<1>2. /\ handle'[t] = client'[Current(t)]
      /\ \A s \in Services \ {Current(t)} : client'[s] = client[s]
      /\ client[Current(t)] # 0 => UNCHANGED client
  BY <1>1 DEF Create, TypeInv, TypeOK, ThreadTypes, ManagerTypes
<1>3. ApiWrapsClient'
  BY <1>1, <1>2 DEF ApiInv, ApiWrapsClient
<1>4. \A u \in Threads \ {t} : ~Making(u)'
  <2>1. \A u \in Threads \ {t} : pc'[u] = pc[u]
    BY DEF Create, Goto, TypeInv, TypeOK, ThreadTypes
  <2> QED
    BY <1>1, <2>1, AloneInMaking DEF Making
<1> QED
  BY <1>1, <1>2, <1>3, <1>4 DEF ApiInv, Making, Current

LEMMA ConnectWraps ==
  ASSUME TypeInv, ApiInv, NEW t \in Threads, Connect(t)
  PROVE  ApiInv'
<1>1. /\ lock = t /\ handle[t] = client[Current(t)] /\ Current(t) \in Services
      /\ UNCHANGED client
  BY CurrentType DEF Connect, ApiInv
<1>2. PICK result \in Answers :
        IF result = "ok"
        THEN /\ api' = [api EXCEPT ![Current(t)] = IF @ = 0 THEN handle[t] ELSE @]
             /\ handle' = [handle EXCEPT ![t] = api'[Current(t)]]
             /\ Goto(t, "call")
             /\ lock' = None
             /\ UNCHANGED <<op, todo, answer, seen>>
        ELSE CallEnds(t, result) /\ UNCHANGED api
  BY DEF Connect
<1>3. CASE result = "ok"
  <2>1. ApiWrapsClient'
    BY <1>1, <1>2, <1>3 DEF ApiInv, ApiWrapsClient, TypeInv, TypeOK, ManagerTypes
  <2>2. /\ ~Making(t)'
        /\ \A u \in Threads \ {t} :
             pc'[u] = pc[u] /\ handle'[u] = handle[u] /\ todo'[u] = todo[u]
    BY <1>2, <1>3 DEF Goto, Making, TypeInv, TypeOK, ThreadTypes
  <2> QED
    BY <1>1, <2>1, <2>2, AsideKeeps
<1>4. CASE result # "ok"
  <2>1. ApiWrapsClient'
    BY <1>1, <1>2, <1>4 DEF ApiInv, ApiWrapsClient
  <2> QED
    BY <1>1, <1>2, <1>4, <2>1, CallEndsTypes, EndsKeeps
<1> QED
  BY <1>3, <1>4

LEMMA CallWraps ==
  ASSUME TypeInv, ApiInv, NEW t \in Threads, Call(t)
  PROVE  ApiInv'
<1>1. UNCHANGED <<client, api>>
  BY DEF Call
<1>2. ApiWrapsClient'
  BY <1>1 DEF ApiInv, ApiWrapsClient
<1>3. CASE CallEnds(t, "crash") \/ CallEnds(t, "unavailable")
  BY <1>1, <1>2, <1>3, CallEndsTypes, EndsKeeps DEF Answers
<1>4. CASE /\ Goto(t, "exchange") \/ Goto(t, "reopen")
           /\ UNCHANGED <<lock, op, todo, handle, answer, seen>>
  BY <1>1, <1>2, <1>4, AsideKeeps DEF Goto, Making, TypeInv, TypeOK, ThreadTypes
<1> QED
  BY <1>3, <1>4 DEF Call

LEMMA ReopenWraps ==
  ASSUME TypeInv, ApiInv, NEW t \in Threads, Reopen(t)
  PROVE  ApiInv'
<1>1. UNCHANGED <<client, api>>
  BY DEF Reopen
<1>2. ApiWrapsClient'
  BY <1>1 DEF ApiInv, ApiWrapsClient
<1>3. PICK end \in ConnectEnds \cup {<<link[handle[t]], "ok">>} :
        IF end[2] = "ok"
        THEN Goto(t, "exchange") /\ UNCHANGED <<lock, op, todo, handle, answer, seen>>
        ELSE CallEnds(t, end[2])
  BY DEF Reopen
<1>4. CASE end[2] = "ok"
  BY <1>1, <1>2, <1>3, <1>4, AsideKeeps DEF Goto, Making, TypeInv, TypeOK, ThreadTypes
<1>5. CASE end[2] # "ok"
  <2>1. end[2] \in Answers
    BY <1>3, <1>5, ConnectEndsTypes
  <2> QED
    BY <1>1, <1>2, <1>3, <1>5, <2>1, CallEndsTypes, EndsKeeps
<1> QED
  BY <1>4, <1>5

LEMMA ExchangeWraps ==
  ASSUME TypeInv, ApiInv, NEW t \in Threads, Exchange(t)
  PROVE  ApiInv'
<1>1. UNCHANGED <<client, api>> /\ link[handle[t]] \in Links
  BY DEF Exchange, TypeInv, HasClient, TypeOK, ManagerTypes
<1>2. ApiWrapsClient'
  BY <1>1 DEF ApiInv, ApiWrapsClient
<1>3. PICK end \in ExchangeEnds(link[handle[t]]) : CallEnds(t, end[2])
  BY DEF Exchange
<1>4. end[2] \in Answers
  BY <1>1, <1>3, ExchangeEndsTypes
<1> QED
  BY <1>1, <1>2, <1>3, <1>4, CallEndsTypes, EndsKeeps

LEMMA LockAllWraps ==
  ASSUME TypeInv, ApiInv, NEW t \in Threads, LockAll(t)
  PROVE  ApiInv'
<1>1. UNCHANGED <<client, api, todo, handle>> /\ lock \in {None, t}
  BY DEF LockAll, CanLock
<1>2. ApiWrapsClient'
  BY <1>1 DEF ApiInv, ApiWrapsClient
<1>3. ~Making(t)' /\ \A u \in Threads \ {t} : pc'[u] = pc[u]
  BY DEF LockAll, Goto, Making, TypeInv, TypeOK, ThreadTypes
<1> QED
  BY <1>1, <1>2, <1>3, AsideKeeps

LEMMA LookWraps ==
  ASSUME TypeInv, ApiInv, NEW t \in Threads, Look(t)
  PROVE  ApiInv'
<1>1. UNCHANGED <<client, api>>
  BY DEF Look
<1>2. ApiWrapsClient'
  BY <1>1 DEF ApiInv, ApiWrapsClient
<1>3. CASE AfterService(t) /\ UNCHANGED handle
  BY <1>1, <1>2, <1>3, EndsKeeps
<1>4. CASE /\ handle' = [handle EXCEPT ![t] = api[Current(t)]]
           /\ Goto(t, "call") /\ UNCHANGED <<lock, op, todo, seen>>
  BY <1>1, <1>2, <1>4, AsideKeeps DEF Goto, Making, TypeInv, TypeOK, ThreadTypes
<1> QED
  BY <1>3, <1>4 DEF Look

LEMMA AfterDropIs ==
  ASSUME TypeInv, NEW t \in Threads, AfterDrop(t)
  PROVE  /\ pc'[t] \in {"idle", "ensure", "lockAll", "look", "close"}
         /\ \A u \in Threads \ {t} : pc'[u] = pc[u] /\ todo'[u] = todo[u]
         /\ lock' = lock \/ lock = t
<1>1. CASE /\ Goto(t, "ensure") /\ UNCHANGED <<op, todo>>
           /\ lock' = IF lock = t THEN None ELSE lock
  BY <1>1 DEF Goto, TypeInv, TypeOK, ThreadTypes
<1>2. CASE AfterService(t)
  BY <1>2, AfterServiceTypes
<1> QED
  BY <1>1, <1>2 DEF AfterDrop

LEMMA CloseWraps ==
  ASSUME TypeInv, ApiInv, NEW t \in Threads, Close(t)
  PROVE  ApiInv'
<1>1. lock \in {None, t} /\ UNCHANGED <<client, api, handle>>
  BY DEF Close, CanLock
<1>2. ApiWrapsClient'
  BY <1>1 DEF ApiInv, ApiWrapsClient
<1>3. CASE AfterDrop(t)
  BY <1>1, <1>2, <1>3, AfterDropIs, AsideKeeps DEF Making
<1>4. CASE Goto(t, "forget") /\ lock' = t /\ UNCHANGED todo
  <2>1. pc'[t] = "forget" /\ \A u \in Threads \ {t} : pc'[u] = pc[u]
    BY <1>4 DEF Goto, TypeInv, TypeOK, ThreadTypes
  <2>2. \A u \in Threads \ {t} : ~Making(u)'
    BY <1>1, <2>1, AloneInMaking DEF Making
  <2> QED
    BY <1>2, <1>4, <2>1, <2>2 DEF ApiInv, Making
<1> QED
  BY <1>3, <1>4 DEF Close

LEMMA ForgetWraps ==
  ASSUME TypeInv, ApiInv, NEW t \in Threads, Forget(t)
  PROVE  ApiInv'
<1>1. Current(t) \in Services /\ lock = t /\ AfterDrop(t)
  BY CurrentType DEF Forget, ApiInv
<1>2. ApiWrapsClient'
  BY <1>1 DEF Forget, ApiInv, ApiWrapsClient, TypeInv, TypeOK, ManagerTypes
<1>3. \A u \in Threads : ~Making(u)'
  BY <1>1, AfterDropIs, AloneInMaking DEF Making
<1> QED
  BY <1>2, <1>3 DEF ApiInv, Making

LEMMA QuietWraps ==
  ASSUME ApiInv, UNCHANGED <<lock, client, api, pc, handle, todo>>
  PROVE  ApiInv'
  BY DEF ApiInv, ApiWrapsClient, Current

LEMMA NextWraps == TypeInv /\ ApiInv /\ [Next]_vars => ApiInv'
<1> SUFFICES ASSUME TypeInv, ApiInv, [Next]_vars PROVE ApiInv'
  OBVIOUS
<1>1. ASSUME NEW t \in Threads, Step(t) PROVE ApiInv'
  BY <1>1, EnsureWraps, CreateWraps, ConnectWraps, CallWraps, ReopenWraps,
     ExchangeWraps, LockAllWraps, LookWraps, CloseWraps, ForgetWraps DEF Step
<1>2. ASSUME NEW c \in Clients, Breaks(c) PROVE ApiInv'
  BY <1>2, QuietWraps DEF Breaks, managerVars, threadVars
<1>3. CASE UNCHANGED vars
  BY <1>3, QuietWraps DEF vars, managerVars, threadVars
<1> QED
  BY <1>1, <1>2, <1>3, BeginWraps DEF Next, AllCallsMade

\* The inductive invariant: a client is made, connected and wrapped, or closed and
\* forgotten, by the one thread that holds the lock, and stays the manager's meanwhile.
THEOREM ApiInvAlways == Spec => []ApiInv
<1>1. Init => TypeInv /\ ApiInv
  BY InitTypes, InitWraps
<1>2. TypeInv /\ ApiInv /\ [Next]_vars => TypeInv' /\ ApiInv'
  BY NextTypes, NextWraps
<1> QED
  BY <1>1, <1>2, PTL DEF Spec

\* No API object outlives a disconnect or wraps a client that was replaced: what
\* the enb, mme, ims and ue properties return works on the manager's client.
THEOREM ApiWrapsClientCorrect == Spec => []ApiWrapsClient
<1>1. ApiInv => ApiWrapsClient
  BY DEF ApiInv
<1> QED
  BY <1>1, ApiInvAlways, PTL

----------------------------------------------------------------------------
(* get_status() and close_all() hold the lock from the first service to the *)
(* last, and what they found or did to one still stands at the end.         *)

\* The services a method has yet to deal with, the current one among them.
Ahead(t) == {todo[t][i] : i \in DOMAIN todo[t]}

More(t) == Len(todo[t]) > 1

\* Each step is one of the methods that get there.
InMethod(t) ==
    /\ pc[t] \in {"ensure", "create", "connect"} =>
          op[t] \in {"request", "check", "reconnect", "connectAll"}
    /\ pc[t] \in {"call", "reopen", "exchange"} =>
          op[t] \in {"request", "check", "reconnect", "connectAll", "status"}
    /\ pc[t] = "look" => op[t] = "status"
    /\ pc[t] \in {"close", "forget"} => op[t] \in {"disconnect", "reconnect", "closeAll"}
    /\ pc[t] = "lockAll" => op[t] \in {"status", "closeAll"} /\ todo[t] = Order
    /\ pc[t] # "idle" /\ op[t] \in {"request", "check", "reconnect", "disconnect"} =>
          ~More(t)

Surveying(t)  == op[t] = "status" /\ pc[t] \in {"look", "call", "reopen", "exchange"}
ClosingAll(t) == op[t] = "closeAll" /\ pc[t] \in {"close", "forget"}

\* A service noted as connected has a client; that of a service being called too.
Surveyed(t) ==
    Surveying(t) =>
        /\ lock = t
        /\ pc[t] # "look" => client[Current(t)] # 0
        /\ \A s \in Services \ Ahead(t) : seen[t][s] => client[s] # 0

\* A service that has been dealt with has no client.
Closed(t) ==
    ClosingAll(t) => lock = t /\ \A s \in Services \ Ahead(t) : client[s] = 0

SweepInv == \A t \in Threads : InMethod(t) /\ Surveyed(t) /\ Closed(t)

ManagerInv == TypeInv /\ ApiInv /\ SweepInv

LEMMA OrderIsAll ==
  ASSUME NEW t \in Threads, todo[t] = Order
  PROVE  Services \subseteq Ahead(t)
BY OrderAssumption DEF Ahead

\* Of a thread that another one's step leaves alone.
LEMMA BystanderSweeps ==
  ASSUME SweepInv, NEW t \in Threads, NEW u \in Threads \ {t},
         pc'[u] = pc[u], op'[u] = op[u], todo'[u] = todo[u], seen'[u] = seen[u],
         UNCHANGED <<lock, client>> \/ lock \in {None, t}
  PROVE  (InMethod(u) /\ Surveyed(u) /\ Closed(u))'
<1>1. InMethod(u) /\ Surveyed(u) /\ Closed(u)
  BY DEF SweepInv
<1>2. InMethod(u)'
  BY <1>1 DEF InMethod, More
<1>3. Surveying(u)' <=> Surveying(u)
  BY DEF Surveying
<1>4. ClosingAll(u)' <=> ClosingAll(u)
  BY DEF ClosingAll
<1>5. CASE UNCHANGED <<lock, client>>
  BY <1>1, <1>2, <1>3, <1>4, <1>5 DEF Surveyed, Closed, Current, Ahead
<1>6. CASE lock \in {None, t}
  BY <1>1, <1>2, <1>3, <1>4, <1>6 DEF Surveyed, Closed
<1> QED
  BY <1>5, <1>6

LEMMA InitSweeps == Init => SweepInv
BY DEF Init, SweepInv, InMethod, Surveyed, Surveying, Closed, ClosingAll

LEMMA AheadOfTail ==
  ASSUME TypeInv, NEW t \in Threads, More(t), todo'[t] = Tail(todo[t])
  PROVE  Ahead(t) \subseteq Ahead(t)' \cup {Current(t)}
<1> SUFFICES ASSUME NEW i \in DOMAIN todo[t], i # 1 PROVE todo[t][i] \in Ahead(t)'
  BY DEF Ahead, Current
<1>1. todo[t] \in Seq(Services) /\ todo[t] # << >>
  BY DEF TypeInv, TypeOK, ThreadTypes
<1>2. i \in 2..Len(todo[t]) /\ Len(todo[t]) \in Nat
  BY <1>1
<1>3. i - 1 \in DOMAIN Tail(todo[t]) /\ Tail(todo[t])[i - 1] = todo[t][i]
  BY <1>1, <1>2, HeadTailProperties
<1> QED
  BY <1>3 DEF Ahead

LEMMA LastAhead ==
  ASSUME TypeInv, NEW t \in Threads, ~More(t)
  PROVE  Ahead(t) = {Current(t)}
<1>1. todo[t] \in Seq(Services) /\ todo[t] # << >>
  BY DEF TypeInv, TypeOK, ThreadTypes
<1>2. Len(todo[t]) \in Nat \ {0} /\ DOMAIN todo[t] = 1..Len(todo[t])
  BY <1>1, EmptySeq, LenProperties
<1>3. DOMAIN todo[t] = {1}
  BY <1>2 DEF More
<1> QED
  BY <1>1, <1>3 DEF Ahead, Current

\* The current service has been dealt with, as those before it.
Found(t)  == \A s \in Services : s \notin Ahead(t) \/ s = Current(t) =>
                (seen'[t][s] => client'[s] # 0)
Emptied(t) == \A s \in Services : s \notin Ahead(t) \/ s = Current(t) => client'[s] = 0

LEMMA AfterServiceSweeps ==
  ASSUME TypeInv, NEW t \in Threads, AfterService(t),
         op[t] \in {"request", "check", "reconnect", "disconnect"} => ~More(t),
         op[t] = "status" => lock = t /\ Found(t),
         op[t] = "closeAll" => lock = t /\ Emptied(t)
  PROVE  (InMethod(t) /\ Surveyed(t) /\ Closed(t))'
<1> DEFINE all == op[t] = "connectAll"
<1>1. /\ todo'[t] = IF More(t) THEN Tail(todo[t]) ELSE IF all THEN Order ELSE todo[t]
      /\ op'[t] = IF all /\ ~More(t) THEN "status" ELSE op[t]
      /\ pc'[t] = CASE all /\ More(t)      -> "ensure"
                   [] all /\ ~More(t)     -> "lockAll"
                   [] ~all /\ More(t)     -> IF op[t] = "status" THEN "look" ELSE "close"
                   [] ~all /\ ~More(t)    -> "idle"
      /\ ~all /\ More(t) => lock' = lock
  BY DEF AfterService, More, Goto, TypeInv, TypeOK, ThreadTypes
<1>2. op[t] \in OpKinds
  BY DEF TypeInv, TypeOK, ThreadTypes
<1>3. CASE ~More(t) /\ ~all
  BY <1>1, <1>3 DEF InMethod, Surveyed, Surveying, Closed, ClosingAll
<1>4. CASE all
  BY <1>1, <1>4 DEF InMethod, Surveyed, Surveying, Closed, ClosingAll
<1>5. CASE More(t) /\ ~all
  <2>1. op[t] \notin {"request", "check", "reconnect", "disconnect"}
    BY <1>5
  <2>2. op[t] \in {"status", "closeAll"} /\ op'[t] = op[t] /\ lock' = t
    BY <1>1, <1>2, <1>5, <2>1 DEF OpKinds
  <2>3. Ahead(t) \subseteq Ahead(t)' \cup {Current(t)}
    BY <1>1, <1>5, AheadOfTail
  <2>4. pc'[t] = IF op[t] = "status" THEN "look" ELSE "close"
    BY <1>1, <1>5
  <2>5. InMethod(t)'
    BY <2>2, <2>4 DEF InMethod
  <2>6. Surveyed(t)'
    BY <2>2, <2>3, <2>4 DEF Surveyed, Surveying, Found
  <2>7. Closed(t)'
    BY <2>2, <2>3, <2>4 DEF Closed, ClosingAll, Emptied
  <2> QED
    BY <2>5, <2>6, <2>7
<1> QED
  BY <1>3, <1>4, <1>5

\* A step of a thread that holds the lock, may take it, or moves no client.
LEMMA ThreadSweeps ==
  ASSUME SweepInv, NEW t \in Threads,
         \A u \in Threads \ {t} :
            pc'[u] = pc[u] /\ op'[u] = op[u] /\ todo'[u] = todo[u] /\ seen'[u] = seen[u],
         UNCHANGED <<lock, client>> \/ lock \in {None, t},
         (InMethod(t) /\ Surveyed(t) /\ Closed(t))'
  PROVE  SweepInv'
BY BystanderSweeps DEF SweepInv

LEMMA NoteSeen ==
  ASSUME TypeInv, NEW t \in Threads, NEW up, Note(t, up)
  PROVE  /\ \A u \in Threads \ {t} : seen'[u] = seen[u]
         /\ \A s \in Services : seen'[t][s] = IF s = Current(t) THEN up ELSE seen[t][s]
<1>1. seen \in [Threads -> [Services -> BOOLEAN]]
  BY DEF TypeInv, TypeOK, ThreadTypes
<1>2. seen' = [seen EXCEPT ![t] = [seen[t] EXCEPT ![Current(t)] = up]]
  BY DEF Note
<1> QED
  BY <1>1, <1>2

\* The others, when a thread is done with a service.
LEMMA AfterServiceOthers ==
  ASSUME TypeInv, NEW t \in Threads, AfterService(t)
  PROVE  /\ \A u \in Threads \ {t} :
               pc'[u] = pc[u] /\ op'[u] = op[u] /\ todo'[u] = todo[u]
         /\ lock' = lock \/ lock \in {None, t}
BY AfterServiceTypes DEF AfterService, TypeInv, TypeOK, ThreadTypes

LEMMA CallEndsSweeps ==
  ASSUME ManagerInv, NEW t \in Threads, NEW result, CallEnds(t, result),
         pc[t] \in {"connect", "call", "reopen", "exchange"}, UNCHANGED client
  PROVE  SweepInv'
<1>1. TypeInv /\ InMethod(t) /\ Surveyed(t) /\ AfterService(t)
  BY DEF ManagerInv, SweepInv, CallEnds
<1>2. op[t] \in {"request", "check", "reconnect", "connectAll", "status"}
  BY <1>1 DEF InMethod
<1>3. ASSUME op[t] = "status" PROVE lock = t /\ Found(t)
  <2>1. Note(t, TRUE) /\ pc[t] \in {"call", "reopen", "exchange"}
    BY <1>1, <1>3 DEF CallEnds, InMethod
  <2>2. lock = t /\ client[Current(t)] # 0
        /\ \A s \in Services \ Ahead(t) : seen[t][s] => client[s] # 0
    BY <1>1, <1>3, <2>1 DEF Surveyed, Surveying
  <2> QED
    BY <1>1, <2>1, <2>2, NoteSeen DEF Found
<1>4. (InMethod(t) /\ Surveyed(t) /\ Closed(t))'
  BY <1>1, <1>2, <1>3, AfterServiceSweeps DEF InMethod
<1>5. \A u \in Threads \ {t} : seen'[u] = seen[u]
  <2>1. CASE UNCHANGED seen
    BY <2>1
  <2>2. CASE Note(t, TRUE) \/ Note(t, result = "ok")
    BY <1>1, <2>2, NoteSeen
  <2> QED
    BY <2>1, <2>2 DEF CallEnds
<1> QED
  BY <1>1, <1>4, <1>5, AfterServiceOthers, ThreadSweeps DEF ManagerInv

\* A thread goes on within a method.
LEMMA GoesOnSweeps ==
  ASSUME ManagerInv, NEW t \in Threads, NEW label \in Labels, Goto(t, label),
         UNCHANGED <<op, todo, seen>>,
         UNCHANGED <<lock, client>> \/ lock \in {None, t},
         (InMethod(t) /\ Surveyed(t) /\ Closed(t))'
  PROVE  SweepInv'
<1>1. \A u \in Threads \ {t} : pc'[u] = pc[u]
  BY DEF Goto, ManagerInv, TypeInv, TypeOK, ThreadTypes
<1> QED
  BY <1>1, ThreadSweeps DEF ManagerInv

LEMMA GotoIs ==
  ASSUME TypeInv, NEW t \in Threads, NEW label, Goto(t, label)
  PROVE  pc'[t] = label
BY DEF Goto, TypeInv, TypeOK, ThreadTypes

LEMMA BeginSweeps ==
  ASSUME ManagerInv, NEW t \in Threads, NEW o \in Ops, NEW s \in Services,
         Begin(t, o, s)
  PROVE  SweepInv'
<1>1. o \in OpKinds
  BY ManagerOpsAssumption
<1>2. /\ \A u \in Threads \ {t} :
            pc'[u] = pc[u] /\ op'[u] = op[u] /\ todo'[u] = todo[u] /\ seen'[u] = seen[u]
      /\ UNCHANGED <<lock, client>>
  BY DEF Begin, Goto, managerVars, ManagerInv, TypeInv, TypeOK, ThreadTypes
<1>3. /\ op'[t] = o
      /\ todo'[t] = IF o \in {"status", "connectAll", "closeAll"} THEN Order ELSE <<s>>
      /\ pc'[t] = CASE o \in {"request", "check", "connectAll"} -> "ensure"
                    [] o \in {"status", "closeAll"}             -> "lockAll"
                    [] OTHER                                    -> "close"
  BY DEF Begin, Goto, ManagerInv, TypeInv, TypeOK, ThreadTypes
<1>4. ~(Len(<<s>>) > 1)
  OBVIOUS
<1>5. CASE o \in {"status", "connectAll", "closeAll"}
  <2>1. (InMethod(t) /\ Surveyed(t) /\ Closed(t))'
    BY <1>3, <1>5 DEF InMethod, Surveyed, Surveying, Closed, ClosingAll
  <2> QED
    BY <1>2, <2>1, ThreadSweeps DEF ManagerInv
<1>6. CASE o \in {"request", "check", "reconnect", "disconnect"}
  <2>1. ~More(t)'
    BY <1>3, <1>4, <1>6 DEF More
  <2>2. (InMethod(t) /\ Surveyed(t) /\ Closed(t))'
    BY <1>3, <1>6, <2>1 DEF InMethod, Surveyed, Surveying, Closed, ClosingAll
  <2> QED
    BY <1>2, <2>2, ThreadSweeps DEF ManagerInv
<1> QED
  BY <1>1, <1>5, <1>6 DEF OpKinds

LEMMA EnsureSweeps ==
  ASSUME ManagerInv, NEW t \in Threads, Ensure(t)
  PROVE  SweepInv'
<1>1. /\ InMethod(t) /\ TypeInv /\ pc[t] = "ensure" /\ lock \in {None, t}
      /\ UNCHANGED <<client, op, todo, seen>>
  BY DEF ManagerInv, SweepInv, Ensure, CanLock
<1>2. PICK label \in {"call", "create"} : Goto(t, label)
  BY DEF Ensure
<1>3. pc'[t] = label
  BY <1>1, <1>2, GotoIs
<1>4. (InMethod(t) /\ Surveyed(t) /\ Closed(t))'
  BY <1>1, <1>3 DEF InMethod, More, Surveyed, Surveying, Closed, ClosingAll
<1> QED
  BY <1>1, <1>2, <1>4, GoesOnSweeps DEF Labels

LEMMA CreateSweeps ==
  ASSUME ManagerInv, NEW t \in Threads, Create(t)
  PROVE  SweepInv'
<1>1. /\ InMethod(t) /\ TypeInv /\ pc[t] = "create" /\ lock = t
      /\ UNCHANGED <<op, todo, seen>> /\ Goto(t, "connect")
  BY DEF ManagerInv, SweepInv, ApiInv, Create
<1>2. pc'[t] = "connect"
  BY <1>1, GotoIs
<1>3. (InMethod(t) /\ Surveyed(t) /\ Closed(t))'
  BY <1>1, <1>2 DEF InMethod, More, Surveyed, Surveying, Closed, ClosingAll
<1> QED
  BY <1>1, <1>3, GoesOnSweeps DEF Labels

LEMMA ConnectSweeps ==
  ASSUME ManagerInv, NEW t \in Threads, Connect(t)
  PROVE  SweepInv'
<1>1. /\ InMethod(t) /\ TypeInv /\ pc[t] = "connect" /\ lock = t /\ UNCHANGED client
  BY DEF ManagerInv, SweepInv, ApiInv, Connect
<1>2. CASE Goto(t, "call") /\ UNCHANGED <<op, todo, answer, seen>>
  <2>1. pc'[t] = "call"
    BY <1>1, <1>2, GotoIs
  <2>2. (InMethod(t) /\ Surveyed(t) /\ Closed(t))'
    BY <1>1, <1>2, <2>1 DEF InMethod, More, Surveyed, Surveying, Closed, ClosingAll
  <2> QED
    BY <1>1, <1>2, <2>2, GoesOnSweeps DEF Labels
<1>3. CASE \E result \in Answers : CallEnds(t, result)
  BY <1>1, <1>3, CallEndsSweeps
<1> QED
  BY <1>2, <1>3 DEF Connect

\* Of the steps that use an API.
LEMMA UseSweeps ==
  ASSUME ManagerInv, NEW t \in Threads, Call(t) \/ Reopen(t) \/ Exchange(t)
  PROVE  SweepInv'
<1>1. /\ InMethod(t) /\ Surveyed(t) /\ TypeInv /\ UNCHANGED client
      /\ pc[t] \in {"call", "reopen", "exchange"}
  BY DEF ManagerInv, SweepInv, Call, Reopen, Exchange
<1>2. CASE \E label \in {"reopen", "exchange"} :
             Goto(t, label) /\ UNCHANGED <<lock, op, todo, seen>>
  <2>1. PICK label \in {"reopen", "exchange"} :
          Goto(t, label) /\ UNCHANGED <<lock, op, todo, seen>>
    BY <1>2
  <2>2. pc'[t] = label
    BY <1>1, <2>1, GotoIs
  <2>3. (InMethod(t) /\ Surveyed(t) /\ Closed(t))'
    BY <1>1, <2>1, <2>2
       DEF InMethod, More, Surveyed, Surveying, Closed, ClosingAll, Ahead, Current
  <2> QED
    BY <1>1, <2>1, <2>3, GoesOnSweeps DEF Labels
<1>3. CASE \E result : CallEnds(t, result)
  BY <1>1, <1>3, CallEndsSweeps
<1>4. CASE Call(t)
  BY <1>2, <1>3, <1>4 DEF Call
<1>5. CASE Reopen(t)
  BY <1>2, <1>3, <1>5 DEF Reopen
<1>6. CASE Exchange(t)
  BY <1>3, <1>6 DEF Exchange
<1> QED
  BY <1>4, <1>5, <1>6

LEMMA LockAllSweeps ==
  ASSUME ManagerInv, NEW t \in Threads, LockAll(t)
  PROVE  SweepInv'
<1>1. /\ InMethod(t) /\ TypeInv /\ pc[t] = "lockAll" /\ lock \in {None, t} /\ lock' = t
      /\ UNCHANGED <<client, op, todo, seen>>
      /\ Goto(t, IF op[t] = "status" THEN "look" ELSE "close")
  BY DEF ManagerInv, SweepInv, LockAll, CanLock
<1>2. pc'[t] = IF op[t] = "status" THEN "look" ELSE "close"
  BY <1>1, GotoIs
<1>3. Services \subseteq Ahead(t)'
  BY <1>1, OrderIsAll DEF InMethod, Ahead
<1>4. (InMethod(t) /\ Surveyed(t) /\ Closed(t))'
  BY <1>1, <1>2, <1>3 DEF InMethod, More, Surveyed, Surveying, Closed, ClosingAll
<1> QED
  BY <1>1, <1>4, GoesOnSweeps DEF Labels

LEMMA LookSweeps ==
  ASSUME ManagerInv, NEW t \in Threads, Look(t)
  PROVE  SweepInv'
<1>1. /\ InMethod(t) /\ Surveyed(t) /\ TypeInv /\ pc[t] = "look" /\ UNCHANGED client
  BY DEF ManagerInv, SweepInv, Look
<1>2. /\ op[t] = "status" /\ lock = t
      /\ \A s \in Services \ Ahead(t) : seen[t][s] => client[s] # 0
  BY <1>1 DEF InMethod, Surveyed, Surveying
<1>3. ASSUME NEW up \in BOOLEAN, Note(t, up), AfterService(t),
             up => client[Current(t)] # 0
      PROVE  SweepInv'
  <2>1. Found(t)
    BY <1>1, <1>2, <1>3, NoteSeen DEF Found
  <2>2. (InMethod(t) /\ Surveyed(t) /\ Closed(t))'
    BY <1>1, <1>2, <1>3, <2>1, AfterServiceSweeps
  <2> QED
    BY <1>1, <1>2, <1>3, <2>2, NoteSeen, AfterServiceOthers, ThreadSweeps DEF ManagerInv
<1>4. Up(Current(t)) => client[Current(t)] # 0
  BY DEF Up
<1>5. CASE Up(Current(t)) /\ Goto(t, "call") /\ UNCHANGED <<lock, op, todo, seen>>
  <2>1. pc'[t] = "call"
    BY <1>1, <1>5, GotoIs
  <2>2. (InMethod(t) /\ Surveyed(t) /\ Closed(t))'
    BY <1>1, <1>2, <1>4, <1>5, <2>1
       DEF InMethod, More, Surveyed, Surveying, Closed, ClosingAll, Ahead, Current
  <2> QED
    BY <1>1, <1>5, <2>2, GoesOnSweeps DEF Labels
<1> QED
  BY <1>3, <1>4, <1>5 DEF Look

\* disconnect_service() leaves no client, and the others theirs.
LEMMA AfterDropSweeps ==
  ASSUME ManagerInv, NEW t \in Threads, AfterDrop(t), pc[t] \in {"close", "forget"},
         lock \in {None, t}, UNCHANGED seen, client'[Current(t)] = 0,
         \A x \in Services \ {Current(t)} : client'[x] = client[x]
  PROVE  SweepInv'
<1>1. InMethod(t) /\ Closed(t) /\ TypeInv
  BY DEF ManagerInv, SweepInv
<1>2. CASE op[t] = "reconnect" /\ Goto(t, "ensure") /\ UNCHANGED <<op, todo>>
  <2>1. pc'[t] = "ensure"
    BY <1>1, <1>2, GotoIs
  <2>2. (InMethod(t) /\ Surveyed(t) /\ Closed(t))'
    BY <1>1, <1>2, <2>1 DEF InMethod, More, Surveyed, Surveying, Closed, ClosingAll
  <2> QED
    BY <1>2, <2>2, GoesOnSweeps DEF Labels
<1>3. CASE AfterService(t)
  <2>1. ASSUME op[t] = "closeAll" PROVE lock = t /\ Emptied(t)
    <3>1. lock = t /\ \A s \in Services \ Ahead(t) : client[s] = 0
      BY <1>1, <2>1 DEF Closed, ClosingAll
    <3> QED
      BY <3>1 DEF Emptied
  <2>2. (InMethod(t) /\ Surveyed(t) /\ Closed(t))'
    BY <1>1, <1>3, <2>1, AfterServiceSweeps DEF InMethod
  <2> QED
    BY <1>1, <1>3, <2>2, AfterServiceOthers, ThreadSweeps DEF ManagerInv
<1> QED
  BY <1>2, <1>3 DEF AfterDrop

LEMMA CloseSweeps ==
  ASSUME ManagerInv, NEW t \in Threads, Close(t)
  PROVE  SweepInv'
<1>1. /\ InMethod(t) /\ Closed(t) /\ TypeInv /\ pc[t] = "close" /\ lock \in {None, t}
      /\ UNCHANGED <<client, seen>>
  BY DEF ManagerInv, SweepInv, Close, CanLock
<1>2. CASE client[Current(t)] = 0 /\ AfterDrop(t)
  BY <1>1, <1>2, AfterDropSweeps
<1>3. CASE Goto(t, "forget") /\ lock' = t /\ UNCHANGED <<op, todo>>
  <2>1. pc'[t] = "forget"
    BY <1>1, <1>3, GotoIs
  <2>2. (InMethod(t) /\ Surveyed(t) /\ Closed(t))'
    BY <1>1, <1>3, <2>1
       DEF InMethod, More, Surveyed, Surveying, Closed, ClosingAll, Ahead
  <2> QED
    BY <1>1, <1>3, <2>2, GoesOnSweeps DEF Labels
<1> QED
  BY <1>2, <1>3 DEF Close

\* What is forgotten was the current service's client; the other services keep theirs.
LEMMA ForgetClears ==
  ASSUME TypeInv, NEW t \in Threads, Forget(t)
  PROVE  /\ Current(t) \in Services /\ client'[Current(t)] = 0
         /\ \A x \in Services \ {Current(t)} : client'[x] = client[x]
BY CurrentType DEF Forget, TypeInv, TypeOK, ManagerTypes

LEMMA ForgetSweeps ==
  ASSUME ManagerInv, NEW t \in Threads, Forget(t)
  PROVE  SweepInv'
<1>1. AfterDrop(t) /\ pc[t] = "forget" /\ lock = t /\ UNCHANGED seen /\ TypeInv
  BY DEF Forget, ManagerInv, ApiInv
<1> QED
  BY <1>1, ForgetClears, AfterDropSweeps

LEMMA QuietSweeps ==
  ASSUME SweepInv, UNCHANGED <<lock, client, pc, op, todo, seen>>
  PROVE  SweepInv'
BY DEF SweepInv, InMethod, More, Surveyed, Surveying, Closed, ClosingAll, Ahead, Current

LEMMA NextManager == ManagerInv /\ [Next]_vars => ManagerInv'
<1> SUFFICES ASSUME ManagerInv, [Next]_vars PROVE ManagerInv'
  OBVIOUS
<1>1. TypeInv' /\ ApiInv'
  BY NextTypes, NextWraps DEF ManagerInv
<1>2. ASSUME NEW t \in Threads, Step(t) PROVE SweepInv'
  BY <1>2, EnsureSweeps, CreateSweeps, ConnectSweeps, UseSweeps, LockAllSweeps,
     LookSweeps, CloseSweeps, ForgetSweeps DEF Step
<1>3. ASSUME NEW c \in Clients, Breaks(c) PROVE SweepInv'
  BY <1>3, QuietSweeps DEF Breaks, managerVars, threadVars, ManagerInv
<1>4. ASSUME UNCHANGED vars PROVE SweepInv'
  BY <1>4, QuietSweeps DEF vars, managerVars, threadVars, ManagerInv
<1>5. ASSUME NEW t \in Threads, NEW o \in Ops, NEW s \in Services, Begin(t, o, s)
      PROVE  SweepInv'
  BY <1>5, BeginSweeps
<1>6. SweepInv'
  BY <1>2, <1>3, <1>4, <1>5 DEF Next, AllCallsMade
<1> QED
  BY <1>1, <1>6 DEF ManagerInv

LEMMA InitManager == Init => ManagerInv
BY InitTypes, InitWraps, InitSweeps DEF ManagerInv

\* The inductive invariant of the sweeps over all services: the lock is held from
\* the first service to the last, and a step of another thread takes no client
\* from, and gives none to, a service that has been dealt with.
THEOREM SweepInvAlways == Spec => []SweepInv
<1>1. ManagerInv => SweepInv
  BY DEF ManagerInv
<1> QED
  BY <1>1, InitManager, NextManager, PTL DEF Spec

----------------------------------------------------------------------------
(* What has been found or done when a method returns.                       *)

\* A method that deals with all services returns after the last.
LEMMA AfterServiceEnds ==
  ASSUME TypeInv, NEW t \in Threads, AfterService(t), pc'[t] = "idle"
  PROVE  Ahead(t) = {Current(t)}
<1>1. pc'[t] = CASE op[t] = "connectAll" /\ More(t)  -> "ensure"
                 [] op[t] = "connectAll" /\ ~More(t) -> "lockAll"
                 [] op[t] # "connectAll" /\ More(t)  ->
                      IF op[t] = "status" THEN "look" ELSE "close"
                 [] op[t] # "connectAll" /\ ~More(t) -> "idle"
  BY DEF AfterService, More, Goto, TypeInv, TypeOK, ThreadTypes
<1>2. ~More(t)
  BY <1>1
<1> QED
  BY <1>2, LastAhead

\* Only the thread's own step ends its method, by dealing with a last service.
LEMMA EndsByItself ==
  ASSUME ManagerInv, [Next]_vars, NEW t \in Threads, Ends(t)
  PROVE  AfterService(t) /\ Step(t)
<1>1. TypeInv
  BY DEF ManagerInv
<1>2. ASSUME NEW u \in Threads \ {t}, Step(u) PROVE FALSE
  <2>1. pc'[t] = pc[t]
    <3>1. CASE \E label : Goto(u, label)
      BY <1>1, <3>1 DEF Goto, TypeInv, TypeOK, ThreadTypes
    <3>2. CASE AfterService(u)
      BY <1>1, <3>2, AfterServiceTypes
    <3> QED
      BY <1>2, <3>1, <3>2 DEF Step, Ensure, Create, Connect, Call, Reopen, Exchange,
         LockAll, Look, Close, Forget, AfterDrop, CallEnds
  <2> QED
    BY <2>1 DEF Ends
<1>3. ASSUME NEW u \in Threads, NEW o \in Ops, NEW s \in Services, Begin(u, o, s)
      PROVE  FALSE
  BY <1>1, <1>3 DEF Begin, Goto, Ends, TypeInv, TypeOK, ThreadTypes
<1>4. ASSUME NEW c \in Clients, Breaks(c) PROVE FALSE
  BY <1>4 DEF Breaks, threadVars, Ends
<1>5. ASSUME UNCHANGED vars PROVE FALSE
  BY <1>5 DEF vars, threadVars, Ends
<1>6. Step(t)
  BY <1>2, <1>3, <1>4, <1>5 DEF Next, AllCallsMade
<1>7. ASSUME NEW label \in {"call", "create", "connect", "exchange", "reopen", "look",
                            "close", "ensure", "forget"},
             Goto(t, label)
      PROVE  FALSE
  BY <1>1, <1>7, GotoIs DEF Ends
<1>8. AfterService(t)
  BY <1>6, <1>7 DEF Step, Ensure, Create, Connect, Call, Reopen, Exchange, LockAll,
     Look, Close, Forget, AfterDrop, CallEnds
<1> QED
  BY <1>6, <1>8

LEMMA ClearStep ==
  ASSUME ManagerInv, [Next]_vars, NEW t \in Threads, op[t] = "closeAll", Ends(t),
         NEW s \in Services
  PROVE  client'[s] = 0
<1>1. AfterService(t) /\ Step(t) /\ TypeInv /\ InMethod(t) /\ Closed(t)
  BY EndsByItself DEF ManagerInv, SweepInv
<1>2. pc[t] \in {"lockAll", "close", "forget"}
  BY <1>1 DEF InMethod, Step, Ensure, Create, Connect, Call, Reopen, Exchange, LockAll,
     Look, Close, Forget
<1>3. Close(t) \/ Forget(t)
  BY <1>1, <1>2, GotoIs DEF Ends, Step, Ensure, Create, Connect, Call, Reopen, Exchange,
     LockAll, Look
<1>4. Ahead(t) = {Current(t)}
  BY <1>1, AfterServiceEnds DEF Ends
<1>5. \A x \in Services \ {Current(t)} : client[x] = 0
  BY <1>1, <1>2, <1>3, <1>4 DEF Closed, ClosingAll, Close, Forget
<1>6. CASE Close(t)
  <2>1. client[Current(t)] = 0 /\ UNCHANGED client
    BY <1>1, <1>6, GotoIs DEF Close, Ends
  <2> QED
    BY <1>5, <2>1
<1>7. CASE Forget(t)
  BY <1>1, <1>5, <1>7, ForgetClears
<1> QED
  BY <1>3, <1>6, <1>7

\* When close_all() returns no service has a client: it closes them all within one
\* critical section, in which _ensure_client() of another thread makes none.
THEOREM CloseAllClearsCorrect == Spec => CloseAllClears
<1>1. ManagerInv /\ [Next]_vars =>
        [\A t \in Threads : op[t] = "closeAll" /\ Ends(t)
           => \A s \in Services : client'[s] = 0]_vars
  BY ClearStep
<1> QED
  BY <1>1, InitManager, NextManager, PTL DEF Spec, CloseAllClears

LEMMA StatusStep ==
  ASSUME ManagerInv, [Next]_vars, NEW t \in Threads, op[t] = "status", Ends(t),
         NEW s \in Services, seen'[t][s]
  PROVE  client[s] # 0
<1>1. AfterService(t) /\ Step(t) /\ TypeInv /\ InMethod(t) /\ Surveyed(t)
  BY EndsByItself DEF ManagerInv, SweepInv
<1>2. pc[t] \in {"call", "reopen", "exchange", "look", "lockAll"}
  BY <1>1 DEF InMethod, Step, Ensure, Create, Connect, Call, Reopen, Exchange, LockAll,
     Look, Close, Forget
<1>3. pc[t] # "lockAll"
  <2>1. ~LockAll(t)
    BY <1>1, GotoIs DEF Ends, LockAll
  <2> QED
    BY <1>1, <2>1 DEF Step, Ensure, Create, Connect, Call, Reopen, Exchange, Look,
       Close, Forget
<1>4. /\ pc[t] # "look" => client[Current(t)] # 0
      /\ \A x \in Services \ Ahead(t) : seen[t][x] => client[x] # 0
  BY <1>1, <1>2, <1>3 DEF Surveyed, Surveying
<1>5. Ahead(t) = {Current(t)}
  BY <1>1, AfterServiceEnds DEF Ends
<1>6. PICK up : Note(t, up) /\ (up => client[Current(t)] # 0)
  <2>1. CASE pc[t] = "look"
    <3>1. Look(t)
      BY <1>1, <2>1 DEF Step, Ensure, Create, Connect, Call, Reopen, Exchange, LockAll,
         Close, Forget
    <3>2. ~Goto(t, "call")
      BY <1>1, GotoIs DEF Ends
    <3> QED
      BY <3>1, <3>2 DEF Look, Up
  <2>2. CASE pc[t] # "look"
    <3>1. Call(t) \/ Reopen(t) \/ Exchange(t)
      BY <1>1, <1>2, <1>3, <2>2 DEF Step, Ensure, Create, Connect, LockAll, Look,
         Close, Forget
    <3>2. ~Goto(t, "exchange") /\ ~Goto(t, "reopen")
      BY <1>1, GotoIs DEF Ends
    <3>3. \E result : CallEnds(t, result)
      BY <3>1, <3>2 DEF Call, Reopen, Exchange
    <3>4. Note(t, TRUE)
      BY <3>3 DEF CallEnds
    <3> QED
      BY <1>4, <2>2, <3>4
  <2> QED
    BY <2>1, <2>2
<1> QED
  BY <1>1, <1>4, <1>5, <1>6, NoteSeen

\* get_status() shows one instant: every service it calls connected still has its
\* client when the method returns.
THEOREM StatusIsSnapshotCorrect == Spec => StatusIsSnapshot
<1>1. ManagerInv /\ [Next]_vars =>
        [\A t \in Threads : op[t] = "status" /\ Ends(t)
           => \A s \in Services : seen'[t][s] => client[s] # 0]_vars
  BY StatusStep
<1> QED
  BY <1>1, InitManager, NextManager, PTL DEF Spec, StatusIsSnapshot
----------------------------------------------------------------------------
(* A client that disconnect_service() has dropped.                          *)

\* Every client is one service's: made for it, and never given to another.
ClientsInv ==
    /\ \A s \in Services : client[s] \in 0..created
    /\ \A s, x \in Services : client[s] = client[x] /\ client[s] # 0 => s = x

FullInv == ManagerInv /\ ClientsInv

LEMMA CreateKeepsClients ==
  ASSUME ManagerInv, ClientsInv, NEW t \in Threads, Create(t)
  PROVE  ClientsInv'
<1>1. CASE UNCHANGED <<client, created>>
  BY <1>1 DEF ClientsInv
<1>2. CASE /\ created' = created + 1
           /\ client' = [client EXCEPT ![Current(t)] = created + 1]
  <2>1. /\ Current(t) \in Services /\ created \in Nat
        /\ client \in [Services -> 0..MaxClients]
    BY CurrentType DEF ManagerInv, TypeInv, TypeOK, ManagerTypes
  <2>2. /\ client'[Current(t)] = created + 1
        /\ \A s \in Services \ {Current(t)} : client'[s] = client[s]
    BY <1>2, <2>1
  <2> QED
    BY <1>2, <2>1, <2>2 DEF ClientsInv
<1> QED
  BY <1>1, <1>2 DEF Create

LEMMA ForgetKeepsClients ==
  ASSUME ManagerInv, ClientsInv, NEW t \in Threads, Forget(t)
  PROVE  ClientsInv'
<1>1. created \in Nat /\ UNCHANGED created
  BY DEF Forget, ManagerInv, TypeInv, TypeOK, ManagerTypes
<1> QED
  BY <1>1, ForgetClears DEF ClientsInv, ManagerInv

LEMMA NextClients == ManagerInv /\ ClientsInv /\ [Next]_vars => ClientsInv'
<1> SUFFICES ASSUME ManagerInv, ClientsInv, [Next]_vars PROVE ClientsInv'
  OBVIOUS
<1>1. ASSUME UNCHANGED <<client, created>> PROVE ClientsInv'
  BY <1>1 DEF ClientsInv
<1>2. ASSUME NEW t \in Threads, Step(t) PROVE ClientsInv'
  <2>1. ASSUME \/ Ensure(t) \/ Connect(t) \/ Call(t) \/ Reopen(t) \/ Exchange(t)
               \/ LockAll(t) \/ Look(t) \/ Close(t)
        PROVE  ClientsInv'
    BY <1>1, <2>1 DEF Ensure, Connect, Call, Reopen, Exchange, LockAll, Look, Close
  <2> QED
    BY <1>2, <2>1, CreateKeepsClients, ForgetKeepsClients DEF Step
<1>3. ASSUME NEW t \in Threads, NEW o \in Ops, NEW s \in Services, Begin(t, o, s)
      PROVE  ClientsInv'
  BY <1>1, <1>3 DEF Begin, managerVars
<1>4. ASSUME NEW c \in Clients, Breaks(c) PROVE ClientsInv'
  BY <1>1, <1>4 DEF Breaks, managerVars
<1>5. ASSUME UNCHANGED vars PROVE ClientsInv'
  BY <1>1, <1>5 DEF vars, managerVars
<1> QED
  BY <1>2, <1>3, <1>4, <1>5 DEF Next, AllCallsMade

LEMMA NextFull == FullInv /\ [Next]_vars => FullInv'
BY NextManager, NextClients DEF FullInv

LEMMA InitFull == Init => FullInv
<1>1. Init => ClientsInv
  BY DEF Init, ClientsInv
<1> QED
  BY <1>1, InitManager DEF FullInv

Forgotten(c)  == c \in 1..created /\ \A s \in Services : client[s] # c
Forgetting(c) == \E t \in Threads : pc[t] = "forget" /\ client[Current(t)] = c

LEMMA DroppedIs == \A c : Dropped(c) <=> Forgotten(c) \/ Forgetting(c)
BY DEF Dropped, Forgotten, Forgetting

\* While a client is being forgotten nobody else can take the lock.
LEMMA ForgettingLocks ==
  ASSUME FullInv, NEW t \in Threads, NEW c, lock \in {None, t}, pc[t] # "forget"
  PROVE  ~Forgetting(c)
BY DEF Forgetting, FullInv, ManagerInv, ApiInv

\* What DroppedClosed allows of one client.
StaysDropped(c) ==
    /\ Dropped(c)' /\ Connected(c)' => Dropped(c) /\ (Connected(c) \/ Reopening(c))
    /\ Dropped(c) => Dropped(c)' /\ \A t \in Threads : handle'[t] = c => handle[t] = c

\* A thread that neither makes nor drops a client changes nothing about who is
\* dropped; it takes only a client that is not, and opens one that is not, that was
\* up already, or that it opens again.
LEMMA AsideStaysDropped ==
  ASSUME NEW t \in Threads, NEW c \in Clients, UNCHANGED <<client, created>>,
         pc[t] # "forget", pc'[t] # "forget",
         \A u \in Threads \ {t} :
            pc'[u] = pc[u] /\ todo'[u] = todo[u] /\ handle'[u] = handle[u],
         handle'[t] \in {handle[t], 0} \/ (handle'[t] = c => ~Dropped(c)),
         link'[c] = link[c] \/ Connected(c) \/ Reopening(c) \/ ~Dropped(c)
  PROVE  StaysDropped(c)
<1>1. Forgotten(c)' <=> Forgotten(c)
  BY DEF Forgotten
<1>2. Forgetting(c)' <=> Forgetting(c)
  BY DEF Forgetting, Current
<1>3. c # 0
  BY DEF Clients
<1>4. Dropped(c)' <=> Dropped(c)
  BY <1>1, <1>2, DroppedIs DEF Dropped, Forgotten, Forgetting
<1>5. Dropped(c) => \A u \in Threads : handle'[u] = c => handle[u] = c
  BY <1>3
<1> QED
  BY <1>4, <1>5 DEF StaysDropped, Connected

\* Ends of a call, and of a disconnect_service(), as AsideStaysDropped needs them.
LEMMA CallEndsAside ==
  ASSUME TypeInv, NEW t \in Threads, NEW result, CallEnds(t, result)
  PROVE  /\ pc'[t] # "forget" /\ handle'[t] = 0
         /\ \A u \in Threads \ {t} :
               pc'[u] = pc[u] /\ todo'[u] = todo[u] /\ handle'[u] = handle[u]
<1>1. AfterService(t) /\ handle' = [handle EXCEPT ![t] = 0]
  BY DEF CallEnds
<1> QED
  BY <1>1, AfterServiceTypes DEF TypeInv, TypeOK, ThreadTypes

LEMMA GotoAside ==
  ASSUME TypeInv, NEW t \in Threads, NEW label, Goto(t, label), UNCHANGED todo
  PROVE  \A u \in Threads \ {t} : pc'[u] = pc[u] /\ todo'[u] = todo[u]
BY DEF Goto, TypeInv, TypeOK, ThreadTypes

LEMMA EnsureStaysDropped ==
  ASSUME FullInv, NEW t \in Threads, Ensure(t), NEW c \in Clients
  PROVE  StaysDropped(c)
<1>1. /\ TypeInv /\ lock \in {None, t} /\ pc[t] = "ensure" /\ Current(t) \in Services
      /\ UNCHANGED <<client, created, link, todo>>
  BY CurrentType DEF Ensure, CanLock, FullInv, ManagerInv
<1>2. PICK label \in {"call", "create"}, h \in {api[Current(t)], client[Current(t)]} :
        /\ Goto(t, label) /\ handle' = [handle EXCEPT ![t] = h]
        /\ h = client[Current(t)] \/ h = 0
  BY <1>1 DEF Ensure, FullInv, ManagerInv, ApiInv, ApiWrapsClient
<1>3. /\ pc'[t] = label /\ handle'[t] = h
      /\ \A u \in Threads \ {t} :
            pc'[u] = pc[u] /\ todo'[u] = todo[u] /\ handle'[u] = handle[u]
  BY <1>1, <1>2, GotoAside, GotoIs DEF TypeInv, TypeOK, ThreadTypes
<1>4. handle'[t] = c => ~Dropped(c)
  <2>1. ~Forgetting(c)
    BY <1>1, ForgettingLocks
  <2>2. c # 0
    BY DEF Clients
  <2>3. client[Current(t)] = c => ~Forgotten(c)
    BY <1>1 DEF Forgotten
  <2> QED
    BY <1>2, <1>3, <2>1, <2>2, <2>3, DroppedIs
<1> QED
  BY <1>1, <1>3, <1>4, AsideStaysDropped

LEMMA CreateStaysDropped ==
  ASSUME FullInv, NEW t \in Threads, Create(t), NEW c \in Clients
  PROVE  StaysDropped(c)
<1>1. /\ TypeInv /\ lock = t /\ pc[t] = "create" /\ Current(t) \in Services
      /\ handle[t] = client[Current(t)] /\ UNCHANGED <<link, todo, lock>>
      /\ created \in Nat /\ client \in [Services -> 0..MaxClients]
  BY CurrentType DEF Create, FullInv, ManagerInv, ApiInv, TypeInv, TypeOK, ManagerTypes
<1>2. /\ pc'[t] = "connect"
      /\ \A u \in Threads \ {t} :
            pc'[u] = pc[u] /\ todo'[u] = todo[u] /\ handle'[u] = handle[u]
  BY <1>1, GotoAside, GotoIs DEF Create, TypeInv, TypeOK, ThreadTypes
<1>3. CASE UNCHANGED <<client, created, handle>>
  BY <1>1, <1>2, <1>3, AsideStaysDropped
<1>4. CASE /\ handle[t] = 0 /\ created' = created + 1
           /\ client' = [client EXCEPT ![Current(t)] = created + 1]
           /\ handle' = [handle EXCEPT ![t] = created + 1]
  <2>1. /\ client'[Current(t)] = created + 1 /\ client[Current(t)] = 0
        /\ \A s \in Services \ {Current(t)} : client'[s] = client[s]
        /\ handle'[t] = created + 1
    BY <1>1, <1>4 DEF TypeInv, TypeOK, ThreadTypes
  <2>2. c \in Nat \ {0}
    BY DEF Clients
  <2>3. Forgotten(c)' <=> Forgotten(c)
    <3>1. ASSUME Forgotten(c) PROVE Forgotten(c)'
      BY <1>1, <1>4, <2>1, <2>2, <3>1 DEF Forgotten
    <3>2. ASSUME Forgotten(c)' PROVE Forgotten(c)
      <4>1. c \in 1..(created + 1) /\ \A s \in Services : client'[s] # c
        BY <1>4, <3>2 DEF Forgotten
      <4>2. c \in 1..created
        BY <1>1, <2>1, <4>1
      <4> QED
        BY <2>1, <2>2, <4>1, <4>2 DEF Forgotten
    <3> QED
      BY <3>1, <3>2
  <2>4. ~Forgetting(c)
    BY <1>1, ForgettingLocks
  <2>5. ~Forgetting(c)'
    BY <1>1, <1>2, CreateWraps, NextFull
       DEF Forgetting, FullInv, ManagerInv, ApiInv
  <2>6. Dropped(c)' <=> Dropped(c)
    BY <2>3, <2>4, <2>5, DroppedIs DEF Dropped, Forgotten, Forgetting
  <2>7. Dropped(c) => \A u \in Threads : handle'[u] = c => handle[u] = c
    BY <1>1, <1>2, <2>1, <2>4, DroppedIs DEF Forgotten
  <2> QED
    BY <1>1, <2>6, <2>7 DEF StaysDropped, Connected
<1> QED
  BY <1>3, <1>4 DEF Create

LEMMA ConnectStaysDropped ==
  ASSUME FullInv, NEW t \in Threads, Connect(t), NEW c \in Clients
  PROVE  StaysDropped(c)
<1>1. /\ TypeInv /\ lock = t /\ pc[t] = "connect" /\ Current(t) \in Services
      /\ handle[t] = client[Current(t)] /\ UNCHANGED <<client, created>>
      /\ link \in [Clients -> Links] /\ api \in [Services -> 0..MaxClients]
  BY CurrentType DEF Connect, FullInv, ManagerInv, ApiInv, TypeInv, TypeOK, ManagerTypes
<1>2. PICK result \in Answers :
        /\ TryConnect(handle[t], result)
        /\ IF result = "ok"
           THEN /\ api' = [api EXCEPT ![Current(t)] = IF @ = 0 THEN handle[t] ELSE @]
                /\ handle' = [handle EXCEPT ![t] = api'[Current(t)]]
                /\ Goto(t, "call")
                /\ lock' = None
                /\ UNCHANGED <<op, todo, answer, seen>>
           ELSE CallEnds(t, result) /\ UNCHANGED api
  BY DEF Connect
<1>3. link'[c] = link[c] \/ ~Dropped(c)
  <2>1. ~Forgetting(c)
    BY <1>1, ForgettingLocks
  <2>2. handle[t] = c => ~Forgotten(c)
    BY <1>1 DEF Forgotten
  <2> QED
    BY <1>1, <1>2, <2>1, <2>2, DroppedIs DEF TryConnect
<1>4. CASE result = "ok"
  <2>1. api'[Current(t)] = handle[t]
    BY <1>1, <1>2, <1>4 DEF FullInv, ManagerInv, ApiInv, ApiWrapsClient
  <2>2. /\ pc'[t] = "call" /\ handle'[t] = handle[t]
        /\ \A u \in Threads \ {t} :
              pc'[u] = pc[u] /\ todo'[u] = todo[u] /\ handle'[u] = handle[u]
    BY <1>1, <1>2, <1>4, <2>1, GotoAside, GotoIs DEF TypeInv, TypeOK, ThreadTypes
  <2> QED
    BY <1>1, <1>3, <2>2, AsideStaysDropped
<1>5. CASE result # "ok"
  BY <1>1, <1>2, <1>3, <1>5, CallEndsAside, AsideStaysDropped
<1> QED
  BY <1>4, <1>5

\* Of the steps that use an API: only a Reopen opens a closed client.
LEMMA UseStaysDropped ==
  ASSUME FullInv, NEW t \in Threads, Call(t) \/ Reopen(t) \/ Exchange(t), NEW c \in Clients
  PROVE  StaysDropped(c)
<1>1. /\ TypeInv /\ pc[t] \in {"call", "reopen", "exchange"} /\ UNCHANGED <<client, created>>
      /\ link \in [Clients -> Links]
  BY DEF Call, Reopen, Exchange, FullInv, ManagerInv, TypeInv, TypeOK, ManagerTypes
<1>2. link'[c] = link[c] \/ Connected(c) \/ Reopening(c)
  <2>1. CASE Call(t)
    BY <2>1 DEF Call
  <2>2. CASE Reopen(t)
    BY <1>1, <2>2 DEF Reopen, Reopening
  <2>3. CASE Exchange(t)
    <3>1. PICK end \in ExchangeEnds(link[handle[t]]) :
            link' = [link EXCEPT ![handle[t]] = end[1]]
      BY <2>3 DEF Exchange
    <3>2. link[handle[t]] = "off" => end[1] = "off"
      BY <3>1 DEF ExchangeEnds
    <3> QED
      BY <1>1, <3>1, <3>2 DEF Connected
  <2> QED
    BY <2>1, <2>2, <2>3
<1>3. CASE \E label \in {"reopen", "exchange"} : Goto(t, label) /\ UNCHANGED <<todo, handle>>
  BY <1>1, <1>2, <1>3, GotoAside, GotoIs, AsideStaysDropped
<1>4. CASE \E result : CallEnds(t, result)
  BY <1>1, <1>2, <1>4, CallEndsAside, AsideStaysDropped
<1> QED
  BY <1>3, <1>4 DEF Call, Reopen, Exchange

LEMMA LookStaysDropped ==
  ASSUME FullInv, NEW t \in Threads, Look(t), NEW c \in Clients
  PROVE  StaysDropped(c)
<1>1. /\ TypeInv /\ pc[t] = "look" /\ UNCHANGED <<client, created, link>>
      /\ lock = t /\ Current(t) \in Services
  BY CurrentType DEF Look, FullInv, ManagerInv, SweepInv, InMethod, Surveyed, Surveying
<1>2. CASE AfterService(t) /\ UNCHANGED handle
  BY <1>1, <1>2, AfterServiceTypes, AsideStaysDropped
<1>3. CASE /\ api[Current(t)] # 0 /\ handle' = [handle EXCEPT ![t] = api[Current(t)]]
           /\ Goto(t, "call") /\ UNCHANGED todo
  <2>1. /\ pc'[t] = "call" /\ handle'[t] = client[Current(t)]
        /\ \A u \in Threads \ {t} :
              pc'[u] = pc[u] /\ todo'[u] = todo[u] /\ handle'[u] = handle[u]
    BY <1>1, <1>3, GotoAside, GotoIs
       DEF FullInv, ManagerInv, ApiInv, ApiWrapsClient, TypeInv, TypeOK, ThreadTypes
  <2>2. ~Forgetting(c)
    BY <1>1, ForgettingLocks
  <2>3. handle'[t] = c => ~Dropped(c)
    BY <1>1, <2>1, <2>2, DroppedIs DEF Forgotten
  <2> QED
    BY <1>1, <2>1, <2>3, AsideStaysDropped
<1> QED
  BY <1>2, <1>3 DEF Look

\* disconnect_service() closes the client it is about to forget.
LEMMA CloseStaysDropped ==
  ASSUME FullInv, NEW t \in Threads, Close(t), NEW c \in Clients
  PROVE  StaysDropped(c)
<1>1. /\ TypeInv /\ pc[t] = "close" /\ UNCHANGED <<client, created, handle>>
      /\ link \in [Clients -> Links] /\ lock \in {None, t}
  BY DEF Close, CanLock, FullInv, ManagerInv, TypeInv, TypeOK, ManagerTypes
<1>2. CASE AfterDrop(t) /\ UNCHANGED link
  BY <1>1, <1>2, AfterDropIs, AsideStaysDropped
<1>3. CASE /\ link' = [link EXCEPT ![client[Current(t)]] = "off"]
           /\ Goto(t, "forget") /\ UNCHANGED todo
  <2>1. /\ pc'[t] = "forget"
        /\ \A u \in Threads \ {t} : pc'[u] = pc[u] /\ todo'[u] = todo[u]
    BY <1>1, <1>3, GotoAside, GotoIs
  <2>2. ~Forgetting(c)
    BY <1>1, ForgettingLocks
  <2>3. Forgetting(c)' => c = client[Current(t)]
    BY <1>1, <1>3, <2>1, <2>2 DEF Forgetting, Current
  <2>4. Forgotten(c)' <=> Forgotten(c)
    BY <1>1 DEF Forgotten
  <2>5. Connected(c)' => c # client[Current(t)] /\ Connected(c)
    BY <1>1, <1>3 DEF Connected
  <2>6. Dropped(c)' <=> Forgotten(c)' \/ Forgetting(c)'
    BY DEF Dropped, Forgotten, Forgetting
  <2> QED
    BY <1>1, <2>2, <2>3, <2>4, <2>5, <2>6, DroppedIs DEF StaysDropped
<1> QED
  BY <1>2, <1>3 DEF Close

\* What it forgets it has closed, and nobody else's client goes with it.
LEMMA ForgetStaysDropped ==
  ASSUME FullInv, NEW t \in Threads, Forget(t), NEW c \in Clients
  PROVE  StaysDropped(c)
<1>1. /\ TypeInv /\ pc[t] = "forget" /\ lock = t /\ UNCHANGED <<created, handle, link>>
      /\ created \in Nat /\ c \in Nat \ {0}
  BY DEF Forget, FullInv, ManagerInv, ApiInv, TypeInv, TypeOK, ManagerTypes, Clients
<1>2. /\ Current(t) \in Services /\ client'[Current(t)] = 0
      /\ \A x \in Services \ {Current(t)} : client'[x] = client[x]
  BY <1>1, ForgetClears
<1>3. ~Forgetting(c)'
  <2>1. /\ pc'[t] # "forget"
        /\ \A u \in Threads \ {t} : pc'[u] = pc[u]
    BY <1>1, AfterDropIs DEF Forget
  <2>2. \A u \in Threads \ {t} : pc[u] # "forget"
    BY <1>1 DEF FullInv, ManagerInv, ApiInv
  <2> QED
    BY <2>1, <2>2 DEF Forgetting
<1>4. Forgetting(c) <=> c = client[Current(t)]
  BY <1>1 DEF Forgetting, FullInv, ManagerInv, ApiInv
<1>5. Forgotten(c)' <=> Forgotten(c) \/ Forgetting(c)
  <2>1. CASE c = client[Current(t)]
    <3>1. c \in 1..created /\ \A x \in Services \ {Current(t)} : client[x] # c
      BY <1>1, <1>2, <2>1 DEF FullInv, ClientsInv
    <3> QED
      BY <1>1, <1>2, <1>4, <2>1, <3>1 DEF Forgotten
  <2>2. CASE c # client[Current(t)]
    BY <1>1, <1>2, <1>4, <2>2 DEF Forgotten
  <2> QED
    BY <2>1, <2>2
<1>6. Dropped(c)' <=> Forgotten(c)' \/ Forgetting(c)'
  BY DEF Dropped, Forgotten, Forgetting
<1> QED
  BY <1>1, <1>3, <1>5, <1>6, DroppedIs DEF StaysDropped, Connected

LEMMA NextStaysDropped ==
  ASSUME FullInv, [Next]_vars, NEW c \in Clients
  PROVE  StaysDropped(c)
<1>1. TypeInv
  BY DEF FullInv, ManagerInv
<1>2. ASSUME UNCHANGED <<client, created, pc, todo, handle>>,
             link'[c] = link[c] \/ Connected(c)
      PROVE  StaysDropped(c)
  <2>1. Dropped(c)' <=> Dropped(c)
    BY <1>2 DEF Dropped, Current
  <2> QED
    BY <1>2, <2>1 DEF StaysDropped, Connected
<1>3. ASSUME NEW t \in Threads, LockAll(t) PROVE StaysDropped(c)
  <2>1. pc'[t] # "forget" /\ pc[t] # "forget" /\ UNCHANGED <<client, created, handle, link>>
    BY <1>1, <1>3, GotoIs DEF LockAll
  <2>2. \A u \in Threads \ {t} : pc'[u] = pc[u] /\ todo'[u] = todo[u]
    BY <1>1, <1>3, GotoAside DEF LockAll
  <2> QED
    BY <2>1, <2>2, AsideStaysDropped
<1>4. ASSUME NEW t \in Threads, Step(t) PROVE StaysDropped(c)
  BY <1>3, <1>4, EnsureStaysDropped, CreateStaysDropped, ConnectStaysDropped,
     UseStaysDropped, LookStaysDropped, CloseStaysDropped, ForgetStaysDropped DEF Step
<1>5. ASSUME NEW t \in Threads, NEW o \in Ops, NEW s \in Services, Begin(t, o, s)
      PROVE  StaysDropped(c)
  <2>1. /\ pc'[t] # "forget" /\ pc[t] # "forget"
        /\ UNCHANGED <<client, created, handle, link>>
        /\ \A u \in Threads \ {t} : pc'[u] = pc[u] /\ todo'[u] = todo[u]
    BY <1>1, <1>5 DEF Begin, Goto, managerVars, TypeInv, TypeOK, ThreadTypes
  <2> QED
    BY <2>1, AsideStaysDropped
<1>6. ASSUME NEW d \in Clients, Breaks(d) PROVE StaysDropped(c)
  <2>1. link \in [Clients -> Links] /\ (link'[c] = link[c] \/ Connected(c))
    BY <1>1, <1>6 DEF Breaks, Connected, TypeInv, TypeOK, ManagerTypes
  <2> QED
    BY <1>2, <1>6, <2>1 DEF Breaks, managerVars, threadVars
<1>7. ASSUME UNCHANGED vars PROVE StaysDropped(c)
  BY <1>2, <1>7 DEF vars, managerVars, threadVars
<1> QED
  BY <1>4, <1>5, <1>6, <1>7 DEF Next, AllCallsMade

\* A client that disconnect_service(), reconnect_service() or close_all() drops is
\* closed; from then on no other thread gets it and the manager never takes it back,
\* and nothing opens it but a call that had its API already and reconnects by itself,
\* which may be before the manager forgets it.
THEOREM DroppedClosedCorrect == Spec => DroppedClosed
<1>1. FullInv /\ [Next]_vars =>
        [\A c \in Clients :
           /\ Dropped(c)' /\ Connected(c)' => Dropped(c) /\ (Connected(c) \/ Reopening(c))
           /\ Dropped(c) => Dropped(c)' /\ \A t \in Threads : handle'[t] = c => handle[t] = c
        ]_vars
  BY NextStaysDropped DEF StaysDropped
<1> QED
  BY <1>1, InitFull, NextFull, PTL DEF Spec, DroppedClosed
=============================================================================
