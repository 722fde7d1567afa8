----------------------------- MODULE CallboxManager -----------------------------
(****************************************************************************)
(* The manager of the REST service (service/manager.py): one WebSocket      *)
(* client and one API wrapper per Amarisoft service, made on first use,     *)
(* shared by the threads that call the manager and guarded by its RLock.    *)
(*                                                                          *)
(* A client is what WebSocketClient shows of itself over a direct           *)
(* connection (ClientEnds): whether it reads as connected, and what its     *)
(* calls end in.                                                            *)
(* The lock is released before the API is called, so that calls of several  *)
(* threads, and a disconnect_service, meet on one client.                   *)
(****************************************************************************)
EXTENDS Naturals, Sequences, ClientEnds

CONSTANTS
    Threads,        \* the threads that use the manager
    None,           \* Python's None
    Services,       \* the services
    Order,          \* the order in which the methods for all services take them
    Versioned,      \* the services whose API has a version(): the MME
    Ops,            \* the methods the threads call
    AutoReconnect,  \* settings.auto_reconnect
    MaxCalls,       \* bound: calls of one thread
    MaxClients      \* bound: client objects created

OpKinds == {"request", "check", "reconnect", "disconnect", "status", "connectAll", "closeAll"}

ASSUME ManagerThreadsAssumption == None \notin Threads
ASSUME OrderAssumption == /\ Order \in Seq(Services) /\ Order # << >>
                          /\ \A s \in Services : \E i \in DOMAIN Order : Order[i] = s
ASSUME VersionedAssumption == Versioned \subseteq Services
ASSUME ManagerOpsAssumption == Ops \subseteq OpKinds
ASSUME AutoReconnectAssumption == AutoReconnect \in BOOLEAN
ASSUME ManagerBoundAssumption == MaxCalls \in Nat /\ MaxClients \in Nat

VARIABLES
    \* the manager
    lock,       \* holder of _lock
    client,     \* _<service>_client, 0 for None
    api,        \* the client that _<service>_api wraps, 0 for None
    created,    \* client objects created so far
    link,       \* state of each client's connection
    \* the threads
    pc, op, calls,
    todo,       \* services the current method still has to deal with
    handle,     \* client of the API object the thread has, or is connecting
    answer,     \* how the last request ended
    seen        \* `connected` of the statuses the current method has collected

managerVars == <<lock, client, api, created>>
threadVars  == <<pc, op, calls, todo, handle, answer, seen>>
vars        == <<managerVars, link, threadVars>>

Clients == 1..MaxClients

Labels  == {"idle", "ensure", "create", "connect", "call", "reopen", "exchange",
            "lockAll", "look", "close", "forget"}

Init ==
    /\ lock = None /\ created = 0
    /\ client = [s \in Services |-> 0]
    /\ api = [s \in Services |-> 0]
    /\ link = [c \in Clients |-> "off"]
    /\ pc = [t \in Threads |-> "idle"]
    /\ op = [t \in Threads |-> "status"]
    /\ calls = [t \in Threads |-> 0]
    /\ todo = [t \in Threads |-> Order]
    /\ handle = [t \in Threads |-> 0]
    /\ answer = [t \in Threads |-> "none"]
    /\ seen = [t \in Threads |-> [s \in Services |-> FALSE]]

----------------------------------------------------------------------------
(* client.connected and client.connect().                                   *)

Connected(c) == link[c] # "off"

\* The service has a client that reads as connected.
Up(s) == IF client[s] = 0 THEN FALSE ELSE Connected(client[s])

\* connect() of a client that reads as connected does nothing.
TryConnect(c, result) ==
    \/ Connected(c) /\ result = "ok" /\ UNCHANGED link
    \/ /\ ~Connected(c)
       /\ \E end \in ConnectEnds :
             link' = [link EXCEPT ![c] = end[1]] /\ result = end[2]

\* The network resets a connection; the client notices when it uses it.
Breaks(c) ==
    /\ link[c] = "on"
    /\ link' = [link EXCEPT ![c] = "dead"]
    /\ UNCHANGED <<managerVars, threadVars>>

----------------------------------------------------------------------------
(* The lock, and how a method goes on.                                      *)

\* The RLock: free, or held by this thread.
CanLock(t) == lock \in {None, t}

Current(t) == Head(todo[t])

Goto(t, label) == pc' = [pc EXCEPT ![t] = label]

Note(t, up) == seen' = [seen EXCEPT ![t][Current(t)] = up]

\* Mutation: get_status takes the lock for each service anew.
AfterServicePerService(t) ==
    IF Len(todo[t]) > 1
    THEN /\ todo' = [todo EXCEPT ![t] = Tail(@)]
         /\ Goto(t, IF op[t] = "connectAll" THEN "ensure" ELSE "lockAll")
         /\ lock' = None /\ UNCHANGED op
    ELSE IF op[t] = "connectAll"
    THEN /\ op' = [op EXCEPT ![t] = "status"]
         /\ todo' = [todo EXCEPT ![t] = Order]
         /\ Goto(t, "lockAll") /\ lock' = None
    ELSE Goto(t, "idle") /\ lock' = None /\ UNCHANGED <<op, todo>>

\* Mutation: the services still to be dealt with run out.
AfterServiceDrained(t) ==
    LET more == Len(todo[t]) > 1
        all  == op[t] = "connectAll"
    IN
    /\ todo' = [todo EXCEPT ![t] = Tail(@)]
    /\ op' = [op EXCEPT ![t] = IF all /\ ~more THEN "status" ELSE @]
    /\ Goto(t, CASE all /\ more      -> "ensure"
                 [] all /\ ~more     -> "lockAll"
                 [] ~all /\ more     -> IF op[t] = "status" THEN "look" ELSE "close"
                 [] ~all /\ ~more    -> "idle")
    /\ lock' = IF ~all /\ more THEN lock ELSE IF lock = t THEN None ELSE lock

\* A method for all services takes the next one, inside the lock unless it is
\* connect_all(), which ends with a get_status(); a method for one service ends.
AfterService(t) ==
    LET more == Len(todo[t]) > 1
        all  == op[t] = "connectAll"
    IN
    /\ todo' = [todo EXCEPT ![t] = IF more THEN Tail(@) ELSE IF all THEN Order ELSE @]
    /\ op' = [op EXCEPT ![t] = IF all /\ ~more THEN "status" ELSE @]
    /\ Goto(t, CASE all /\ more      -> "ensure"
                 [] all /\ ~more     -> "lockAll"
                 [] ~all /\ more     -> IF op[t] = "status" THEN "look" ELSE "close"
                 [] ~all /\ ~more    -> "idle")
    /\ lock' = IF ~all /\ more THEN lock ELSE IF lock = t THEN None ELSE lock

\* A request ends in an HTTP answer; check_service() takes every exception for a
\* service that is not connected; get_status() had noted it as connected.
CallEnds(t, result) ==
    /\ handle' = [handle EXCEPT ![t] = 0]
    /\ answer' = [answer EXCEPT ![t] = IF op[t] = "request" THEN result ELSE @]
    /\ \/ op[t] = "request" /\ UNCHANGED seen
       \/ op[t] \in {"check", "reconnect", "connectAll"} /\ Note(t, result = "ok")
       \/ op[t] = "status" /\ Note(t, TRUE)
    /\ AfterService(t)

----------------------------------------------------------------------------
(* The methods.                                                             *)

Begin(t, o, s) ==
    /\ pc[t] = "idle" /\ calls[t] < MaxCalls
    /\ op' = [op EXCEPT ![t] = o]
    /\ calls' = [calls EXCEPT ![t] = @ + 1]
    /\ todo' = [todo EXCEPT ![t] = IF o \in {"status", "connectAll", "closeAll"}
                                   THEN Order ELSE <<s>>]
    /\ Goto(t, CASE o \in {"request", "check", "connectAll"} -> "ensure"
                 [] o \in {"status", "closeAll"}             -> "lockAll"
                 [] OTHER                                    -> "close")
    /\ seen' = [seen EXCEPT ![t] = [x \in Services |-> FALSE]]
    /\ answer' = [answer EXCEPT ![t] = "none"]
    /\ UNCHANGED <<managerVars, link, handle>>

\* _ensure_client(): under the lock, an API whose client is connected is returned
\* and the lock released.
Ensure(t) ==
    LET s == Current(t) IN
    /\ pc[t] = "ensure" /\ CanLock(t)
    /\ IF api[s] # 0 /\ Up(s)
       THEN handle' = [handle EXCEPT ![t] = api[s]] /\ Goto(t, "call") /\ UNCHANGED lock
       ELSE handle' = [handle EXCEPT ![t] = client[s]] /\ Goto(t, "create") /\ lock' = t
    /\ UNCHANGED <<client, api, created, link, op, calls, todo, answer, seen>>

\* A service without a client gets one.
Create(t) ==
    /\ pc[t] = "create"
    /\ \/ handle[t] # 0 /\ UNCHANGED <<client, created, handle>>
       \/ /\ handle[t] = 0 /\ created < MaxClients
          /\ created' = created + 1
          /\ client' = [client EXCEPT ![Current(t)] = created + 1]
          /\ handle' = [handle EXCEPT ![t] = created + 1]
    /\ Goto(t, "connect")
    /\ UNCHANGED <<lock, api, link, op, calls, todo, answer, seen>>

\* It is connected under the lock.  A client that could not be connected stays,
\* an API that exists is kept.
Connect(t) ==
    LET s == Current(t) IN
    /\ pc[t] = "connect"
    /\ \E result \in Answers :
          /\ TryConnect(handle[t], result)
          /\ IF result = "ok"
             THEN /\ api' = [api EXCEPT ![s] = IF @ = 0 THEN handle[t] ELSE @]
                  /\ handle' = [handle EXCEPT ![t] = api'[s]]
                  /\ Goto(t, "call")
                  /\ lock' = None
                  /\ UNCHANGED <<op, todo, answer, seen>>
             ELSE CallEnds(t, result) /\ UNCHANGED api
    /\ UNCHANGED <<client, created, calls>>

\* The API is called, outside the lock unless get_status() calls it.  Only the
\* MME's has a version(); the others raise an AttributeError.
Call(t) ==
    /\ pc[t] = "call"
    /\ \/ /\ op[t] # "request" /\ Current(t) \notin Versioned
          /\ CallEnds(t, "crash") /\ UNCHANGED link
       \/ /\ op[t] = "request" \/ Current(t) \in Versioned
          /\ \/ /\ Connected(handle[t])
                /\ Goto(t, "exchange")
                /\ UNCHANGED <<link, lock, op, todo, handle, answer, seen>>
             \/ /\ ~Connected(handle[t]) /\ AutoReconnect
                /\ Goto(t, "reopen")
                /\ UNCHANGED <<link, lock, op, todo, handle, answer, seen>>
             \/ /\ ~Connected(handle[t]) /\ ~AutoReconnect
                /\ CallEnds(t, "unavailable") /\ UNCHANGED link
    /\ UNCHANGED <<client, api, created, calls>>

\* Mutation: the client tries again until it is connected.
ReopenUntilUp(t) ==
    /\ pc[t] = "reopen"
    /\ \E end \in ConnectEnds \cup {<<link[handle[t]], "ok">>} :
          /\ end[1] # "off" \/ end[2] # "ok"
          /\ link' = [link EXCEPT ![handle[t]] = end[1]]
          /\ Goto(t, IF end[2] = "ok" THEN "exchange" ELSE "reopen")
    /\ UNCHANGED <<lock, op, todo, handle, answer, seen, client, api, created, calls>>

\* The client's own reconnect(): close() and connect(), which finds a client that
\* another thread has connected in between, or connects it anew.
Reopen(t) ==
    /\ pc[t] = "reopen"
    /\ \E end \in ConnectEnds \cup {<<link[handle[t]], "ok">>} :
          /\ end[1] # "off" \/ end[2] # "ok"
          /\ link' = [link EXCEPT ![handle[t]] = end[1]]
          /\ IF end[2] = "ok"
             THEN Goto(t, "exchange") /\ UNCHANGED <<lock, op, todo, handle, answer, seen>>
             ELSE CallEnds(t, end[2])
    /\ UNCHANGED <<client, api, created, calls>>

Exchange(t) ==
    /\ pc[t] = "exchange"
    /\ \E end \in ExchangeEnds(link[handle[t]]) :
          /\ link' = [link EXCEPT ![handle[t]] = end[1]]
          /\ CallEnds(t, end[2])
    /\ UNCHANGED <<client, api, created, calls>>

----------------------------------------------------------------------------
(* get_status(), disconnect_service() and close_all().                      *)

LockAll(t) ==
    /\ pc[t] = "lockAll" /\ CanLock(t)
    /\ lock' = t
    /\ Goto(t, IF op[t] = "status" THEN "look" ELSE "close")
    /\ UNCHANGED <<client, api, created, link, op, calls, todo, handle, answer, seen>>

Look(t) ==
    LET s == Current(t) IN
    /\ pc[t] = "look"
    /\ \/ ~Up(s) /\ Note(t, FALSE) /\ AfterService(t) /\ UNCHANGED handle
       \/ Up(s) /\ api[s] = 0 /\ Note(t, TRUE) /\ AfterService(t) /\ UNCHANGED handle
       \/ /\ Up(s) /\ api[s] # 0
          /\ handle' = [handle EXCEPT ![t] = api[s]]
          /\ Goto(t, "call") /\ UNCHANGED <<lock, op, todo, seen>>
    /\ UNCHANGED <<client, api, created, link, calls, answer>>

\* disconnect_service(), by itself, in a reconnect_service(), which goes on to
\* check_service(), or in close_all().
AfterDrop(t) ==
    IF op[t] = "reconnect"
    THEN Goto(t, "ensure") /\ lock' = (IF lock = t THEN None ELSE lock) /\ UNCHANGED <<op, todo>>
    ELSE AfterService(t)

\* Mutation: the client is closed before the lock is taken, as close() blocks.
CloseOutsideLock(t) ==
    LET c == client[Current(t)] IN
    /\ pc[t] = "close" /\ CanLock(t)
    /\ \/ c = 0 /\ AfterDrop(t) /\ UNCHANGED link
       \/ /\ c # 0
          /\ link' = [link EXCEPT ![c] = "off"]
          /\ Goto(t, "forget") /\ UNCHANGED <<lock, op, todo>>
    /\ UNCHANGED <<client, api, created, calls, handle, answer, seen>>

\* Under the lock the client is closed first. Who has its API object needs no lock,
\* and may reconnect it before it is forgotten.
Close(t) ==
    LET c == client[Current(t)] IN
    /\ pc[t] = "close" /\ CanLock(t)
    /\ \/ c = 0 /\ AfterDrop(t) /\ UNCHANGED link
       \/ /\ c # 0
          /\ link' = [link EXCEPT ![c] = "off"]
          /\ Goto(t, "forget") /\ lock' = t /\ UNCHANGED <<op, todo>>
    /\ UNCHANGED <<client, api, created, calls, handle, answer, seen>>

\* Mutation: the API outlives the client.
ForgetClientOnly(t) ==
    /\ pc[t] = "forget"
    /\ client' = [client EXCEPT ![Current(t)] = 0]
    /\ AfterDrop(t)
    /\ UNCHANGED <<api, created, link, calls, handle, answer, seen>>

Forget(t) ==
    /\ pc[t] = "forget"
    /\ client' = [client EXCEPT ![Current(t)] = 0]
    /\ api' = [api EXCEPT ![Current(t)] = 0]
    /\ AfterDrop(t)
    /\ UNCHANGED <<created, link, calls, handle, answer, seen>>

----------------------------------------------------------------------------
Step(t) ==
    \/ Ensure(t) \/ Create(t) \/ Connect(t) \/ Call(t) \/ Reopen(t) \/ Exchange(t)
    \/ LockAll(t) \/ Look(t) \/ Close(t) \/ Forget(t)

\* The bound on the calls is reached: the threads rest, which is no deadlock.
AllCallsMade ==
    /\ \A t \in Threads : pc[t] = "idle" /\ calls[t] = MaxCalls
    /\ UNCHANGED vars

Next ==
    \/ \E t \in Threads : Step(t) \/ \E o \in Ops, s \in Services : Begin(t, o, s)
    \/ \E c \in Clients : Breaks(c)
    \/ AllCallsMade

Spec == Init /\ [][Next]_vars

\* Every thread runs, and every blocking socket operation has a timeout.  The lock
\* owes nobody anything while others take it.
FairSpec == Spec /\ \A t \in Threads : WF_vars(Step(t))

----------------------------------------------------------------------------
(* Properties                                                               *)

ManagerTypes ==
    /\ lock \in Threads \cup {None}
    /\ created \in 0..MaxClients
    /\ client \in [Services -> 0..MaxClients]
    /\ api \in [Services -> 0..MaxClients]
    /\ link \in [Clients -> Links]

ThreadTypes ==
    /\ pc \in [Threads -> Labels]
    /\ op \in [Threads -> OpKinds]
    /\ calls \in [Threads -> 0..MaxCalls]
    /\ todo \in [Threads -> Seq(Services) \ {<< >>}]
    /\ handle \in [Threads -> 0..MaxClients]
    /\ answer \in [Threads -> Answers]
    /\ seen \in [Threads -> [Services -> BOOLEAN]]

\* Every value is of its type; a method under way always has a service to deal with.
TypeOK == ManagerTypes /\ ThreadTypes

\* An API object works on the client the manager holds for its service: none
\* survives a disconnect or a client that was replaced.
ApiWrapsClient == \A s \in Services : api[s] # 0 => api[s] = client[s]

\* The strengthening of ApiWrapsClient: a client is made, connected and wrapped, or
\* closed and forgotten, by the one thread that holds the lock; the one it makes is
\* the manager's all that time.
ApiInv ==
    /\ ApiWrapsClient
    /\ \A t \in Threads : pc[t] \in {"create", "connect", "forget"} =>
          /\ lock = t
          /\ pc[t] # "forget" => handle[t] = client[Current(t)]

\* disconnect_service() has closed the client, or has forgotten it too.
Dropped(c) ==
    \/ c \in 1..created /\ \A s \in Services : client[s] # c
    \/ \E t \in Threads : pc[t] = "forget" /\ client[Current(t)] = c

Reopening(c) == \E t \in Threads : handle[t] = c /\ pc[t] = "reopen"

\* A client that disconnect_service() drops is closed, is nobody's who has not had it
\* before, and never the manager's again. Only a call that was under way, and
\* reconnects by itself, opens it again, be it before or after it is forgotten: then
\* nobody closes it.
DroppedClosed ==
    [][\A c \in Clients :
          /\ Dropped(c)' /\ Connected(c)' => Dropped(c) /\ (Connected(c) \/ Reopening(c))
          /\ Dropped(c) => Dropped(c)' /\ \A t \in Threads : handle'[t] = c => handle[t] = c
      ]_vars

Ends(t) == pc[t] # "idle" /\ pc'[t] = "idle"

\* When close_all() returns, no service has a client: none was made behind it.
CloseAllClears ==
    [][\A t \in Threads : op[t] = "closeAll" /\ Ends(t)
          => \A s \in Services : client'[s] = 0]_vars

\* get_status() shows one instant: the services it calls connected all have a
\* client when it returns.
StatusIsSnapshot ==
    [][\A t \in Threads : op[t] = "status" /\ Ends(t)
          => \A s \in Services : seen'[t][s] => client[s] # 0]_vars

\* Every method returns or raises, and gives the lock back.
MethodsEnd == \A t \in Threads : pc[t] # "idle" ~> (pc[t] = "idle" /\ lock # t)

\* check_service() tells of a connection that is there: one that it has made, or
\* found, and that the API works on.
CheckSeesConnection ==
    [][\A t \in Threads : op[t] = "check" /\ Ends(t)
          => LET c == api'[Current(t)] IN
             c # 0 /\ link'[c] = "on" => seen'[t][Current(t)]]_vars
=============================================================================
