---------------------------- MODULE WebSocketClient ----------------------------
(****************************************************************************)
(* The WebSocket client of one Amarisoft service                            *)
(* (client/websocket/client.py), used by one or more threads, with the      *)
(* network connections it opens and the service at their other end.         *)
(*                                                                          *)
(* A call is a few steps of the thread that makes it: each step is a piece  *)
(* of the method between two points where another thread, the network or    *)
(* the service can act.  The service and the websocket-client library are   *)
(* external: they are modelled from how the client uses them.               *)
(****************************************************************************)
EXTENDS Naturals, Sequences

CONSTANTS
    Threads,        \* the threads that share the client
    None,           \* Python's None
    Ops,            \* the methods the threads call
    Method,         \* connection_method: "direct" or "proxy"
    Password,       \* a password is configured
    AutoReconnect,  \* auto_reconnect
    MaxSkip,        \* _MAX_SKIP
    BatchSize,      \* messages of a send_batch
    ReplyOrder,     \* how the service answers: "inorder", "anyorder", "array"
    MaxCalls,       \* bound: calls of one thread
    MaxConns,       \* bound: connections opened
    MaxQueue        \* bound: messages buffered when an event is added

OpKinds == {"send", "batch", "raw", "listen", "connect", "reconnect", "close"}

ASSUME ThreadsAssumption == None \notin Threads
ASSUME MethodAssumption == Method \in {"direct", "proxy"}
ASSUME OpsAssumption == Ops \subseteq OpKinds
ASSUME FlagAssumption == Password \in BOOLEAN /\ AutoReconnect \in BOOLEAN
ASSUME SizeAssumption == MaxSkip \in Nat \ {0} /\ BatchSize \in Nat \ {0}
ASSUME OrderAssumption == ReplyOrder \in {"inorder", "anyorder", "array"}
ASSUME BoundAssumption == MaxCalls \in Nat /\ MaxConns \in Nat /\ MaxQueue \in Nat

VARIABLES
    \* the client object
    sock,           \* connection held in _ws or _tunnel_sock, 0 if none
    wsConnected,    \* the library's ws.connected, per connection
    ready,          \* _ready
    messageId,      \* _message_id
    lock,           \* holder of _lock
    \* the threads
    pc, op, calls,  \* where each thread is, the method it called, its calls so far
    base,           \* the value of _message_id a thread read under the lock
    want,           \* ids whose responses a thread still waits for, in order
    skip,           \* messages skipped for the id it waits for
    on,             \* connection a thread is blocked reading, 0 if none
    got,            \* requests whose responses the current call has collected
    outcome,        \* how the last call ended
    \* the connections and the service behind them
    conns,          \* connections opened so far
    link, inbox,    \* state of each connection; messages on their way to the client
    pending,        \* requests sent on it that the service has not answered
    greeted, auth,  \* the service has sent its first message; authentication
    execs           \* how often the service executed each request

clientVars == <<sock, wsConnected, ready, messageId, lock>>
threadVars == <<pc, op, calls, base, want, skip, on, got, outcome>>
netVars    == <<conns, link, inbox, pending, greeted, auth, execs>>
vars       == <<clientVars, threadVars, netVars>>

Conns   == 1..MaxConns
Request == [by : Threads, call : 1..MaxCalls, part : 1..BatchSize]
Entry   == [id : Nat, req : Request]
Notice  == [kind : {"ready", "other", "event", "auth"}, ok : BOOLEAN, id : {0}, req : {None}]
Answer  == [kind : {"reply"}, ok : BOOLEAN, id : Nat, req : Request]
Message == Notice \cup Answer

Unsolicited(kind) == [kind |-> kind, ok |-> TRUE, id |-> 0, req |-> None]
AuthReply(ok)     == [kind |-> "auth", ok |-> ok, id |-> 0, req |-> None]
Reply(e, ok)      == [kind |-> "reply", ok |-> ok, id |-> e.id, req |-> e.req]

Links  == {"open", "eof", "reset", "garbled", "closed"}
Labels == {"idle", "ensure", "close", "connect", "open", "handshake", "ready",
           "authenticate", "auth", "acquire", "transmit", "reply", "transmitRaw",
           "raw", "listen"}
Receiving  == {"ready", "auth", "reply", "raw", "listen"}
Critical   == {"transmit", "reply"}
Outcomes   == {"none", "ok", "error", "timeout", "lost", "denied", "crash"}

Init ==
    /\ sock = 0 /\ ready = FALSE /\ messageId = 0 /\ lock = None
    /\ wsConnected = [c \in Conns |-> FALSE]
    /\ pc = [t \in Threads |-> "idle"]
    /\ op = [t \in Threads |-> "close"]
    /\ calls = [t \in Threads |-> 0]
    /\ base = [t \in Threads |-> 0]
    /\ want = [t \in Threads |-> << >>]
    /\ skip = [t \in Threads |-> 0]
    /\ on = [t \in Threads |-> 0]
    /\ got = [t \in Threads |-> << >>]
    /\ outcome = [t \in Threads |-> "ok"]
    /\ conns = 0
    /\ link = [c \in Conns |-> "closed"]
    /\ inbox = [c \in Conns |-> << >>]
    /\ pending = [c \in Conns |-> {}]
    /\ greeted = [c \in Conns |-> FALSE]
    /\ auth = [c \in Conns |-> "none"]
    /\ execs = [r \in Request |-> 0]

----------------------------------------------------------------------------
(* The client's view of its connection, and how a call ends.               *)

\* Mutation: any handle counts as connected.
ConnectedIfHandle == sock # 0

\* Mutation: _ready decides for the library's connections too.
ConnectedIfReady == sock # 0 /\ ready

\* The property `connected`: through a tunnel the flag _ready, else the
\* library's own idea of the socket, whatever _ready says.
Connected ==
    /\ sock # 0
    /\ IF Method = "proxy" THEN ready ELSE wsConnected[sock]

Goto(t, label) == pc' = [pc EXCEPT ![t] = label]

\* The call returns or raises; `with self._lock` releases the lock.
Finish(t, result) ==
    /\ pc' = [pc EXCEPT ![t] = "idle"]
    /\ outcome' = [outcome EXCEPT ![t] = result]
    /\ on' = [on EXCEPT ![t] = 0]
    /\ want' = [want EXCEPT ![t] = << >>]
    /\ skip' = [skip EXCEPT ![t] = 0]
    /\ base' = [base EXCEPT ![t] = 0]
    /\ lock' = IF lock = t THEN None ELSE lock
    /\ UNCHANGED <<op, calls>>

\* close(): _ready, the handle and the socket behind it, with what is still
\* unread.
CloseHandle(unread) ==
    /\ ready' = FALSE
    /\ sock' = 0
    /\ link' = IF sock = 0 THEN link ELSE [link EXCEPT ![sock] = "closed"]
    /\ inbox' = IF sock = 0 THEN unread ELSE [unread EXCEPT ![sock] = << >>]
    /\ wsConnected' = IF sock = 0 THEN wsConnected
                      ELSE [wsConnected EXCEPT ![sock] = FALSE]

\* Where a call goes once _ensure_connected or connect has succeeded.
AfterConnect(t) ==
    CASE op[t] \in {"send", "batch"} -> "acquire"
      [] op[t] = "raw"               -> "transmitRaw"
      [] op[t] = "listen"            -> "listen"
      [] OTHER                       -> "idle"

\* connect() returns: the call is over, or the send it belongs to goes on.
ConnectReturns(t) ==
    /\ Goto(t, AfterConnect(t))
    /\ outcome' = [outcome EXCEPT ![t] = IF AfterConnect(t) = "idle" THEN "ok" ELSE @]
    /\ on' = [on EXCEPT ![t] = 0]
    /\ UNCHANGED <<op, calls, base, want, skip, got, lock>>

----------------------------------------------------------------------------
(* Calls: send, send_batch, send_raw, listen, connect, reconnect, close.    *)

Call(t, o) ==
    /\ pc[t] = "idle" /\ calls[t] < MaxCalls
    /\ Goto(t, CASE o = "connect" -> "connect"
                 [] o \in {"close", "reconnect"} -> "close"
                 [] OTHER -> "ensure")
    /\ op' = [op EXCEPT ![t] = o]
    /\ calls' = [calls EXCEPT ![t] = @ + 1]
    /\ got' = [got EXCEPT ![t] = << >>]
    /\ outcome' = [outcome EXCEPT ![t] = "none"]
    /\ UNCHANGED <<base, want, skip, on, clientVars, netVars>>

\* _ensure_connected(), outside the lock.
EnsureConnected(t) ==
    /\ pc[t] = "ensure"
    /\ \/ Connected /\ ConnectReturns(t)
       \/ /\ ~Connected /\ AutoReconnect
          /\ Goto(t, "close")
          /\ UNCHANGED <<op, calls, base, want, skip, on, got, outcome, lock>>
       \/ ~Connected /\ ~AutoReconnect /\ Finish(t, "lost") /\ UNCHANGED got
    /\ UNCHANGED <<sock, wsConnected, ready, messageId, netVars>>

\* close(); inside reconnect() the thread goes on to connect().
Close(t) ==
    /\ pc[t] = "close"
    /\ CloseHandle(inbox)
    /\ \/ op[t] = "close" /\ Finish(t, "ok")
       \/ /\ op[t] # "close"
          /\ Goto(t, "connect")
          /\ UNCHANGED <<op, calls, base, want, skip, on, outcome, lock>>
    /\ UNCHANGED <<messageId, got, conns, pending, greeted, auth, execs>>

----------------------------------------------------------------------------
(* connect()                                                                *)

\* A client that already reads as connected returns a ready of its own.
Connect(t) ==
    /\ pc[t] = "connect"
    /\ IF Connected THEN ConnectReturns(t)
       ELSE /\ Goto(t, "open")
            /\ UNCHANGED <<op, calls, base, want, skip, on, got, outcome, lock>>
    /\ UNCHANGED <<sock, wsConnected, ready, messageId, netVars>>

\* The TCP connection (and the proxy's CONNECT) succeeds.  The handle is
\* overwritten: the code does not close what it held.
Open(t) ==
    /\ pc[t] = "open" /\ conns < MaxConns
    /\ conns' = conns + 1
    /\ sock' = conns + 1
    /\ link' = [link EXCEPT ![conns + 1] = "open"]
    /\ wsConnected' = [wsConnected EXCEPT ![conns + 1] = TRUE]
    /\ Goto(t, IF Method = "proxy" THEN "handshake" ELSE "ready")
    /\ UNCHANGED <<ready, messageId, lock, op, calls, base, want, skip, on, got,
                   outcome, inbox, pending, greeted, auth, execs>>

\* It fails.  Directly, _ws is already a new, unconnected object; through a
\* proxy _tunnel_sock is untouched.
OpenFails(t) ==
    /\ pc[t] = "open"
    /\ sock' = IF Method = "proxy" THEN sock ELSE 0
    /\ Finish(t, "lost")
    /\ UNCHANGED <<wsConnected, ready, messageId, got, netVars>>

\* The WebSocket handshake over the tunnel: accepted; refused (the client
\* closes); or broken by an OSError that connect() does not catch, so that
\* _tunnel_sock stays set.
Handshake(t) ==
    /\ pc[t] = "handshake"
    /\ \/ /\ Goto(t, "ready")
          /\ UNCHANGED <<op, calls, base, want, skip, on, outcome, lock, sock, ready,
                         wsConnected, link, inbox>>
       \/ CloseHandle(inbox) /\ Finish(t, "lost")
       \/ Finish(t, "crash") /\ UNCHANGED <<sock, ready, wsConnected, link, inbox>>
    /\ UNCHANGED <<messageId, got, conns, pending, greeted, auth, execs>>

----------------------------------------------------------------------------
(* Sending and receiving on whatever the handle holds at that moment.       *)

Writable == sock # 0 /\ link[sock] \in {"open", "eof", "garbled"}

\* A write to a connection the peer has closed is accepted, reaches nobody and
\* is answered by a reset, which discards what was still unread.
Written ==
    IF link[sock] = "eof"
    THEN /\ link' = [link EXCEPT ![sock] = "reset"]
         /\ inbox' = [inbox EXCEPT ![sock] = << >>]
    ELSE UNCHANGED <<link, inbox>>

\* The requests of a frame that reaches the service.
Submit(entries) ==
    pending' = [pending EXCEPT ![sock] = IF link[sock] = "eof" THEN @ ELSE @ \cup entries]

\* Mutation: the failed write leaves _ready as it was.
WriteFailsReady(t) ==
    /\ ~Writable
    /\ Finish(t, IF Method = "proxy" /\ sock # 0 THEN "lost" ELSE "crash")
    /\ UNCHANGED <<sock, wsConnected, ready, got, netVars>>

\* Without a connection _ws is None, or directly an object whose open failed;
\* the library rejects the use of one with an exception of its own.
Unconnected(t, result) ==
    \/ ready' = ready /\ Finish(t, "crash")
    \/ Method = "direct" /\ ready' = FALSE /\ Finish(t, result)

\* A write that cannot be done: through a tunnel the OSError is turned into an
\* AmariConnectionError and clears _ready; directly it escapes as it is.
WriteFails(t) ==
    /\ ~Writable
    /\ \/ sock = 0 /\ Unconnected(t, "lost")
       \/ sock # 0 /\ Method = "proxy" /\ ready' = FALSE /\ Finish(t, "lost")
       \/ sock # 0 /\ Method = "direct" /\ ready' = ready /\ Finish(t, "crash")
    /\ UNCHANGED <<sock, wsConnected, got, netVars>>

\* _recv() reads the handle once, then blocks on that connection.
BeginRecv(t) ==
    /\ pc[t] \in Receiving /\ on[t] = 0
    /\ \/ sock = 0 /\ Unconnected(t, IF pc[t] = "listen" THEN "ok" ELSE "lost")
       \/ /\ sock # 0
          /\ on' = [on EXCEPT ![t] = sock]
          /\ UNCHANGED <<ready, pc, op, calls, base, want, skip, outcome, lock>>
    /\ UNCHANGED <<sock, wsConnected, messageId, got, netVars>>

CanTake(t) ==
    /\ on[t] # 0
    /\ link[on[t]] \in {"open", "eof"}
    /\ inbox[on[t]] # << >>

Taken(t)  == Head(inbox[on[t]])
Unread(t) == [inbox EXCEPT ![on[t]] = Tail(@)]

Take(t) ==
    /\ CanTake(t)
    /\ inbox' = Unread(t)
    /\ UNCHANGED <<conns, pending, greeted, auth, execs>>

\* Mutation: a send that times out is tried again.
RecvTimeoutRetry(t) ==
    /\ pc[t] \in Receiving /\ on[t] # 0
    /\ link[on[t]] \in {"open", "garbled"} /\ inbox[on[t]] = << >>
    /\ Goto(t, IF pc[t] = "reply" THEN "transmit" ELSE "idle")
    /\ on' = [on EXCEPT ![t] = 0]
    /\ UNCHANGED <<op, calls, base, want, skip, got, outcome, clientVars, netVars>>

\* Nothing arrives in time.  listen() with a duration goes on, without one it
\* returns; connect() and send() raise and close nothing.
RecvTimeout(t) ==
    /\ pc[t] \in Receiving /\ on[t] # 0
    /\ link[on[t]] \in {"open", "garbled"} /\ inbox[on[t]] = << >>
    /\ \/ pc[t] # "listen" /\ Finish(t, "timeout")
       \/ pc[t] = "listen" /\ Finish(t, "ok")
    /\ UNCHANGED <<sock, wsConnected, ready, messageId, got, netVars>>

\* The tunnel's reader times out inside a frame: the bytes it had are gone and
\* what follows is no longer read at a frame boundary.
TimeoutInsideFrame(t) ==
    /\ Method = "proxy"
    /\ pc[t] \in Receiving /\ CanTake(t)
    /\ link' = [link EXCEPT ![on[t]] = "garbled"]
    /\ inbox' = [inbox EXCEPT ![on[t]] = << >>]
    /\ Finish(t, IF pc[t] = "listen" THEN "ok" ELSE "timeout")
    /\ UNCHANGED <<sock, wsConnected, ready, messageId, got, conns, pending, greeted,
                   auth, execs>>

\* A read ends in an error.  At the peer's close the library marks its object
\* unconnected, the tunnel's reader clears _ready for a close frame but not for
\* a bare end of file.  A reset escapes as an OSError from the library and
\* clears _ready in a tunnel; so does a socket another thread has closed.
\* listen() returns when the connection fails.
RecvFails(t) ==
    LET c == on[t]
        failed == IF pc[t] = "listen" THEN "ok" ELSE "lost"
    IN
    /\ pc[t] \in Receiving /\ c # 0
    /\ \/ /\ link[c] = "eof" /\ inbox[c] = << >>
          /\ ready' \in {ready, FALSE}
          /\ wsConnected' = [wsConnected EXCEPT ![c] = FALSE]
          /\ Finish(t, failed)
       \/ /\ link[c] = "reset"
          /\ IF Method = "proxy" THEN ready' = FALSE /\ Finish(t, failed)
             ELSE ready' = ready /\ Finish(t, "crash")
          /\ UNCHANGED wsConnected
       \/ /\ link[c] = "closed"
          /\ ready' = FALSE /\ Finish(t, failed)
          /\ UNCHANGED wsConnected
       \/ /\ link[c] = "garbled"
          /\ Finish(t, failed)
          /\ UNCHANGED <<ready, wsConnected>>
    /\ UNCHANGED <<sock, messageId, got, netVars>>

----------------------------------------------------------------------------
(* The rest of connect(): the ready message and the authentication.         *)

RecvReady(t) ==
    /\ pc[t] = "ready" /\ CanTake(t)
    /\ IF Taken(t).kind = "ready"
       THEN /\ Take(t)
            /\ IF Password
               THEN /\ Goto(t, "authenticate")
                    /\ on' = [on EXCEPT ![t] = 0]
                    /\ UNCHANGED <<op, calls, base, want, skip, got, outcome, lock, ready>>
               ELSE ready' = TRUE /\ ConnectReturns(t)
            /\ UNCHANGED <<sock, wsConnected, link>>
       ELSE /\ CloseHandle(Unread(t)) /\ Finish(t, "lost")
            /\ UNCHANGED <<got, conns, pending, greeted, auth, execs>>
    /\ UNCHANGED messageId

Authenticate(t) ==
    /\ pc[t] = "authenticate"
    /\ \/ /\ Writable /\ Written
          /\ auth' = [auth EXCEPT ![sock] =
                          IF @ = "none" /\ link[sock] # "eof" THEN "asked" ELSE @]
          /\ Goto(t, "auth")
          /\ UNCHANGED <<op, calls, base, want, skip, on, got, outcome, lock, sock,
                         wsConnected, ready, conns, pending, greeted, execs>>
       \/ WriteFails(t)
    /\ UNCHANGED messageId

\* Mutation: a client that is refused stays connected.
RecvAuthUnclosed(t) ==
    /\ pc[t] = "auth" /\ CanTake(t)
    /\ Take(t)
    /\ IF Taken(t).ok
       THEN ready' = TRUE /\ ConnectReturns(t)
       ELSE ready' = ready /\ Finish(t, "denied") /\ UNCHANGED got
    /\ UNCHANGED <<sock, wsConnected, link, messageId>>

\* The next message, whatever it is, is the answer to the authentication.
RecvAuth(t) ==
    /\ pc[t] = "auth" /\ CanTake(t)
    /\ IF Taken(t).ok
       THEN /\ Take(t)
            /\ ready' = TRUE /\ ConnectReturns(t)
            /\ UNCHANGED <<sock, wsConnected, link>>
       ELSE /\ CloseHandle(Unread(t)) /\ Finish(t, "denied")
            /\ UNCHANGED <<got, conns, pending, greeted, auth, execs>>
    /\ UNCHANGED messageId

----------------------------------------------------------------------------
(* send() and send_batch(), under the lock; send_raw() and listen(), not.   *)

Parts(t) == IF op[t] = "batch" THEN BatchSize ELSE 1

Own(t, i) == [by |-> t, call |-> calls[t], part |-> i]

\* Mutation: the lock is not waited for.
AcquireUnlocked(t) ==
    /\ pc[t] = "acquire"
    /\ lock' = t
    /\ base' = [base EXCEPT ![t] = messageId]
    /\ Goto(t, "transmit")
    /\ UNCHANGED <<sock, wsConnected, ready, messageId, op, calls, want, skip, on, got,
                   outcome, netVars>>

\* The lock is taken and _message_id read.
Acquire(t) ==
    /\ pc[t] = "acquire" /\ lock = None
    /\ lock' = t
    /\ base' = [base EXCEPT ![t] = messageId]
    /\ Goto(t, "transmit")
    /\ UNCHANGED <<sock, wsConnected, ready, messageId, op, calls, want, skip, on, got,
                   outcome, netVars>>

\* The ids are assigned and the frame is written.
Transmit(t) ==
    /\ pc[t] = "transmit"
    /\ messageId' = base[t] + Parts(t)
    /\ \/ /\ Writable /\ Written
          /\ Submit({[id |-> base[t] + i, req |-> Own(t, i)] : i \in 1..Parts(t)})
          /\ want' = [want EXCEPT ![t] = [i \in 1..Parts(t) |-> base[t] + i]]
          /\ Goto(t, "reply")
          /\ UNCHANGED <<op, calls, base, skip, on, got, outcome, lock, sock,
                         wsConnected, ready, conns, greeted, auth, execs>>
       \/ WriteFails(t)

\* Mutation: the next message is the response, whatever its id.
RecvAny(t) ==
    /\ pc[t] = "reply" /\ Take(t)
    /\ got' = [got EXCEPT ![t] = Append(@, Taken(t).req)]
    /\ Finish(t, "ok")
    /\ UNCHANGED <<sock, wsConnected, ready, messageId, link>>

\* Mutation: send_batch waits for the same id again.
RecvMatchingAgain(t) ==
    /\ pc[t] = "reply" /\ Take(t)
    /\ Taken(t).id = Head(want[t])
    /\ got' = [got EXCEPT ![t] = Append(@, Taken(t).req)]
    /\ IF Len(want[t]) = 1 THEN Finish(t, "ok")
       ELSE on' = [on EXCEPT ![t] = 0] /\ UNCHANGED <<pc, op, calls, base, want, skip,
                                                     outcome, lock>>
    /\ UNCHANGED <<sock, wsConnected, ready, messageId, link>>

\* _recv_matching(): the message with the awaited id ends one wait...
RecvMatching(t) ==
    /\ pc[t] = "reply" /\ Take(t)
    /\ Taken(t).id = Head(want[t])
    /\ IF ~Taken(t).ok
       THEN Finish(t, "error") /\ UNCHANGED got
       ELSE /\ got' = [got EXCEPT ![t] = Append(@, Taken(t).req)]
            /\ IF Len(want[t]) = 1 THEN Finish(t, "ok")
               ELSE /\ want' = [want EXCEPT ![t] = Tail(@)]
                    /\ skip' = [skip EXCEPT ![t] = 0]
                    /\ on' = [on EXCEPT ![t] = 0]
                    /\ UNCHANGED <<pc, op, calls, base, outcome, lock>>
    /\ UNCHANGED <<sock, wsConnected, ready, messageId, link>>

\* Mutation: one message more may be skipped.
SkipMessageLate(t) ==
    /\ pc[t] = "reply" /\ Take(t)
    /\ Taken(t).id # Head(want[t])
    /\ IF skip[t] = MaxSkip THEN Finish(t, "lost")
       ELSE /\ skip' = [skip EXCEPT ![t] = @ + 1]
            /\ on' = [on EXCEPT ![t] = 0]
            /\ UNCHANGED <<pc, op, calls, base, want, outcome, lock>>
    /\ UNCHANGED <<sock, wsConnected, ready, messageId, link, got>>

\* Mutation: skipped messages are not counted.
SkipMessageForever(t) ==
    /\ pc[t] = "reply" /\ Take(t)
    /\ Taken(t).id # Head(want[t])
    /\ on' = [on EXCEPT ![t] = 0]
    /\ UNCHANGED <<pc, op, calls, base, want, skip, outcome, lock>>
    /\ UNCHANGED <<sock, wsConnected, ready, messageId, link, got>>

\* ... every other message is skipped, at most MaxSkip of them.
SkipMessage(t) ==
    /\ pc[t] = "reply" /\ Take(t)
    /\ Taken(t).id # Head(want[t])
    /\ IF skip[t] + 1 = MaxSkip THEN Finish(t, "lost")
       ELSE /\ skip' = [skip EXCEPT ![t] = @ + 1]
            /\ on' = [on EXCEPT ![t] = 0]
            /\ UNCHANGED <<pc, op, calls, base, want, outcome, lock>>
    /\ UNCHANGED <<sock, wsConnected, ready, messageId, link, got>>

\* send_raw(): no id and no lock; the next message is the result.
TransmitRaw(t) ==
    /\ pc[t] = "transmitRaw"
    /\ \/ /\ Writable /\ Written
          /\ Submit({[id |-> 0, req |-> Own(t, 1)]})
          /\ Goto(t, "raw")
          /\ UNCHANGED <<op, calls, base, want, skip, on, got, outcome, lock, sock,
                         wsConnected, ready, conns, greeted, auth, execs>>
       \/ WriteFails(t)
    /\ UNCHANGED messageId

RecvRaw(t) ==
    /\ pc[t] = "raw" /\ Take(t)
    /\ Finish(t, "ok")
    /\ UNCHANGED <<sock, wsConnected, ready, messageId, link, got>>

\* listen(): the callback takes the message and goes on, or returns False.
ListenMessage(t) ==
    /\ pc[t] = "listen" /\ Take(t)
    /\ \/ Finish(t, "ok")
       \/ /\ on' = [on EXCEPT ![t] = 0]
          /\ UNCHANGED <<pc, op, calls, base, want, skip, outcome, lock>>
    /\ UNCHANGED <<sock, wsConnected, ready, messageId, link, got>>

----------------------------------------------------------------------------
(* The service and the network (external).                                  *)

Arrive(c, m) == inbox' = [inbox EXCEPT ![c] = Append(@, m)]

Admitted(c) == greeted[c] /\ (Password => auth[c] = "accepted")

\* The first message of a connection: ready, or something connect() rejects.
ServiceGreets(c) ==
    /\ link[c] = "open" /\ ~greeted[c]
    /\ \E kind \in {"ready", "other"} : Arrive(c, Unsolicited(kind))
    /\ greeted' = [greeted EXCEPT ![c] = TRUE]
    /\ UNCHANGED <<clientVars, threadVars, conns, link, pending, auth, execs>>

ServiceAuthenticates(c) ==
    /\ link[c] = "open" /\ auth[c] = "asked"
    /\ \E ok \in BOOLEAN :
          /\ Arrive(c, AuthReply(ok))
          /\ auth' = [auth EXCEPT ![c] = IF ok THEN "accepted" ELSE "refused"]
    /\ UNCHANGED <<clientVars, threadVars, conns, link, pending, greeted, execs>>

\* The requests answered by one message headed by e: a batch may be answered
\* by one JSON array.
Answered(c, e) ==
    IF ReplyOrder = "array"
    THEN {f \in pending[c] : f.req.by = e.req.by /\ f.req.call = e.req.call}
    ELSE {e}

\* Without an id a request may be answered at any time.
InTurn(c, e) ==
    \/ e.id = 0 \/ ReplyOrder = "anyorder"
    \/ \A f \in pending[c] : f.id = 0 \/ e.id <= f.id

\* The service executes a request it has received and answers it if the
\* connection is still there; it refuses what a client sends before it is
\* authenticated.
ServiceAnswers(c) ==
    /\ greeted[c]
    /\ \E e \in pending[c], ok \in BOOLEAN :
          /\ InTurn(c, e)
          /\ Password /\ auth[c] # "accepted" => ~ok
          /\ pending' = [pending EXCEPT ![c] = @ \ Answered(c, e)]
          /\ execs' = IF Password /\ auth[c] # "accepted" THEN execs
                      ELSE [r \in Request |->
                              IF \E f \in Answered(c, e) : f.req = r
                              THEN execs[r] + 1 ELSE execs[r]]
          /\ IF link[c] = "open" THEN Arrive(c, Reply(e, ok)) ELSE UNCHANGED inbox
    /\ UNCHANGED <<clientVars, threadVars, conns, link, greeted, auth>>

\* An event or log message the client asked for earlier.
ServiceEvent(c) ==
    /\ link[c] = "open" /\ Admitted(c) /\ Len(inbox[c]) < MaxQueue
    /\ Arrive(c, Unsolicited("event"))
    /\ UNCHANGED <<clientVars, threadVars, conns, link, pending, greeted, auth, execs>>

ServiceCloses(c) ==
    /\ link[c] = "open"
    /\ link' = [link EXCEPT ![c] = "eof"]
    /\ UNCHANGED <<clientVars, threadVars, conns, inbox, pending, greeted, auth, execs>>

LinkBreaks(c) ==
    /\ link[c] \in {"open", "eof", "garbled"}
    /\ link' = [link EXCEPT ![c] = "reset"]
    /\ inbox' = [inbox EXCEPT ![c] = << >>]
    /\ UNCHANGED <<clientVars, threadVars, conns, pending, greeted, auth, execs>>

----------------------------------------------------------------------------
ConnectStep(t) ==
    \/ Connect(t) \/ Open(t) \/ OpenFails(t) \/ Handshake(t)
    \/ RecvReady(t) \/ Authenticate(t) \/ RecvAuth(t)

ReceiveStep(t) ==
    \/ BeginRecv(t) \/ RecvTimeout(t) \/ TimeoutInsideFrame(t) \/ RecvFails(t)
    \/ RecvMatching(t) \/ SkipMessage(t) \/ RecvRaw(t) \/ ListenMessage(t)

ThreadStep(t) ==
    \/ EnsureConnected(t) \/ Close(t) \/ Acquire(t) \/ Transmit(t) \/ TransmitRaw(t)
    \/ ConnectStep(t) \/ ReceiveStep(t)

Service(c) ==
    \/ ServiceGreets(c) \/ ServiceAuthenticates(c) \/ ServiceAnswers(c)
    \/ ServiceEvent(c) \/ ServiceCloses(c) \/ LinkBreaks(c)

\* The bound on the calls is reached: the threads rest, which is no deadlock.
AllCallsMade ==
    /\ \A t \in Threads : pc[t] = "idle" /\ calls[t] = MaxCalls
    /\ UNCHANGED vars

Next ==
    \/ \E t \in Threads : (\E o \in Ops : Call(t, o)) \/ ThreadStep(t)
    \/ \E c \in Conns : Service(c)
    \/ AllCallsMade

Spec == Init /\ [][Next]_vars

\* The scheduler runs every thread, and every blocking socket operation has a
\* timeout.  The service owes nothing.
FairSpec == Spec /\ \A t \in Threads : WF_vars(ThreadStep(t))

----------------------------------------------------------------------------
(* Properties                                                               *)

ClientTypes ==
    /\ sock \in 0..MaxConns
    /\ wsConnected \in [Conns -> BOOLEAN]
    /\ ready \in BOOLEAN
    /\ messageId \in Nat

ThreadTypes ==
    /\ pc \in [Threads -> Labels]
    /\ op \in [Threads -> OpKinds]
    /\ calls \in [Threads -> 0..MaxCalls]
    /\ base \in [Threads -> Nat]
    /\ want \in [Threads -> Seq(Nat \ {0})]
    /\ skip \in [Threads -> 0..(MaxSkip - 1)]
    /\ on \in [Threads -> 0..MaxConns]
    /\ got \in [Threads -> Seq(Request)]
    /\ outcome \in [Threads -> Outcomes]
    /\ lock \in Threads \cup {None}

NetTypes ==
    /\ conns \in 0..MaxConns
    /\ link \in [Conns -> Links]
    /\ inbox \in [Conns -> Seq(Message)]
    /\ pending \in [Conns -> SUBSET Entry]
    /\ greeted \in [Conns -> BOOLEAN]
    /\ auth \in [Conns -> {"none", "asked", "accepted", "refused"}]
    /\ execs \in [Request -> Nat]

TypeOK == ClientTypes /\ ThreadTypes /\ NetTypes

\* What send and send_batch return are the responses to the caller's own
\* messages, in the order it gave them: no late response to an earlier call, and
\* no response to another thread's request, is ever taken for the awaited one.
HoldsOwnAnswers(t) == \A i \in DOMAIN got[t] : got[t][i] = Own(t, i)

OwnAnswers == \A t \in Threads : HoldsOwnAnswers(t)

\* The client refines the abstract call: the requests of a call are executed at
\* most once and it returns their answers, in order, or fails.
RC == INSTANCE RemoteCall WITH
    MaxParts <- BatchSize,
    number  <- calls,
    parts   <- [t \in Threads |-> IF op[t] \in {"send", "batch"} THEN Parts(t) ELSE 0],
    answers <- got,
    result  <- [t \in Threads |-> IF pc[t] # "idle" THEN "busy"
                                    ELSE IF outcome[t] = "ok" THEN "done" ELSE "failed"]
ImplementsRemoteCall == RC!Spec

\* What the manager of the REST service, or another user, sees of a client: while
\* it connects it does not show that it has a socket.
Connecting(t) == pc[t] \in {"open", "handshake", "ready", "authenticate", "auth"}
Shown(t) ==
    CASE Connecting(t) \/ ~Connected                           -> "off"
      [] ~Connecting(t) /\ Connected /\ link[sock] = "reset"    -> "dead"
      [] ~Connecting(t) /\ Connected /\ link[sock] # "reset"    -> "on"
Task(t) ==
    CASE pc[t] = "idle"                                       -> "idle"
      [] pc[t] # "idle" /\ op[t] \in {"close", "listen"}       -> op[t]
      [] pc[t] # "idle" /\ op[t] \in {"send", "batch", "raw"}  -> "use"
      [] pc[t] # "idle" /\ op[t] \in {"connect", "reconnect"}  ->
            IF pc[t] = "close" THEN "reconnect" ELSE "connect"
Told(t) ==
    CASE outcome[t] = "error" -> "rejected"
      [] outcome[t] = "lost"  -> "unavailable"
      [] OTHER                -> outcome[t]

\* Over a direct connection and for one user, the client implements what the
\* manager takes it for: what it shows, and how its calls end.
User == CHOOSE t \in Threads : TRUE
CL == INSTANCE ClientLink WITH link <- Shown(User), task <- Task(User), answer <- Told(User)
ImplementsClientLink == CL!Spec

\* The service executes a request at most once: whatever fails, times out or
\* reconnects, the client never sends a request again by itself.
AtMostOnce == \A r \in Request : execs[r] <= 1

HandleAdmitted == sock # 0 /\ Admitted(sock)

\* A connect() or reconnect() that returns leaves a client whose service has
\* sent its greeting and, when a password is set, has accepted it.
ConnectedMeansAdmitted ==
    [][\A t \in Threads :
         op[t] \in {"connect", "reconnect"} /\ outcome[t] = "none" /\ outcome'[t] = "ok"
            => HandleAdmitted']_vars

\* While a thread waits for responses, each of them can still reach it: it is
\* being computed, or is in the inbox of the connection the thread reads, unless
\* that connection is broken.  Nobody has read it and thrown it away.
AwaitedAnswerOnItsWay ==
    \A t \in Threads :
        LET c == IF on[t] # 0 THEN on[t] ELSE sock IN
        (pc[t] = "reply" /\ c # 0 /\ link[c] = "open") =>
            \A i \in DOMAIN want[t] :
                \/ \E e \in pending[c] : e.id = want[t][i]
                \/ \E k \in DOMAIN inbox[c] : inbox[c][k].id = want[t][i]

\* No connection is forgotten: one that is open is the one the client holds.
NoLeakedConnection == \A c \in Conns : link[c] = "open" => c = sock

\* A send that fails because the connection is gone leaves a client that reads
\* as disconnected, so that the next call reconnects.
FailedSendDisconnects ==
    [][\A t \in Threads :
         pc[t] = "transmit" /\ outcome'[t] \in {"lost", "crash"} => ~Connected']_vars

\* Every call ends: it returns or raises, whatever the service sends or withholds.
CallsEnd == \A t \in Threads : pc[t] # "idle" ~> pc[t] = "idle"

----------------------------------------------------------------------------
(* The inductive invariant behind OwnAnswers                                *)

\* A thread in a call has a call number, so that its requests are requests; one
\* that waits for a response waits for something.
InCall ==
    \A t \in Threads :
        /\ pc[t] # "idle" => calls[t] \in 1..MaxCalls
        /\ pc[t] = "reply" => want[t] # << >>

\* The ids on a connection, in either direction, with the requests they stand for.
Carried(c) ==
    {<<e.id, e.req>> : e \in pending[c]} \cup
    {<<inbox[c][k].id, inbox[c][k].req>> : k \in DOMAIN inbox[c]}

\* Every id in transit has been given out.
IdsGivenOut == \A c \in Conns : \A p \in Carried(c) : p[1] <= messageId

\* A thread between its request and its response holds the lock; the id it read
\* is still the last one given out.
HoldsLock(t) ==
    /\ pc[t] \in Critical => lock = t
    /\ pc[t] = "transmit" => base[t] = messageId

\* Nothing is collected before the request is sent.
NothingCollected(t) == pc[t] \notin {"idle", "reply"} => got[t] = << >>

\* An awaited id has been given out, and stands only for the part of the
\* awaiting call that comes next.
AwaitsOwnIds(t) ==
    pc[t] = "reply" =>
        \A i \in DOMAIN want[t] :
            /\ want[t][i] \in 1..messageId
            /\ Len(got[t]) + i <= BatchSize
            /\ \A c \in Conns : \A p \in Carried(c) :
                  p[1] = want[t][i] => p[2] = Own(t, Len(got[t]) + i)

CallInv(t) ==
    HoldsLock(t) /\ NothingCollected(t) /\ AwaitsOwnIds(t) /\ HoldsOwnAnswers(t)

\* Ids are never reused, and each awaited id stands for one request of the
\* awaiting call: the lock is held from reading _message_id to the last
\* response, so that only its holder gives ids out.
OwnAnswersInv ==
    TypeOK /\ InCall /\ IdsGivenOut /\ \A t \in Threads : CallInv(t)

----------------------------------------------------------------------------
(* The inductive invariant behind AtMostOnce                                *)

\* A request of a later call, or of a call that has not written its frame yet.
NotSent(r) ==
    \/ r.call > calls[r.by]
    \/ r.call = calls[r.by] /\ pc[r.by] \notin {"idle", "reply", "raw"}

UnsentUnknown ==
    \A r \in Request : NotSent(r) =>
        execs[r] = 0 /\ \A c \in Conns : \A e \in pending[c] : e.req # r

PendingNotExecuted == \A c \in Conns : \A e \in pending[c] : execs[e.req] = 0

\* A request is on one connection, and there once.
PendingOnce ==
    \A c, d \in Conns : \A e \in pending[c], f \in pending[d] :
        e.req = f.req => c = d /\ e = f

\* A frame is written once per call: a request is unsent, pending in one place,
\* or done with.
AtMostOnceInv ==
    TypeOK /\ InCall /\ UnsentUnknown /\ PendingNotExecuted /\ PendingOnce /\ AtMostOnce
=============================================================================
