------------------------- MODULE WebSocketUserProofs -------------------------
(****************************************************************************)
(* What a user of the WebSocket client may rely on, with the inductive      *)
(* invariants behind it.  Most of it holds for threads that take turns:     *)
(* connect(), close() and the reconnection of _ensure_connected run outside *)
(* the lock, so that a thread may replace or close the connection under     *)
(* another one that is in a call.                                           *)
(****************************************************************************)
EXTENDS WebSocketClientProofs

----------------------------------------------------------------------------
(* How a call ends, and what one user of the client may rely on.            *)

\* A call is decided when it ends.
Undecided == \A t \in Threads : pc[t] # "idle" => outcome[t] = "none"

LEMMA UndecidedMoves ==
  ASSUME TypeInv, Undecided, NEW t \in Threads,
         \A u \in Threads \ {t} : pc'[u] = pc[u] /\ outcome'[u] = outcome[u],
         pc'[t] = "idle" \/ (pc[t] # "idle" /\ outcome'[t] = outcome[t])
  PROVE  Undecided'
  BY DEF Undecided

LEMMA UndecidedFinish ==
  ASSUME TypeInv, Undecided, NEW t \in Threads, NEW result, Finish(t, result)
  PROVE  Undecided'
<1>1. /\ pc'[t] = "idle"
      /\ \A u \in Threads \ {t} : pc'[u] = pc[u] /\ outcome'[u] = outcome[u]
  BY DEF Finish, TypeInv, TypeOK, ThreadTypes
<1> QED
  BY <1>1, UndecidedMoves

LEMMA UndecidedGoto ==
  ASSUME TypeInv, Undecided, NEW t \in Threads, pc[t] # "idle", NEW label, Goto(t, label),
         UNCHANGED outcome
  PROVE  Undecided'
<1>1. \A u \in Threads \ {t} : pc'[u] = pc[u] /\ outcome'[u] = outcome[u]
  BY DEF Goto, TypeInv, TypeOK, ThreadTypes
<1> QED
  BY <1>1, UndecidedMoves

LEMMA UndecidedReturns ==
  ASSUME TypeInv, Undecided, NEW t \in Threads, pc[t] # "idle", ConnectReturns(t)
  PROVE  Undecided'
<1>1. /\ \A u \in Threads \ {t} : pc'[u] = pc[u] /\ outcome'[u] = outcome[u]
      /\ pc'[t] = "idle" \/ outcome'[t] = outcome[t]
  BY DEF ConnectReturns, Goto, TypeInv, TypeOK, ThreadTypes
<1> QED
  BY <1>1, UndecidedMoves

LEMMA UndecidedStill == ASSUME Undecided, UNCHANGED <<pc, outcome>> PROVE Undecided'
  BY DEF Undecided

LEMMA UndecidedCall ==
  ASSUME TypeInv, Undecided, NEW t \in Threads, NEW o \in Ops, Call(t, o)
  PROVE  Undecided'
<1>1. /\ outcome'[t] = "none"
      /\ \A u \in Threads \ {t} : pc'[u] = pc[u] /\ outcome'[u] = outcome[u]
  BY DEF Call, Goto, TypeInv, TypeOK, ThreadTypes
<1> QED
  BY <1>1 DEF Undecided

LEMMA UndecidedStep ==
  ASSUME TypeInv, Undecided, NEW t \in Threads, ThreadStep(t)
  PROVE  Undecided'
<1> USE UndecidedFinish, UndecidedGoto, UndecidedReturns, UndecidedStill
<1>1. CASE EnsureConnected(t)
  BY <1>1 DEF EnsureConnected
<1>2. CASE Close(t) \/ Connect(t)
  BY <1>2 DEF Close, Connect
<1>3. CASE Open(t) \/ OpenFails(t) \/ Handshake(t)
  BY <1>3 DEF Open, OpenFails, Handshake
<1>4. ASSUME WriteFails(t) PROVE Undecided'
  BY <1>4 DEF WriteFails, Unconnected
<1>5. CASE RecvReady(t) \/ RecvAuth(t)
  BY <1>5 DEF RecvReady, RecvAuth
<1>6. CASE Authenticate(t) \/ Acquire(t)
  BY <1>4, <1>6 DEF Authenticate, Acquire
<1>7. CASE Transmit(t) \/ TransmitRaw(t)
  BY <1>4, <1>7 DEF Transmit, TransmitRaw
<1>8. CASE BeginRecv(t) \/ RecvTimeout(t)
  BY <1>8 DEF BeginRecv, RecvTimeout, Unconnected
<1>9. CASE TimeoutInsideFrame(t) \/ RecvFails(t)
  BY <1>9 DEF TimeoutInsideFrame, RecvFails
<1>10. CASE RecvMatching(t) \/ SkipMessage(t) \/ RecvRaw(t) \/ ListenMessage(t)
  BY <1>10 DEF RecvMatching, SkipMessage, RecvRaw, ListenMessage
<1> QED
  BY <1>1, <1>2, <1>3, <1>5, <1>6, <1>7, <1>8, <1>9, <1>10
  DEF ThreadStep, ConnectStep, ReceiveStep

THEOREM UndecidedAlways == Spec => [](TypeInv /\ Undecided)
<1>1. Init => TypeInv /\ Undecided
  BY TypeInit DEF Init, Undecided
<1>2. TypeInv /\ Undecided /\ [Next]_vars => TypeInv' /\ Undecided'
  <2> SUFFICES ASSUME TypeInv, Undecided, [Next]_vars PROVE TypeInv' /\ Undecided'
    OBVIOUS
  <2>1. TypeInv'
    BY TypeStep
  <2>2. ASSUME NEW c \in Conns, Service(c) PROVE Undecided'
    BY <2>2, UndecidedStill DEF Service, ServiceGreets, ServiceAuthenticates, ServiceAnswers,
       ServiceEvent, ServiceCloses, LinkBreaks, threadVars
  <2>3. CASE UNCHANGED vars
    BY <2>1, <2>3, UndecidedStill DEF vars, threadVars
  <2>4. ASSUME NEW t \in Threads, NEW o \in Ops, Call(t, o) PROVE Undecided'
    BY <2>4, UndecidedCall
  <2>5. ASSUME NEW t \in Threads, ThreadStep(t) PROVE Undecided'
    BY <2>5, UndecidedStep
  <2> QED
    BY <2>1, <2>2, <2>3, <2>4, <2>5 DEF Next, AllCallsMade
<1> QED
  BY <1>1, <1>2, PTL DEF Spec

\* A thread decides its own calls only.
LEMMA OthersUndecided ==
  ASSUME TypeInv, NEW t \in Threads, NEW u \in Threads \ {t},
         ThreadStep(u) \/ \E o \in Ops : Call(u, o)
  PROVE  outcome'[t] = outcome[t]
<1> USE DEF TypeInv, TypeOK, ThreadTypes, Finish, ConnectReturns
<1>1. ASSUME NEW o \in Ops, Call(u, o) PROVE outcome'[t] = outcome[t]
  BY <1>1 DEF Call
<1>2. CASE EnsureConnected(u) \/ Close(u) \/ Connect(u)
  BY <1>2 DEF EnsureConnected, Close, Connect
<1>3. CASE Open(u) \/ OpenFails(u) \/ Handshake(u)
  BY <1>3 DEF Open, OpenFails, Handshake
<1>4. ASSUME WriteFails(u) PROVE outcome'[t] = outcome[t]
  BY <1>4 DEF WriteFails, Unconnected
<1>5. CASE RecvReady(u) \/ RecvAuth(u)
  BY <1>5 DEF RecvReady, RecvAuth
<1>6. CASE Authenticate(u) \/ Acquire(u)
  BY <1>4, <1>6 DEF Authenticate, Acquire
<1>7. CASE Transmit(u) \/ TransmitRaw(u)
  BY <1>4, <1>7 DEF Transmit, TransmitRaw
<1>8. CASE BeginRecv(u) \/ RecvTimeout(u)
  BY <1>8 DEF BeginRecv, RecvTimeout, Unconnected
<1>9. CASE TimeoutInsideFrame(u) \/ RecvFails(u)
  BY <1>9 DEF TimeoutInsideFrame, RecvFails
<1>10. CASE RecvMatching(u) \/ SkipMessage(u) \/ RecvRaw(u) \/ ListenMessage(u)
  BY <1>10 DEF RecvMatching, SkipMessage, RecvRaw, ListenMessage
<1> QED
  BY <1>1, <1>2, <1>3, <1>5, <1>6, <1>7, <1>8, <1>9, <1>10
  DEF ThreadStep, ConnectStep, ReceiveStep

\* What a thread about to write does next.
LEMMA OnlyTransmits ==
  ASSUME NEW t \in Threads, pc[t] = "transmit", ThreadStep(t)
  PROVE  Transmit(t)
<1>1. pc[t] \notin Receiving
  BY DEF Receiving
<1> QED
  BY <1>1 DEF ThreadStep, ConnectStep, ReceiveStep, EnsureConnected, Close, Acquire,
     TransmitRaw, Connect, Open, OpenFails, Handshake, RecvReady, Authenticate, RecvAuth,
     BeginRecv, RecvTimeout, TimeoutInsideFrame, RecvFails, RecvMatching, SkipMessage,
     RecvRaw, ListenMessage

\* Through a tunnel, a send that fails because the connection is gone leaves a
\* client that reads as disconnected, so that the next call reconnects.
THEOREM FailedSendDisconnectsCorrect ==
  ASSUME Method = "proxy"
  PROVE  Spec => FailedSendDisconnects
<1>1. TypeInv /\ Undecided /\ [Next]_vars
      => [\A t \in Threads :
            pc[t] = "transmit" /\ outcome'[t] \in {"lost", "crash"} => ~Connected']_vars
  <2> SUFFICES ASSUME TypeInv, Undecided, Next, NEW t \in Threads,
                      pc[t] = "transmit", outcome'[t] \in {"lost", "crash"}
               PROVE  ~Connected'
    OBVIOUS
  <2>1. outcome'[t] # outcome[t]
    BY DEF Undecided
  <2>2. ASSUME NEW c \in Conns, Service(c) PROVE outcome'[t] = outcome[t]
    BY <2>2 DEF Service, ServiceGreets, ServiceAuthenticates, ServiceAnswers,
       ServiceEvent, ServiceCloses, LinkBreaks, threadVars
  <2>3. PICK u \in Threads : ThreadStep(u) \/ \E o \in Ops : Call(u, o)
    BY <2>1, <2>2 DEF Next, AllCallsMade, vars, threadVars
  <2>4. Transmit(t)
    BY <2>1, <2>3, OthersUndecided, OnlyTransmits DEF Call
  <2>5. WriteFails(t)
    BY <2>1, <2>4 DEF Transmit
  <2> QED
    BY <2>5 DEF WriteFails, Unconnected, Connected
<1> QED
  BY <1>1, UndecidedAlways, PTL DEF Spec, FailedSendDisconnects

----------------------------------------------------------------------------
(* Threads that take turns.                                                 *)

\* While one of the threads is in a call of the client, the others are not: what
\* the class asks of callers that share it (client.py:57).
TakeTurns == \A t, u \in Threads : t # u => pc[t] = "idle" \/ pc[u] = "idle"

\* A step of t: the others rest.
Turn(t) == \A u \in Threads \ {t} : pc[u] = "idle" /\ pc'[u] = "idle" /\ on'[u] = on[u]

\* A thread moves itself only.
LEMMA OthersStay ==
  ASSUME TypeInv, NEW t \in Threads, NEW u \in Threads \ {t},
         ThreadStep(t) \/ \E o \in Ops : Call(t, o)
  PROVE  pc'[u] = pc[u] /\ on'[u] = on[u]
<1> DEFINE stays == pc'[u] = pc[u] /\ on'[u] = on[u]
<1> USE DEF TypeInv, TypeOK, ThreadTypes, Goto, Finish, ConnectReturns
<1>1. ASSUME NEW o \in Ops, Call(t, o) PROVE stays
  BY <1>1 DEF Call
<1>2. CASE EnsureConnected(t) \/ Close(t) \/ Connect(t)
  BY <1>2 DEF EnsureConnected, Close, Connect
<1>3. CASE Open(t) \/ OpenFails(t) \/ Handshake(t)
  BY <1>3 DEF Open, OpenFails, Handshake
<1>4. ASSUME WriteFails(t) PROVE stays
  BY <1>4 DEF WriteFails, Unconnected
<1>5. CASE RecvReady(t) \/ RecvAuth(t)
  BY <1>5 DEF RecvReady, RecvAuth
<1>6. CASE Authenticate(t) \/ Acquire(t)
  BY <1>4, <1>6 DEF Authenticate, Acquire
<1>7. CASE Transmit(t) \/ TransmitRaw(t)
  BY <1>4, <1>7 DEF Transmit, TransmitRaw
<1>8. CASE BeginRecv(t) \/ RecvTimeout(t)
  BY <1>8 DEF BeginRecv, RecvTimeout, Unconnected
<1>9. CASE TimeoutInsideFrame(t) \/ RecvFails(t)
  BY <1>9 DEF TimeoutInsideFrame, RecvFails
<1>10. CASE RecvMatching(t) \/ SkipMessage(t) \/ RecvRaw(t) \/ ListenMessage(t)
  BY <1>10 DEF RecvMatching, SkipMessage, RecvRaw, ListenMessage
<1> QED
  BY <1>1, <1>2, <1>3, <1>5, <1>6, <1>7, <1>8, <1>9, <1>10
  DEF ThreadStep, ConnectStep, ReceiveStep

LEMMA StepsInCall ==
  ASSUME NEW t \in Threads, ThreadStep(t)
  PROVE  pc[t] # "idle"
BY DEF ThreadStep, ConnectStep, ReceiveStep, EnsureConnected, Close, Acquire, Transmit,
   TransmitRaw, Connect, Open, OpenFails, Handshake, RecvReady, Authenticate, RecvAuth,
   BeginRecv, RecvTimeout, TimeoutInsideFrame, RecvFails, RecvMatching, SkipMessage,
   RecvRaw, ListenMessage, Receiving

LEMMA TheirTurn ==
  ASSUME TypeInv, TakeTurns, TakeTurns', NEW t \in Threads,
         ThreadStep(t) \/ \E o \in Ops : Call(t, o)
  PROVE  Turn(t)
<1> SUFFICES ASSUME NEW u \in Threads \ {t}
             PROVE  pc[u] = "idle" /\ pc'[u] = "idle" /\ on'[u] = on[u]
  BY DEF Turn
<1>1. pc'[u] = pc[u] /\ on'[u] = on[u]
  BY OthersStay
<1>2. CASE ThreadStep(t)
  BY <1>1, <1>2, StepsInCall DEF TakeTurns
<1>3. CASE \E o \in Ops : Call(t, o)
  <2>1. pc'[t] # "idle"
    BY <1>3 DEF Call, Goto, TypeInv, TypeOK, ThreadTypes
  <2> QED
    BY <1>1, <2>1 DEF TakeTurns
<1> QED
  BY <1>2, <1>3

\* The thread reads the connection the client holds.
ReadsHandle == \A t \in Threads : on[t] # 0 => on[t] = sock /\ pc[t] \in Receiving

LEMMA ReadsHandleIf ==
  ASSUME ReadsHandle, NEW t \in Threads, Turn(t),
         on'[t] = 0 \/ (on'[t] = sock' /\ pc'[t] \in Receiving)
  PROVE  ReadsHandle'
  BY DEF Turn, ReadsHandle, Receiving

LEMMA ReadsHandleEnd ==
  ASSUME TypeInv, ReadsHandle, NEW t \in Threads, Turn(t),
         ConnectReturns(t) \/ (\E result \in Outcomes : Finish(t, result))
                           \/ on' = [on EXCEPT ![t] = 0]
  PROVE  ReadsHandle'
<1>1. on'[t] = 0
  BY DEF ConnectReturns, Finish, TypeInv, TypeOK, ThreadTypes
<1> QED
  BY <1>1, ReadsHandleIf

LEMMA ReadsHandleStep ==
  ASSUME TypeInv, ReadsHandle, NEW t \in Threads, Turn(t), ThreadStep(t)
  PROVE  ReadsHandle'
<1> USE DEF Outcomes
<1>1. ASSUME pc[t] \notin Receiving, UNCHANGED on PROVE ReadsHandle'
  <2>1. on'[t] = 0
    BY <1>1 DEF ReadsHandle
  <2> QED
    BY <2>1, ReadsHandleIf
<1>2. CASE EnsureConnected(t) \/ Close(t) \/ Connect(t)
  BY <1>1, <1>2, ReadsHandleEnd DEF EnsureConnected, Close, Connect, Receiving
<1>3. CASE Open(t) \/ OpenFails(t) \/ Handshake(t)
  BY <1>1, <1>3, ReadsHandleEnd DEF Open, OpenFails, Handshake, Receiving
<1>4. ASSUME WriteFails(t) PROVE ReadsHandle'
  BY <1>4, ReadsHandleEnd DEF WriteFails, Unconnected
<1>5. CASE RecvReady(t) \/ RecvAuth(t)
  BY <1>5, ReadsHandleEnd DEF RecvReady, RecvAuth
<1>6. CASE Authenticate(t) \/ Acquire(t)
  BY <1>1, <1>4, <1>6 DEF Authenticate, Acquire, Receiving
<1>7. CASE Transmit(t) \/ TransmitRaw(t)
  BY <1>1, <1>4, <1>7 DEF Transmit, TransmitRaw, Receiving
<1>8. CASE BeginRecv(t)
  <2>1. CASE on' = [on EXCEPT ![t] = sock] /\ UNCHANGED <<pc, sock>>
    <3>1. on'[t] = sock' /\ pc'[t] \in Receiving
      BY <1>8, <2>1 DEF BeginRecv, TypeInv, TypeOK, ThreadTypes
    <3> QED
      BY <3>1, ReadsHandleIf
  <2> QED
    BY <1>8, <2>1, ReadsHandleEnd DEF BeginRecv, Unconnected
<1>9. CASE RecvTimeout(t) \/ TimeoutInsideFrame(t) \/ RecvFails(t)
  BY <1>9, ReadsHandleEnd DEF RecvTimeout, TimeoutInsideFrame, RecvFails
<1>10. CASE RecvMatching(t) \/ SkipMessage(t) \/ RecvRaw(t) \/ ListenMessage(t)
  BY <1>10, ReadsHandleEnd DEF RecvMatching, SkipMessage, RecvRaw, ListenMessage
<1> QED
  BY <1>2, <1>3, <1>5, <1>6, <1>7, <1>8, <1>9, <1>10
  DEF ThreadStep, ConnectStep, ReceiveStep

LEMMA ReadsHandleStill ==
  ASSUME ReadsHandle, UNCHANGED <<on, sock, pc>> PROVE ReadsHandle'
  BY DEF ReadsHandle

LEMMA ReadsHandleNext ==
  ASSUME TypeInv, TakeTurns, TakeTurns', ReadsHandle, [Next]_vars
  PROVE  ReadsHandle'
<1>1. ASSUME NEW t \in Threads, NEW o \in Ops, Call(t, o) PROVE ReadsHandle'
  <2>1. on'[t] = 0 /\ Turn(t)
    BY <1>1, TheirTurn DEF ReadsHandle, Receiving, Call
  <2> QED
    BY <2>1, ReadsHandleIf
<1>2. ASSUME NEW t \in Threads, ThreadStep(t) PROVE ReadsHandle'
  BY <1>2, TheirTurn, ReadsHandleStep
<1>3. ASSUME NEW c \in Conns, Service(c) PROVE ReadsHandle'
  BY <1>3, ReadsHandleStill DEF Service, ServiceGreets, ServiceAuthenticates,
     ServiceAnswers, ServiceEvent, ServiceCloses, LinkBreaks, threadVars, clientVars
<1>4. CASE UNCHANGED vars
  BY <1>4, ReadsHandleStill DEF vars, threadVars, clientVars
<1> QED
  BY <1>1, <1>2, <1>3, <1>4 DEF Next, AllCallsMade

----------------------------------------------------------------------------
(* No connection is forgotten.                                              *)

\* An open connection is the one held, and reads as connected, so that connect()
\* does not open another over it; the connections still to come are closed.
HandleInv ==
    /\ sock <= conns
    /\ \A c \in Conns : c > conns => link[c] = "closed"
    /\ sock # 0 /\ link[sock] = "open" => wsConnected[sock]
    /\ \A t \in Threads : pc[t] = "open" => ~Connected
    /\ NoLeakedConnection

LEMMA HandleStays ==
  ASSUME TypeInv, HandleInv, UNCHANGED <<sock, conns>>,
         \A c \in Conns : /\ link'[c] = "open" => link[c] = "open" /\ wsConnected'[c] = wsConnected[c]
                          /\ link[c] = "closed" => link'[c] = "closed",
         \A t \in Threads : pc'[t] = "open" => ~Connected'
  PROVE  HandleInv'
<1>1. sock # 0 => sock \in Conns
  BY DEF TypeInv, TypeOK, ClientTypes, Conns
<1> QED
  BY <1>1 DEF HandleInv, NoLeakedConnection

\* Most steps: the connections and what the client shows of them stay.
LEMMA HandleUntouched ==
  ASSUME Method = "direct", TypeInv, HandleInv, UNCHANGED <<sock, conns, link, wsConnected>>,
         \A t \in Threads : pc'[t] = "open" => pc[t] = "open" \/ ~Connected
  PROVE  HandleInv'
<1>1. Connected' = Connected
  BY DEF Connected
<1>2. \A t \in Threads : pc'[t] = "open" => ~Connected'
  BY <1>1 DEF HandleInv
<1> QED
  BY <1>2, HandleStays

\* Closing leaves no connection open.
LEMMA HandleClosed ==
  ASSUME TypeInv, HandleInv, NEW unread, CloseHandle(unread), UNCHANGED conns
  PROVE  HandleInv'
<1>1. sock' = 0 /\ ~Connected' /\ conns \in Nat
  BY BoundAssumption DEF CloseHandle, Connected, TypeInv, TypeOK, NetTypes
<1>2. \A c \in Conns : link'[c] # "open" /\ (link[c] = "closed" => link'[c] = "closed")
  <2>1. CASE sock = 0
    BY <2>1 DEF CloseHandle, HandleInv, NoLeakedConnection, Conns
  <2>2. CASE sock # 0
    BY <2>2 DEF CloseHandle, HandleInv, NoLeakedConnection, TypeInv, TypeOK, NetTypes
  <2> QED
    BY <2>1, <2>2
<1> QED
  BY <1>1, <1>2 DEF HandleInv, NoLeakedConnection

\* What a step of the network does to a connection, or a write to a closed one.
LEMMA HandleLinks ==
  ASSUME Method = "direct", TypeInv, HandleInv, NEW c \in Conns, link[c] # "closed", NEW state,
         state \notin {"open", "closed"}, link' = [link EXCEPT ![c] = state],
         UNCHANGED <<sock, conns, wsConnected>>,
         \A t \in Threads : pc'[t] = "open" => pc[t] = "open"
  PROVE  HandleInv'
<1>1. Connected' = Connected
  BY DEF Connected
<1>2. \A t \in Threads : pc'[t] = "open" => ~Connected'
  BY <1>1 DEF HandleInv
<1>3. \A d \in Conns : /\ link'[d] = "open" => link[d] = "open"
                       /\ link[d] = "closed" => link'[d] = "closed"
  BY DEF TypeInv, TypeOK, NetTypes
<1> QED
  BY <1>2, <1>3, HandleStays

\* A call goes on or ends somewhere else.
LEMMA Elsewhere ==
  ASSUME TypeInv, NEW t \in Threads,
         \/ ConnectReturns(t)
         \/ \E result \in Outcomes : Finish(t, result)
         \/ \E label : label # "open" /\ Goto(t, label)
         \/ UNCHANGED pc
  PROVE  \A u \in Threads : pc'[u] = "open" => pc[u] = "open"
<1>1. AfterConnect(t) # "open"
  BY DEF AfterConnect
<1> QED
  BY <1>1 DEF ConnectReturns, Finish, Goto, TypeInv, TypeOK, ThreadTypes

LEMMA NoneOpen ==
  ASSUME Method = "direct", TypeInv, HandleInv, ~Connected
  PROVE  \A c \in Conns : link[c] # "open"
<1> SUFFICES ASSUME NEW c \in Conns, link[c] = "open" PROVE FALSE
  OBVIOUS
<1>1. c = sock /\ sock # 0
  BY DEF HandleInv, NoLeakedConnection, Conns
<1> QED
  BY <1>1 DEF HandleInv, Connected

LEMMA HandleOpen ==
  ASSUME Method = "direct", TypeInv, HandleInv, NEW t \in Threads, Turn(t), Open(t)
  PROVE  HandleInv'
<1>1. conns \in Nat /\ conns + 1 \in Conns /\ conns' = conns + 1 /\ sock' = conns + 1
  BY BoundAssumption DEF Open, Conns, TypeInv, TypeOK, NetTypes
<1>2. ~Connected
  BY DEF Open, HandleInv
<1>3. \A c \in Conns : link[c] # "open"
  BY <1>2, NoneOpen
<1>4. /\ \A c \in Conns \ {conns + 1} : link'[c] = link[c]
      /\ wsConnected'[conns + 1]
  BY <1>1 DEF Open, TypeInv, TypeOK, ClientTypes, NetTypes
<1>5. \A u \in Threads : pc'[u] \in {"idle", "ready"}
  BY DEF Turn, Open, Goto, TypeInv, TypeOK, ThreadTypes
<1>6. \A c \in Conns : c > conns' => link'[c] = "closed"
  BY <1>1, <1>4 DEF HandleInv, Conns
<1>7. NoLeakedConnection'
  BY <1>1, <1>3, <1>4 DEF NoLeakedConnection
<1> QED
  BY <1>1, <1>4, <1>5, <1>6, <1>7 DEF HandleInv

LEMMA HandleStep ==
  ASSUME Method = "direct", TypeInv, HandleInv, NEW t \in Threads, Turn(t), ThreadStep(t)
  PROVE  HandleInv'
<1> USE DEF Outcomes
<1>1. ASSUME \A u \in Threads : pc'[u] = "open" => pc[u] = "open",
             Written, Writable, UNCHANGED <<sock, conns, wsConnected>>
      PROVE  HandleInv'
  <2>1. sock \in Conns
    BY <1>1 DEF Writable, TypeInv, TypeOK, ClientTypes, Conns
  <2>2. CASE link[sock] = "eof"
    BY <1>1, <2>1, <2>2, HandleLinks DEF Written
  <2>3. CASE link[sock] # "eof"
    BY <1>1, <2>3, HandleUntouched DEF Written
  <2> QED
    BY <2>2, <2>3
<1>2. ASSUME WriteFails(t) PROVE HandleInv'
  BY <1>2, Elsewhere, HandleUntouched DEF WriteFails, Unconnected, netVars
<1>3. CASE EnsureConnected(t)
  BY <1>3, Elsewhere, HandleUntouched DEF EnsureConnected, netVars
<1>4. CASE Close(t)
  BY <1>4, HandleClosed DEF Close
<1>5. CASE Connect(t)
  <2>1. UNCHANGED <<sock, conns, link, wsConnected>>
    BY <1>5 DEF Connect, netVars
  <2>2. CASE Connected
    BY <1>5, <2>1, <2>2, Elsewhere, HandleUntouched DEF Connect
  <2>3. CASE ~Connected
    BY <2>1, <2>3, HandleUntouched
  <2> QED
    BY <2>2, <2>3
<1>6. CASE Open(t)
  BY <1>6, HandleOpen
<1>7. CASE OpenFails(t)
  <2>1. \A c \in Conns : link[c] # "open"
    BY <1>7, NoneOpen DEF OpenFails, HandleInv
  <2>2. sock' = 0 /\ UNCHANGED <<conns, link>> /\ ~Connected' /\ conns \in Nat
    BY <1>7, BoundAssumption DEF OpenFails, Connected, netVars, TypeInv, TypeOK, NetTypes
  <2> QED
    BY <2>1, <2>2 DEF HandleInv, NoLeakedConnection
<1>8. CASE Handshake(t)
  BY <1>8, Elsewhere, HandleClosed, HandleUntouched DEF Handshake
<1>9. CASE RecvReady(t) \/ RecvAuth(t)
  BY <1>9, Elsewhere, HandleClosed, HandleUntouched DEF RecvReady, RecvAuth, Take
<1>10. CASE Authenticate(t) \/ Transmit(t) \/ TransmitRaw(t)
  BY <1>1, <1>2, <1>10, Elsewhere DEF Authenticate, Transmit, TransmitRaw
<1>11. CASE Acquire(t)
  BY <1>11, Elsewhere, HandleUntouched DEF Acquire, netVars
<1>12. CASE BeginRecv(t)
  BY <1>12, Elsewhere, HandleUntouched DEF BeginRecv, Unconnected, netVars
<1>13. CASE RecvTimeout(t)
  BY <1>13, Elsewhere, HandleUntouched DEF RecvTimeout, netVars
<1>14. CASE RecvFails(t)
  <2>1. \A u \in Threads : pc'[u] = "open" => pc[u] = "open"
    BY <1>14, Elsewhere DEF RecvFails
  <2>2. UNCHANGED <<sock, conns, link>>
    BY <1>14 DEF RecvFails, netVars
  <2>3. CASE UNCHANGED wsConnected
    BY <2>1, <2>2, <2>3, HandleUntouched
  <2>4. CASE link[on[t]] = "eof" /\ wsConnected' = [wsConnected EXCEPT ![on[t]] = FALSE]
    <3>1. \A c \in Conns : /\ link[c] = "open" => wsConnected'[c] = wsConnected[c]
                           /\ wsConnected'[c] => wsConnected[c]
      BY <2>4 DEF TypeInv, TypeOK, ClientTypes
    <3>2. sock # 0 => sock \in Conns
      BY DEF TypeInv, TypeOK, ClientTypes, Conns
    <3>3. ASSUME sock # 0, wsConnected'[sock] PROVE wsConnected[sock]
      <4>1. sock \in Conns
        BY <3>2, <3>3
      <4> QED
        BY <3>1, <3>3, <4>1
    <3>4. Connected' => Connected
      BY <2>2, <3>3 DEF Connected
    <3>5. \A u \in Threads : pc'[u] = "open" => ~Connected'
      BY <2>1, <3>4 DEF HandleInv
    <3>6. \A c \in Conns : /\ link'[c] = "open" => link[c] = "open" /\ wsConnected'[c] = wsConnected[c]
                           /\ link[c] = "closed" => link'[c] = "closed"
      BY <2>2, <3>1
    <3>7. UNCHANGED <<sock, conns>>
      BY <2>2
    <3> QED
      BY <3>5, <3>6, <3>7, HandleStays
  <2> QED
    BY <1>14, <2>3, <2>4 DEF RecvFails
<1>15. CASE RecvMatching(t) \/ SkipMessage(t) \/ RecvRaw(t) \/ ListenMessage(t)
  BY <1>15, Elsewhere, HandleUntouched
  DEF RecvMatching, SkipMessage, RecvRaw, ListenMessage, Take
<1> QED
  BY <1>3, <1>4, <1>5, <1>6, <1>7, <1>8, <1>9, <1>10, <1>11, <1>12, <1>13, <1>14, <1>15
  DEF ThreadStep, ConnectStep, ReceiveStep, TimeoutInsideFrame

LEMMA HandleNext ==
  ASSUME Method = "direct", TypeInv, TakeTurns, TakeTurns', HandleInv, [Next]_vars
  PROVE  HandleInv'
<1>1. ASSUME NEW t \in Threads, NEW o \in Ops, Call(t, o) PROVE HandleInv'
  <2>1. \A u \in Threads : pc'[u] = "open" => pc[u] = "open"
    BY <1>1, Elsewhere DEF Call
  <2> QED
    BY <1>1, <2>1, HandleUntouched DEF Call, clientVars, netVars
<1>2. ASSUME NEW t \in Threads, ThreadStep(t) PROVE HandleInv'
  BY <1>2, TheirTurn, HandleStep
<1>3. ASSUME NEW c \in Conns, Service(c) PROVE HandleInv'
  <2>1. UNCHANGED <<pc, sock, conns, wsConnected>>
    BY <1>3 DEF Service, ServiceGreets, ServiceAuthenticates, ServiceAnswers, ServiceEvent,
       ServiceCloses, LinkBreaks, threadVars, clientVars
  <2>2. CASE UNCHANGED link
    BY <2>1, <2>2, HandleUntouched
  <2>3. CASE ServiceCloses(c) \/ LinkBreaks(c)
    BY <2>1, <2>3, HandleLinks DEF ServiceCloses, LinkBreaks
  <2> QED
    BY <1>3, <2>2, <2>3 DEF Service, ServiceGreets, ServiceAuthenticates, ServiceAnswers,
       ServiceEvent
<1>4. CASE UNCHANGED vars
  BY <1>4, HandleUntouched DEF vars, threadVars, clientVars, netVars
<1> QED
  BY <1>1, <1>2, <1>3, <1>4 DEF Next, AllCallsMade

\* Over a direct connection a client forgets no connection: the open one is the
\* one it holds, for any threads that take turns.
THEOREM NoLeakedConnectionCorrect ==
  ASSUME Method = "direct"
  PROVE  Spec /\ []TakeTurns => []NoLeakedConnection
<1>1. Init => TypeInv /\ HandleInv
  BY TypeInit DEF Init, HandleInv, NoLeakedConnection
<1>2. TakeTurns /\ TakeTurns' /\ TypeInv /\ HandleInv /\ [Next]_vars
      => TypeInv' /\ HandleInv'
  BY TypeStep, HandleNext
<1>3. HandleInv => NoLeakedConnection
  BY DEF HandleInv
<1> QED
  BY <1>1, <1>2, <1>3, PTL DEF Spec

----------------------------------------------------------------------------
(* No awaited response is thrown away.                                      *)

\* On a connection the service answers in the order of the ids.
InIdOrder(c) ==
    /\ \A j, k \in DOMAIN inbox[c] :
          j < k /\ inbox[c][j].id # 0 /\ inbox[c][k].id # 0 => inbox[c][j].id < inbox[c][k].id
    /\ \A k \in DOMAIN inbox[c], e \in pending[c] :
          inbox[c][k].id # 0 /\ e.id # 0 => inbox[c][k].id < e.id
    /\ \A e, f \in pending[c] : e.id = f.id /\ e.id # 0 => e = f

WantsInOrder(t) ==
    \A i, j \in DOMAIN want[t] : i < j => want[t][i] < want[t][j]

Reaching(c, id) ==
    \/ \E e \in pending[c] : e.id = id
    \/ \E k \in DOMAIN inbox[c] : inbox[c][k].id = id

\* The same as AwaitedAnswerOnItsWay, for a thread that reads the handle.
Awaiting(t) ==
    pc[t] = "reply" =>
        /\ WantsInOrder(t)
        /\ sock # 0 /\ link[sock] = "open" => \A i \in DOMAIN want[t] : Reaching(sock, want[t][i])

AwaitInv == (\A c \in Conns : InIdOrder(c)) /\ (\A t \in Threads : Awaiting(t))

LEMMA InboxTypes ==
  ASSUME TypeInv, NEW c \in Conns
  PROVE  /\ inbox[c] \in Seq(Message) /\ Len(inbox[c]) \in Nat
         /\ DOMAIN inbox[c] = 1..Len(inbox[c])
         /\ \A k \in DOMAIN inbox[c] : inbox[c][k].id \in Nat
         /\ \A e \in pending[c] : e.id \in Nat
<1>1. inbox[c] \in Seq(Message)
  BY DEF TypeInv, TypeOK, NetTypes
<1>2. ASSUME NEW k \in DOMAIN inbox[c] PROVE inbox[c][k].id \in Nat
  <2>1. inbox[c][k] \in Message
    BY <1>1, <1>2
  <2> QED
    BY <2>1 DEF Message, Notice, Answer
<1>3. \A e \in pending[c] : e.id \in Nat
  BY DEF TypeInv, TypeOK, NetTypes, Entry
<1> QED
  BY <1>1, <1>2, <1>3, LenProperties

\* Reading and answering elsewhere keep the order.
LEMMA ReadKeepsOrder ==
  ASSUME TypeInv, NEW c \in Conns, InIdOrder(c), pending'[c] \subseteq pending[c],
         \/ inbox'[c] = inbox[c] \/ inbox'[c] = << >>
         \/ inbox[c] # << >> /\ inbox'[c] = Tail(inbox[c])
  PROVE  InIdOrder(c)'
<1>1. CASE inbox'[c] = inbox[c]
  BY <1>1 DEF InIdOrder
<1>2. CASE inbox'[c] = << >>
  BY <1>2 DEF InIdOrder
<1>3. CASE inbox[c] # << >> /\ inbox'[c] = Tail(inbox[c])
  <2>1. \A k \in DOMAIN inbox'[c] :
          k \in Nat /\ k + 1 \in DOMAIN inbox[c] /\ inbox'[c][k] = inbox[c][k + 1]
    BY <1>3, InboxTypes
  <2>2. \A j, k \in DOMAIN inbox'[c] : j < k => j + 1 < k + 1
    BY <2>1
  <2> QED
    BY <2>1, <2>2 DEF InIdOrder
<1> QED
  BY <1>1, <1>2, <1>3

\* A message without an id, or whose id comes next, keeps it too.
LEMMA ArriveKeepsOrder ==
  ASSUME TypeInv, NEW c \in Conns, NEW m, Arrive(c, m), m.id \in Nat, InIdOrder(c),
         pending'[c] \subseteq pending[c],
         m.id # 0 => /\ \A k \in DOMAIN inbox[c] : inbox[c][k].id # 0 => inbox[c][k].id < m.id
                     /\ \A e \in pending'[c] : e.id # 0 => m.id < e.id
  PROVE  InIdOrder(c)'
<1>1. /\ DOMAIN inbox'[c] = 1..(Len(inbox[c]) + 1) /\ inbox'[c][Len(inbox[c]) + 1] = m
      /\ \A k \in 1..Len(inbox[c]) : inbox'[c][k] = inbox[c][k]
      /\ DOMAIN inbox[c] = 1..Len(inbox[c]) /\ Len(inbox[c]) \in Nat
  <2>1. inbox'[c] = Append(inbox[c], m)
    BY DEF Arrive, TypeInv, TypeOK, NetTypes
  <2> QED
    BY <2>1, InboxTypes
<1>2. \A k \in DOMAIN inbox'[c] : \/ k \in DOMAIN inbox[c] /\ inbox'[c][k] = inbox[c][k]
                                  \/ k = Len(inbox[c]) + 1 /\ inbox'[c][k] = m
  BY <1>1
<1>3. ASSUME NEW j \in DOMAIN inbox'[c], NEW k \in DOMAIN inbox'[c], j < k,
             inbox'[c][j].id # 0, inbox'[c][k].id # 0
      PROVE  inbox'[c][j].id < inbox'[c][k].id
  <2>1. j \in DOMAIN inbox[c] /\ inbox'[c][j] = inbox[c][j]
    BY <1>1, <1>3
  <2> QED
    BY <1>2, <1>3, <2>1 DEF InIdOrder
<1>4. ASSUME NEW k \in DOMAIN inbox'[c], NEW e \in pending'[c], inbox'[c][k].id # 0, e.id # 0
      PROVE  inbox'[c][k].id < e.id
  BY <1>2, <1>4 DEF InIdOrder
<1>5. \A e, f \in pending'[c] : e.id = f.id /\ e.id # 0 => e = f
  BY DEF InIdOrder
<1> QED
  BY <1>3, <1>4, <1>5 DEF InIdOrder

LEMMA SubmitKeepsOrder ==
  ASSUME TypeInv, NEW entries, Writable, Written, Submit(entries),
         \A c \in Conns : InIdOrder(c),
         \A e \in entries : e.id \in Nat,
         \A e \in entries : e.id # 0 => \A p \in Carried(sock) : p[1] < e.id,
         \A e, f \in entries : e.id = f.id /\ e.id # 0 => e = f
  PROVE  \A c \in Conns : InIdOrder(c)'
<1> SUFFICES ASSUME NEW c \in Conns PROVE InIdOrder(c)'
  OBVIOUS
<1>1. inbox'[c] = inbox[c] \/ inbox'[c] = << >>
  BY DEF Written, TypeInv, TypeOK, NetTypes
<1>2. CASE c # sock
  <2>1. pending'[c] = pending[c]
    BY <1>2 DEF Submit, TypeInv, TypeOK, NetTypes
  <2> QED
    BY <1>1, <2>1, ReadKeepsOrder
<1>3. CASE c = sock
  <2>1. pending'[c] \subseteq pending[c] \cup entries
    BY <1>3 DEF Submit, TypeInv, TypeOK, NetTypes
  <2>2. \A e \in pending[c], f \in entries : f.id # 0 => e.id < f.id
    <3>1. \A e \in pending[c] : <<e.id, e.req>> \in Carried(sock)
      BY <1>3 DEF Carried
    <3> QED
      BY <3>1
  <2>3. \A k \in DOMAIN inbox[c], f \in entries : f.id # 0 => inbox[c][k].id < f.id
    <3>1. \A k \in DOMAIN inbox[c] : <<inbox[c][k].id, inbox[c][k].req>> \in Carried(sock)
      BY <1>3 DEF Carried
    <3> QED
      BY <3>1
  <2>4. \A e \in pending[c] : e.id \in Nat
    BY InboxTypes
  <2>5. \A e, f \in pending'[c] : e.id = f.id /\ e.id # 0 => e = f
    BY <2>1, <2>2, <2>4 DEF InIdOrder
  <2>6. \A k \in DOMAIN inbox[c], e \in pending'[c] :
          inbox[c][k].id # 0 /\ e.id # 0 => inbox[c][k].id < e.id
    BY <2>1, <2>3 DEF InIdOrder
  <2> QED
    BY <1>1, <2>5, <2>6 DEF InIdOrder
<1> QED
  BY <1>2, <1>3

LEMMA ServiceKeepsOrder ==
  ASSUME ReplyOrder = "inorder", TypeInv, NEW c \in Conns, Service(c), NEW d \in Conns,
         InIdOrder(d)
  PROVE  InIdOrder(d)'
<1>1. ASSUME UNCHANGED pending, NEW m, m.id = 0, Arrive(c, m) PROVE InIdOrder(d)'
  <2>1. CASE d = c
    BY <1>1, <2>1, ArriveKeepsOrder
  <2>2. CASE d # c
    <3>1. inbox'[d] = inbox[d]
      BY <1>1, <2>2 DEF Arrive, TypeInv, TypeOK, NetTypes
    <3> QED
      BY <1>1, <3>1, ReadKeepsOrder
  <2> QED
    BY <2>1, <2>2
<1>2. CASE ServiceGreets(c) \/ ServiceAuthenticates(c) \/ ServiceEvent(c)
  BY <1>1, <1>2 DEF ServiceGreets, ServiceAuthenticates, ServiceEvent, Unsolicited, AuthReply
<1>3. CASE ServiceCloses(c) \/ LinkBreaks(c)
  <2>1. pending' = pending /\ (inbox'[d] = inbox[d] \/ inbox'[d] = << >>)
    BY <1>3 DEF ServiceCloses, LinkBreaks, TypeInv, TypeOK, NetTypes
  <2> QED
    BY <2>1, ReadKeepsOrder
<1>4. CASE ServiceAnswers(c)
  <2>1. PICK e \in pending[c], ok \in BOOLEAN :
          /\ InTurn(c, e)
          /\ pending' = [pending EXCEPT ![c] = @ \ Answered(c, e)]
          /\ IF link[c] = "open" THEN Arrive(c, Reply(e, ok)) ELSE UNCHANGED inbox
    BY <1>4 DEF ServiceAnswers
  <2>2. pending'[d] \subseteq pending[d] /\ e \notin pending'[c]
    BY <2>1 DEF Answered, TypeInv, TypeOK, NetTypes
  <2>3. CASE UNCHANGED inbox
    BY <2>2, <2>3, ReadKeepsOrder
  <2>4. CASE d # c
    <3>1. inbox'[d] = inbox[d]
      BY <2>1, <2>4 DEF Arrive, TypeInv, TypeOK, NetTypes
    <3> QED
      BY <2>2, <3>1, ReadKeepsOrder
  <2>5. CASE Arrive(c, Reply(e, ok)) /\ d = c
    <3> DEFINE m == Reply(e, ok)
    <3>1. m.id = e.id /\ m.id \in Nat
      BY InboxTypes DEF Reply
    <3>2. \A k \in DOMAIN inbox[c] : inbox[c][k].id # 0 /\ m.id # 0 => inbox[c][k].id < m.id
      BY <2>5, <3>1 DEF InIdOrder
    <3>3. \A f \in pending'[c] : f.id # 0 /\ m.id # 0 => m.id < f.id
      <4> SUFFICES ASSUME NEW f \in pending'[c], f.id # 0, m.id # 0 PROVE m.id < f.id
        OBVIOUS
      <4>1. f \in pending[c] /\ f # e
        BY <2>2, <2>5
      <4>2. e.id <= f.id /\ e.id # f.id
        BY <2>1, <2>5, <3>1, <4>1 DEF InTurn, InIdOrder
      <4> QED
        BY <3>1, <4>1, <4>2, InboxTypes
    <3> QED
      BY <2>2, <2>5, <3>1, <3>2, <3>3, ArriveKeepsOrder
  <2> QED
    BY <2>1, <2>3, <2>4, <2>5
<1> QED
  BY <1>2, <1>3, <1>4 DEF Service

\* The awaited responses are where they were, or have moved on to the inbox.
StillReaching(c, id) ==
    \/ \E e \in pending'[c] : e.id = id
    \/ \E k \in DOMAIN inbox'[c] : inbox'[c][k].id = id

LEMMA AwaitingIf ==
  ASSUME NEW t \in Threads, sock' = sock, WantsInOrder(t)',
         sock # 0 /\ link'[sock] = "open" =>
             \A i \in DOMAIN want'[t] : StillReaching(sock, want'[t][i])
  PROVE  Awaiting(t)'
  BY DEF Awaiting, Reaching, StillReaching

LEMMA StillAwaiting ==
  ASSUME NEW t \in Threads, Awaiting(t), pc[t] = "reply", want'[t] = want[t], sock' = sock,
         sock # 0 /\ link'[sock] = "open" =>
             /\ link[sock] = "open"
             /\ \A i \in DOMAIN want[t] :
                   Reaching(sock, want[t][i]) => StillReaching(sock, want[t][i])
  PROVE  Awaiting(t)'
<1>1. WantsInOrder(t)'
  BY DEF Awaiting, WantsInOrder
<1>2. sock # 0 /\ link'[sock] = "open" =>
          \A i \in DOMAIN want'[t] : StillReaching(sock, want'[t][i])
  BY DEF Awaiting
<1> QED
  BY <1>1, <1>2, AwaitingIf

LEMMA AwaitingElsewhere ==
  ASSUME NEW t \in Threads, Turn(t), pc'[t] # "reply"
  PROVE  \A u \in Threads : Awaiting(u)'
  BY DEF Turn, Awaiting

LEMMA AwaitingHere ==
  ASSUME NEW t \in Threads, Turn(t), Awaiting(t)'
  PROVE  \A u \in Threads : Awaiting(u)'
<1> SUFFICES ASSUME NEW u \in Threads, u # t PROVE Awaiting(u)'
  BY DEF Awaiting, WantsInOrder, Reaching
<1> QED
  BY DEF Turn, Awaiting

LEMMA AwaitingUntouched ==
  ASSUME AwaitInv, UNCHANGED <<pc, want, sock, link, inbox, pending>>
  PROVE  AwaitInv'
  BY DEF AwaitInv, Awaiting, WantsInOrder, Reaching, InIdOrder

\* The frame written, its responses are being computed.
LEMMA TransmitAwaits ==
  ASSUME TypeInv, TypeInv', OwnAnswersInv, AwaitInv, NEW t \in Threads, Turn(t), Transmit(t),
         ~WriteFails(t)
  PROVE  AwaitInv'
<1> DEFINE entries == {[id |-> base[t] + i, req |-> Own(t, i)] : i \in 1..Parts(t)}
<1>1. /\ pc[t] = "transmit" /\ Writable /\ Written /\ Submit(entries)
      /\ want' = [want EXCEPT ![t] = [i \in 1..Parts(t) |-> base[t] + i]]
      /\ UNCHANGED <<op, sock>>
  BY DEF Transmit
<1>2. /\ base[t] = messageId /\ base[t] \in Nat /\ Parts(t) \in Nat
      /\ sock \in Conns
  BY <1>1, SizeAssumption DEF OwnAnswersInv, CallInv, HoldsLock, Parts, TypeInv, TypeOK,
     ClientTypes, ThreadTypes, Writable, Conns
<1>3. want'[t] = [i \in 1..Parts(t) |-> base[t] + i]
  BY <1>1 DEF TypeInv, TypeOK, ThreadTypes
<1>4. \A c \in Conns : InIdOrder(c)'
  <2>1. \A e \in entries : e.id \in Nat /\ e.id > messageId
    BY <1>2
  <2>2. \A p \in Carried(sock) : p[1] \in Nat /\ p[1] <= messageId
    BY <1>2, CarriedIds DEF OwnAnswersInv, IdsGivenOut
  <2>3. \A e \in entries : \A p \in Carried(sock) : p[1] < e.id
    BY <1>2, <2>1, <2>2
  <2>4. \A e, f \in entries : e.id = f.id => e = f
    BY <1>2
  <2> HIDE DEF entries
  <2> QED
    BY <1>1, <2>1, <2>3, <2>4, SubmitKeepsOrder DEF AwaitInv
<1>5. Awaiting(t)'
  <2>1. WantsInOrder(t)'
    BY <1>2, <1>3 DEF WantsInOrder
  <2>2. ASSUME link'[sock] = "open", NEW i \in 1..Parts(t)
        PROVE  \E e \in pending'[sock] : e.id = base[t] + i
    <3>1. link[sock] # "eof"
      BY <1>1, <1>2, <2>2 DEF Written, TypeInv, TypeOK, NetTypes
    <3>2. entries \subseteq pending'[sock]
      BY <1>1, <1>2, <3>1 DEF Submit, TypeInv, TypeOK, NetTypes
    <3>3. [id |-> base[t] + i, req |-> Own(t, i)] \in entries
      OBVIOUS
    <3> HIDE DEF entries
    <3>4. [id |-> base[t] + i, req |-> Own(t, i)] \in pending'[sock]
      BY <3>2, <3>3
    <3>5. [id |-> base[t] + i, req |-> Own(t, i)].id = base[t] + i
      OBVIOUS
    <3> QED
      BY <3>4, <3>5
  <2> HIDE DEF entries
  <2>3. ASSUME link'[sock] = "open", NEW i \in DOMAIN want'[t]
        PROVE  StillReaching(sock, want'[t][i])
    <3>1. i \in 1..Parts(t) /\ want'[t][i] = base[t] + i
      BY <1>3, <2>3
    <3> QED
      BY <2>2, <2>3, <3>1 DEF StillReaching
  <2> QED
    BY <1>1, <2>1, <2>3, AwaitingIf
<1> QED
  BY <1>4, <1>5, AwaitingHere DEF AwaitInv

\* The message taken is the awaited one or comes before it.
LEMMA TakenInOrder ==
  ASSUME TypeInv, ReadsHandle, AwaitInv, NEW t \in Threads, pc[t] = "reply", CanTake(t),
         link[sock] = "open", NEW i \in DOMAIN want[t], i # 1
  PROVE  Taken(t).id # want[t][i]
<1>1. /\ want[t] \in Seq(Nat \ {0}) /\ want[t] # << >>
      /\ Awaiting(t) /\ on[t] = sock /\ sock \in Conns /\ sock # 0
      /\ inbox[sock] \in Seq(Message) /\ inbox[sock] # << >>
      /\ InIdOrder(sock)
  BY TakenTypes DEF TypeInv, TypeOK, ThreadTypes, NetTypes, InCall, ReadsHandle, AwaitInv,
     CanTake, Conns
<1>2. /\ 1 \in DOMAIN want[t] /\ 1 < i /\ want[t][1] \in Nat \ {0} /\ want[t][i] \in Nat \ {0}
      /\ 1 \in DOMAIN inbox[sock] /\ Taken(t) = inbox[sock][1]
  BY <1>1 DEF Taken
<1>3. want[t][1] < want[t][i] /\ Reaching(sock, want[t][1])
  BY <1>1, <1>2 DEF Awaiting, WantsInOrder
<1> SUFFICES ASSUME Taken(t).id = want[t][i] PROVE FALSE
  OBVIOUS
<1>4. inbox[sock][1].id = want[t][i] /\ want[t][i] # want[t][1] /\ ~(want[t][i] < want[t][1])
  BY <1>2, <1>3
<1>5. ASSUME NEW e \in pending[sock], e.id = want[t][1] PROVE FALSE
  BY <1>1, <1>2, <1>4, <1>5 DEF InIdOrder
<1>6. ASSUME NEW k \in DOMAIN inbox[sock], inbox[sock][k].id = want[t][1] PROVE FALSE
  <2>1. k # 1 /\ 1 < k
    BY <1>1, <1>4, <1>6, InboxTypes
  <2> QED
    BY <1>1, <1>2, <1>4, <1>6, <2>1 DEF InIdOrder
<1> QED
  BY <1>3, <1>5, <1>6 DEF Reaching

\* What is not taken is still there.
LEMMA TakeReaching ==
  ASSUME TypeInv, ReadsHandle, NEW t \in Threads, Take(t), NEW id, id # Taken(t).id,
         Reaching(sock, id)
  PROVE  StillReaching(sock, id)
<1>1. /\ on[t] = sock /\ sock \in Conns /\ inbox[sock] \in Seq(Message) /\ inbox[sock] # << >>
      /\ inbox'[sock] = Tail(inbox[sock]) /\ Taken(t) = inbox[sock][1] /\ UNCHANGED pending
  BY TakenTypes DEF Take, CanTake, Taken, Unread, ReadsHandle, TypeInv, TypeOK, NetTypes
<1>2. ASSUME NEW k \in DOMAIN inbox[sock], inbox[sock][k].id = id
      PROVE  \E j \in DOMAIN inbox'[sock] : inbox'[sock][j].id = id
  <2>1. k # 1 /\ k \in 1..Len(inbox[sock]) /\ Len(inbox[sock]) \in Nat
    BY <1>1, <1>2, InboxTypes
  <2>2. k - 1 \in DOMAIN inbox'[sock] /\ inbox'[sock][k - 1] = inbox[sock][k]
    BY <1>1, <2>1
  <2> QED
    BY <1>2, <2>2
<1> QED
  BY <1>1, <1>2 DEF Reaching, StillReaching

LEMMA TakeOrders ==
  ASSUME TypeInv, AwaitInv, NEW t \in Threads, Take(t)
  PROVE  \A c \in Conns : InIdOrder(c)'
<1>1. OnlyReads /\ UNCHANGED pending
  BY TakeReads DEF Take
<1> QED
  BY <1>1, ReadKeepsOrder DEF OnlyReads, AwaitInv

LEMMA SkipMessageAwaits ==
  ASSUME TypeInv, ReadsHandle, AwaitInv, NEW t \in Threads, Turn(t), SkipMessage(t)
  PROVE  AwaitInv'
<1>1. /\ pc[t] = "reply" /\ Take(t) /\ CanTake(t) /\ Taken(t).id # Head(want[t])
      /\ UNCHANGED <<sock, link>>
  BY DEF SkipMessage, Take
<1>2. \A c \in Conns : InIdOrder(c)'
  BY <1>1, TakeOrders
<1>3. CASE pc'[t] # "reply"
  BY <1>2, <1>3, AwaitingElsewhere DEF AwaitInv
<1>4. CASE UNCHANGED want
  <2>1. /\ want[t] \in Seq(Nat \ {0}) /\ want[t] # << >> /\ Awaiting(t)
    BY <1>1 DEF TypeInv, TypeOK, ThreadTypes, InCall, AwaitInv
  <2>2. Head(want[t]) = want[t][1]
    BY <2>1
  <2>3. ASSUME link[sock] = "open", NEW i \in DOMAIN want[t] PROVE want[t][i] # Taken(t).id
    BY <1>1, <2>2, <2>3, TakenInOrder
  <2>4. Awaiting(t)'
    BY <1>1, <1>4, <2>1, <2>3, TakeReaching, StillAwaiting
  <2> QED
    BY <1>2, <2>4, AwaitingHere DEF AwaitInv
<1>5. ASSUME Finish(t, "lost") PROVE pc'[t] # "reply"
  BY <1>5 DEF Finish, TypeInv, TypeOK, ThreadTypes
<1> QED
  BY <1>3, <1>4, <1>5 DEF SkipMessage

LEMMA RecvMatchingAwaits ==
  ASSUME TypeInv, ReadsHandle, AwaitInv, NEW t \in Threads, Turn(t), RecvMatching(t)
  PROVE  AwaitInv'
<1>1. /\ pc[t] = "reply" /\ Take(t) /\ CanTake(t) /\ UNCHANGED <<sock, link>>
  BY DEF RecvMatching, Take
<1>2. \A c \in Conns : InIdOrder(c)'
  BY <1>1, TakeOrders
<1>3. CASE pc'[t] # "reply"
  BY <1>2, <1>3, AwaitingElsewhere DEF AwaitInv
<1>4. CASE Len(want[t]) # 1 /\ want' = [want EXCEPT ![t] = Tail(@)]
  <2>1. /\ want[t] \in Seq(Nat \ {0}) /\ want[t] # << >> /\ Awaiting(t)
        /\ want'[t] = Tail(want[t])
    BY <1>1, <1>4 DEF TypeInv, TypeOK, ThreadTypes, InCall, AwaitInv
  <2>2. \A i \in DOMAIN want'[t] : /\ i \in Nat /\ i + 1 \in DOMAIN want[t] /\ i + 1 # 1
                                   /\ want'[t][i] = want[t][i + 1]
    <3>1. /\ DOMAIN want'[t] = 1..Len(want'[t]) /\ Len(want'[t]) = Len(want[t]) - 1
          /\ \A i \in 1..Len(want'[t]) : want'[t][i] = want[t][i + 1]
          /\ DOMAIN want[t] = 1..Len(want[t]) /\ Len(want[t]) \in Nat
      BY <1>4, <2>1, TailOfMany, LenProperties
    <3> DEFINE n == Len(want[t])
               d == Len(want'[t])
    <3>2. \A i \in 1..d : i \in Nat /\ i + 1 \in 1..n /\ i + 1 # 1
      <4>1. n \in Nat /\ d = n - 1
        BY <3>1
      <4> HIDE DEF n, d
      <4> QED
        BY <4>1
    <3> QED
      BY <3>1, <3>2
  <2>3. WantsInOrder(t)'
    <3>1. \A i, j \in DOMAIN want'[t] : i < j => i + 1 < j + 1
      BY <2>2
    <3> QED
      BY <1>1, <2>1, <2>2, <3>1 DEF WantsInOrder, Awaiting
  <2>4. ASSUME sock # 0, link[sock] = "open", NEW i \in DOMAIN want'[t]
        PROVE  StillReaching(sock, want'[t][i])
    <3>1. Taken(t).id # want[t][i + 1]
      BY <1>1, <2>2, <2>4, TakenInOrder
    <3>2. Reaching(sock, want[t][i + 1])
      BY <1>1, <2>1, <2>2, <2>4 DEF Awaiting
    <3> QED
      BY <1>1, <2>2, <3>1, <3>2, TakeReaching
  <2>5. Awaiting(t)'
    BY <1>1, <2>3, <2>4, AwaitingIf
  <2> QED
    BY <1>2, <2>5, AwaitingHere DEF AwaitInv
<1>5. ASSUME NEW result, Finish(t, result) PROVE pc'[t] # "reply"
  BY <1>5 DEF Finish, TypeInv, TypeOK, ThreadTypes
<1> QED
  BY <1>3, <1>4, <1>5 DEF RecvMatching

LEMMA TransmitRawOrders ==
  ASSUME TypeInv, AwaitInv, NEW t \in Threads, TransmitRaw(t), ~WriteFails(t)
  PROVE  \A c \in Conns : InIdOrder(c)'
<1> DEFINE entries == {[id |-> 0, req |-> Own(t, 1)]}
<1>1. Writable /\ Written /\ Submit(entries)
  BY DEF TransmitRaw
<1>2. \A e \in entries : e.id = 0
  OBVIOUS
<1> HIDE DEF entries
<1> QED
  BY <1>1, <1>2, SubmitKeepsOrder DEF AwaitInv

LEMMA ThreadAwaits ==
  ASSUME TypeInv, TypeInv', OwnAnswersInv, ReadsHandle, AwaitInv, NEW t \in Threads,
         Turn(t), ThreadStep(t)
  PROVE  AwaitInv'
<1>1. ASSUME UNCHANGED pending PROVE \A c \in Conns : InIdOrder(c)'
  BY <1>1, ThreadReads, ReadKeepsOrder DEF OnlyReads, AwaitInv
<1>2. ASSUME UNCHANGED pending, pc'[t] # "reply" PROVE AwaitInv'
  BY <1>1, <1>2, AwaitingElsewhere DEF AwaitInv
<1>3. ASSUME \/ ConnectReturns(t) \/ (\E result : Finish(t, result))
             \/ \E label : label # "reply" /\ Goto(t, label)
      PROVE  pc'[t] # "reply"
  BY <1>3 DEF ConnectReturns, AfterConnect, Goto, Finish, TypeInv, TypeOK, ThreadTypes
<1>4. ASSUME pc[t] # "reply", UNCHANGED pc PROVE pc'[t] # "reply"
  BY <1>4
<1>5. CASE EnsureConnected(t) \/ Close(t) \/ ConnectStep(t)
  <2>1. UNCHANGED pending
    BY <1>5, ConnectingQuiet
  <2>2. pc'[t] # "reply"
    <3>1. CASE EnsureConnected(t) \/ Close(t) \/ Connect(t)
      BY <1>3, <3>1 DEF EnsureConnected, Close, Connect
    <3>2. CASE Open(t) \/ OpenFails(t) \/ Handshake(t)
      BY <1>3, <3>2 DEF Open, OpenFails, Handshake
    <3>3. CASE RecvReady(t) \/ RecvAuth(t)
      BY <1>3, <3>3 DEF RecvReady, RecvAuth
    <3>4. CASE Authenticate(t)
      BY <1>3, <3>4 DEF Authenticate, WriteFails, Unconnected
    <3> QED
      BY <1>5, <3>1, <3>2, <3>3, <3>4 DEF ConnectStep
  <2> QED
    BY <1>2, <2>1, <2>2
<1>6. CASE Acquire(t)
  BY <1>2, <1>3, <1>6 DEF Acquire, netVars
<1>7. ASSUME WriteFails(t) PROVE AwaitInv'
  BY <1>2, <1>3, <1>7 DEF WriteFails, Unconnected, netVars
<1>8. CASE Transmit(t)
  BY <1>7, <1>8, TransmitAwaits
<1>9. CASE TransmitRaw(t)
  <2>1. CASE ~WriteFails(t)
    <3>1. pc'[t] # "reply"
      BY <1>3, <1>9, <2>1 DEF TransmitRaw
    <3> QED
      BY <1>9, <2>1, <3>1, TransmitRawOrders, AwaitingElsewhere DEF AwaitInv
  <2> QED
    BY <1>7, <2>1
<1>10. CASE RecvMatching(t) \/ SkipMessage(t)
  BY <1>10, RecvMatchingAwaits, SkipMessageAwaits
<1>11. CASE RecvTimeout(t) \/ TimeoutInsideFrame(t) \/ RecvFails(t) \/ RecvRaw(t)
  <2>1. UNCHANGED pending
    BY <1>11, ReceivingQuiet DEF ReceiveStep
  <2>2. pc'[t] # "reply"
    BY <1>3, <1>11 DEF RecvTimeout, TimeoutInsideFrame, RecvFails, RecvRaw
  <2> QED
    BY <1>2, <2>1, <2>2
<1>12. CASE ListenMessage(t)
  BY <1>2, <1>3, <1>4, <1>12 DEF ListenMessage, Take
<1>13. CASE BeginRecv(t)
  <2>1. CASE UNCHANGED <<pc, want>>
    BY <1>13, <2>1, AwaitingUntouched DEF BeginRecv, netVars
  <2>2. CASE \E result : Finish(t, result)
    BY <1>2, <1>3, <1>13, <2>2 DEF BeginRecv, netVars
  <2> QED
    BY <1>13, <2>1, <2>2 DEF BeginRecv, Unconnected
<1> QED
  BY <1>5, <1>6, <1>8, <1>9, <1>10, <1>11, <1>12, <1>13 DEF ThreadStep, ReceiveStep

LEMMA ServiceAwaits ==
  ASSUME ReplyOrder = "inorder", TypeInv, AwaitInv, NEW c \in Conns, Service(c)
  PROVE  AwaitInv'
<1>1. \A d \in Conns : InIdOrder(d)'
  BY ServiceKeepsOrder DEF AwaitInv
<1>2. UNCHANGED <<pc, want, sock>>
  BY DEF Service, ServiceGreets, ServiceAuthenticates, ServiceAnswers, ServiceEvent,
     ServiceCloses, LinkBreaks, threadVars, clientVars
<1>3. ASSUME NEW d \in Conns, link'[d] = "open", NEW id, Reaching(d, id)
      PROVE  link[d] = "open" /\ StillReaching(d, id)
  <2>1. link[d] = "open"
    BY <1>3 DEF Service, ServiceGreets, ServiceAuthenticates, ServiceAnswers, ServiceEvent,
       ServiceCloses, LinkBreaks, TypeInv, TypeOK, NetTypes
  <2>2. ASSUME NEW m, Arrive(c, m)
        PROVE  /\ \A k \in DOMAIN inbox[d] : k \in DOMAIN inbox'[d] /\ inbox'[d][k] = inbox[d][k]
               /\ d = c => \E k \in DOMAIN inbox'[d] : inbox'[d][k] = m
    <3>1. CASE d = c
      <4>1. inbox'[d] = Append(inbox[d], m) /\ inbox[d] \in Seq(Message)
        BY <2>2, <3>1 DEF Arrive, TypeInv, TypeOK, NetTypes
      <4>2. /\ DOMAIN inbox'[d] = 1..(Len(inbox[d]) + 1) /\ inbox'[d][Len(inbox[d]) + 1] = m
            /\ \A k \in 1..Len(inbox[d]) : inbox'[d][k] = inbox[d][k]
            /\ DOMAIN inbox[d] = 1..Len(inbox[d]) /\ Len(inbox[d]) \in Nat
        BY <4>1
      <4> QED
        BY <4>2
    <3>2. CASE d # c
      BY <2>2, <3>2 DEF Arrive, TypeInv, TypeOK, NetTypes
    <3> QED
      BY <3>1, <3>2
  <2>3. CASE ServiceGreets(c) \/ ServiceAuthenticates(c) \/ ServiceEvent(c)
    <3>1. UNCHANGED pending /\ \E m : Arrive(c, m)
      BY <2>3 DEF ServiceGreets, ServiceAuthenticates, ServiceEvent
    <3> QED
      BY <1>3, <2>1, <2>2, <3>1 DEF Reaching, StillReaching
  <2>4. CASE ServiceCloses(c)
    BY <1>3, <2>1, <2>4 DEF ServiceCloses, Reaching, StillReaching
  <2>5. CASE LinkBreaks(c)
    <3>1. d # c
      BY <1>3, <2>5 DEF LinkBreaks, TypeInv, TypeOK, NetTypes
    <3>2. inbox'[d] = inbox[d] /\ pending' = pending
      BY <2>5, <3>1 DEF LinkBreaks, TypeInv, TypeOK, NetTypes
    <3> QED
      BY <1>3, <2>1, <3>2 DEF Reaching, StillReaching
  <2>6. CASE ServiceAnswers(c)
    <3>1. PICK e \in pending[c], ok \in BOOLEAN :
            /\ pending' = [pending EXCEPT ![c] = @ \ Answered(c, e)]
            /\ IF link[c] = "open" THEN Arrive(c, Reply(e, ok)) ELSE UNCHANGED inbox
      BY <2>6 DEF ServiceAnswers
    <3>2. CASE d # c
      <4>1. inbox'[d] = inbox[d] /\ pending'[d] = pending[d]
        BY <3>1, <3>2 DEF Arrive, TypeInv, TypeOK, NetTypes
      <4> QED
        BY <1>3, <2>1, <4>1 DEF Reaching, StillReaching
    <3>3. CASE d = c
      <4>1. Arrive(c, Reply(e, ok)) /\ pending'[d] = pending[d] \ {e}
        BY <2>1, <3>1, <3>3 DEF Answered, TypeInv, TypeOK, NetTypes
      <4>2. \E k \in DOMAIN inbox'[d] : inbox'[d][k].id = e.id
        BY <2>2, <3>3, <4>1 DEF Reply
      <4> QED
        BY <1>3, <2>1, <2>2, <4>1, <4>2 DEF Reaching, StillReaching
    <3> QED
      BY <3>2, <3>3
  <2> QED
    BY <2>3, <2>4, <2>5, <2>6 DEF Service
<1>4. sock # 0 => sock \in Conns
  BY DEF TypeInv, TypeOK, ClientTypes, Conns
<1>5. ASSUME NEW t \in Threads PROVE Awaiting(t)'
  <2>1. CASE pc[t] = "reply"
    <3>1. Awaiting(t)
      BY DEF AwaitInv
    <3>2. sock # 0 /\ link'[sock] = "open" =>
            \A i \in DOMAIN want'[t] : StillReaching(sock, want'[t][i])
      <4> SUFFICES ASSUME sock # 0, link'[sock] = "open", NEW i \in DOMAIN want[t]
                   PROVE  StillReaching(sock, want[t][i])
        BY <1>2
      <4>1. link[sock] = "open"
        BY <1>4 DEF Service, ServiceGreets, ServiceAuthenticates, ServiceAnswers, ServiceEvent,
           ServiceCloses, LinkBreaks, TypeInv, TypeOK, NetTypes
      <4> QED
        BY <1>3, <1>4, <2>1, <3>1, <4>1 DEF Awaiting
    <3>3. WantsInOrder(t)'
      BY <1>2, <2>1, <3>1 DEF Awaiting, WantsInOrder
    <3> QED
      BY <1>2, <3>2, <3>3, AwaitingIf
  <2>2. CASE pc[t] # "reply"
    BY <1>2, <2>2 DEF Awaiting
  <2> QED
    BY <2>1, <2>2
<1> QED
  BY <1>1, <1>5 DEF AwaitInv

\* While a thread waits, every awaited response can still reach it, when the
\* service answers in order and nobody else uses the client meanwhile.
THEOREM AwaitedAnswerCorrect ==
  ASSUME ReplyOrder = "inorder"
  PROVE  Spec /\ []TakeTurns => []AwaitedAnswerOnItsWay
<1>1. Init => ReadsHandle /\ AwaitInv
  BY DEF Init, ReadsHandle, AwaitInv, InIdOrder, Awaiting
<1>2. /\ TakeTurns /\ TakeTurns' /\ OwnAnswersInv /\ OwnAnswersInv'
      /\ ReadsHandle /\ AwaitInv /\ [Next]_vars
      => ReadsHandle' /\ AwaitInv'
  <2> SUFFICES ASSUME TakeTurns, TakeTurns', OwnAnswersInv, OwnAnswersInv', ReadsHandle,
                      AwaitInv, [Next]_vars
               PROVE  ReadsHandle' /\ AwaitInv'
    OBVIOUS
  <2>1. TypeInv /\ TypeInv'
    BY DEF OwnAnswersInv, TypeInv
  <2>2. ReadsHandle'
    BY <2>1, ReadsHandleNext
  <2>3. ASSUME NEW t \in Threads, NEW o \in Ops, Call(t, o) PROVE AwaitInv'
    <3>1. pc'[t] # "reply"
      BY <2>1, <2>3 DEF Call, Goto, TypeInv, TypeOK, ThreadTypes
    <3>2. \A c \in Conns : InIdOrder(c)'
      BY <2>3 DEF Call, netVars, AwaitInv, InIdOrder
    <3>3. Turn(t)
      BY <2>1, <2>3, TheirTurn
    <3> QED
      BY <3>1, <3>2, <3>3, AwaitingElsewhere DEF AwaitInv
  <2>4. ASSUME NEW t \in Threads, ThreadStep(t) PROVE AwaitInv'
    <3>1. Turn(t)
      BY <2>1, <2>4, TheirTurn
    <3> QED
      BY <2>1, <2>4, <3>1, ThreadAwaits
  <2>5. ASSUME NEW c \in Conns, Service(c) PROVE AwaitInv'
    BY <2>1, <2>5, ServiceAwaits
  <2>6. CASE UNCHANGED vars
    BY <2>2, <2>6, AwaitingUntouched DEF vars, threadVars, clientVars, netVars
  <2> QED
    BY <2>2, <2>3, <2>4, <2>5, <2>6 DEF Next, AllCallsMade
<1>3. OwnAnswersInv /\ ReadsHandle /\ AwaitInv => AwaitedAnswerOnItsWay
  <2> SUFFICES ASSUME OwnAnswersInv, ReadsHandle, AwaitInv PROVE AwaitedAnswerOnItsWay
    OBVIOUS
  <2> QED
    BY DEF ReadsHandle, AwaitInv, Awaiting, AwaitedAnswerOnItsWay, Reaching
<1> QED
  BY <1>1, <1>2, <1>3, OwnIds, PTL DEF Spec

----------------------------------------------------------------------------
(* A client that connects through a tunnel is admitted.                     *)

Greetings == {"ready", "other"}

\* The service speaks first, once; what it says before it has accepted the
\* password grants nothing.
GreetsFirst(c) ==
    /\ ~greeted[c] => inbox[c] = << >> /\ auth[c] = "none"
    /\ \A k \in DOMAIN inbox[c] : inbox[c][k].kind \in Greetings => k = 1
    /\ Password /\ auth[c] # "accepted" =>
           \A k \in DOMAIN inbox[c] : inbox[c][k].ok => inbox[c][k].kind \in Greetings

GreetingTaken(c) ==
    greeted[c] /\ \A k \in DOMAIN inbox[c] : inbox[c][k].kind \notin Greetings

\* The flag _ready is set when the service has admitted the client, and is not
\* set while connect() is under way.
Admitting(t) ==
    /\ pc[t] \in {"authenticate", "auth"} /\ sock # 0 => GreetingTaken(sock)
    /\ pc[t] \in {"open", "handshake", "ready", "authenticate", "auth"} => ~ready

AdmitInv ==
    /\ \A c \in Conns : GreetsFirst(c)
    /\ ready => HandleAdmitted
    /\ \A t \in Threads : Admitting(t)

\* What is read and what is asked changes nothing of it.
LEMMA ReadKeepsGreeting ==
  ASSUME TypeInv, NEW c \in Conns, GreetsFirst(c), greeted'[c] = greeted[c],
         auth'[c] = auth[c] \/ (auth'[c] = "asked" /\ auth[c] = "none" /\ greeted[c]),
         \/ inbox'[c] = inbox[c] \/ inbox'[c] = << >>
         \/ inbox[c] # << >> /\ inbox'[c] = Tail(inbox[c])
  PROVE  GreetsFirst(c)'
<1>1. CASE inbox'[c] = inbox[c]
  BY <1>1 DEF GreetsFirst
<1>2. CASE inbox'[c] = << >>
  BY <1>2 DEF GreetsFirst
<1>3. CASE inbox[c] # << >> /\ inbox'[c] = Tail(inbox[c])
  <2>1. \A k \in DOMAIN inbox'[c] :
          k + 1 \in DOMAIN inbox[c] /\ k + 1 # 1 /\ inbox'[c][k] = inbox[c][k + 1]
    BY <1>3, InboxTypes
  <2> QED
    BY <1>3, <2>1 DEF GreetsFirst
<1> QED
  BY <1>1, <1>2, <1>3

LEMMA ServiceKeepsGreeting ==
  ASSUME TypeInv, NEW c \in Conns, Service(c), NEW d \in Conns, GreetsFirst(d)
  PROVE  /\ GreetsFirst(d)'
         /\ GreetingTaken(d) => GreetingTaken(d)'
         /\ Admitted(d) => Admitted(d)'
<1>2. CASE d # c
  <2>1. greeted'[d] = greeted[d] /\ auth'[d] = auth[d] /\ inbox'[d] = inbox[d]
    BY <1>2 DEF Service, ServiceGreets, ServiceAuthenticates, ServiceAnswers, ServiceEvent,
       ServiceCloses, LinkBreaks, Arrive, TypeInv, TypeOK, NetTypes
  <2> QED
    BY <2>1 DEF GreetsFirst, GreetingTaken, Admitted
<1>3. CASE d = c
  <2>1. ASSUME NEW m, Arrive(c, m)
        PROVE  \A k \in DOMAIN inbox'[c] : \/ k \in DOMAIN inbox[c] /\ inbox'[c][k] = inbox[c][k]
                                           \/ k = Len(inbox[c]) + 1 /\ inbox'[c][k] = m
    <3>1. inbox'[c] = Append(inbox[c], m) /\ inbox[c] \in Seq(Message)
      BY <2>1 DEF Arrive, TypeInv, TypeOK, NetTypes
    <3> QED
      BY <3>1, InboxTypes
  <2>2. CASE ServiceGreets(c)
    <3>1. PICK kind \in Greetings : Arrive(c, Unsolicited(kind))
      BY <2>2 DEF ServiceGreets, Greetings
    <3>2. inbox[c] = << >> /\ auth[c] = "none" /\ greeted'[c] /\ UNCHANGED auth /\ ~greeted[c]
      BY <1>3, <2>2 DEF ServiceGreets, GreetsFirst, TypeInv, TypeOK, NetTypes
    <3>3. \A k \in DOMAIN inbox'[c] : k = 1 /\ inbox'[c][k].kind \in Greetings
      BY <2>1, <3>1, <3>2 DEF Unsolicited
    <3> QED
      BY <1>3, <3>2, <3>3 DEF GreetsFirst, GreetingTaken, Admitted
  <2>3. CASE ServiceAuthenticates(c)
    <3>1. PICK ok \in BOOLEAN :
            /\ Arrive(c, AuthReply(ok))
            /\ auth'[c] = IF ok THEN "accepted" ELSE "refused"
      BY <2>3 DEF ServiceAuthenticates, TypeInv, TypeOK, NetTypes
    <3>2. greeted[c] /\ UNCHANGED greeted /\ auth[c] # "accepted"
      BY <1>3, <2>3 DEF ServiceAuthenticates, GreetsFirst
    <3>3. AuthReply(ok).kind \notin Greetings /\ AuthReply(ok).ok = ok
      BY DEF AuthReply, Greetings
    <3> QED
      BY <1>3, <2>1, <3>1, <3>2, <3>3 DEF GreetsFirst, GreetingTaken, Admitted
  <2>4. CASE ServiceAnswers(c)
    <3>1. PICK e \in pending[c], ok \in BOOLEAN :
            /\ Password /\ auth[c] # "accepted" => ~ok
            /\ IF link[c] = "open" THEN Arrive(c, Reply(e, ok)) ELSE UNCHANGED inbox
      BY <2>4 DEF ServiceAnswers
    <3>2. greeted[c] /\ UNCHANGED <<greeted, auth>>
      BY <2>4 DEF ServiceAnswers
    <3>3. Reply(e, ok).kind \notin Greetings /\ Reply(e, ok).ok = ok
      BY DEF Reply, Greetings
    <3> QED
      BY <1>3, <2>1, <3>1, <3>2, <3>3 DEF GreetsFirst, GreetingTaken, Admitted
  <2>5. CASE ServiceEvent(c)
    <3>1. /\ Arrive(c, Unsolicited("event")) /\ UNCHANGED <<greeted, auth>>
          /\ greeted[c] /\ (Password => auth[c] = "accepted")
      BY <2>5 DEF ServiceEvent, Admitted
    <3>2. Unsolicited("event").kind \notin Greetings
      BY DEF Unsolicited, Greetings
    <3> QED
      BY <1>3, <2>1, <3>1, <3>2 DEF GreetsFirst, GreetingTaken, Admitted
  <2>6. CASE ServiceCloses(c) \/ LinkBreaks(c)
    <3>1. UNCHANGED <<greeted, auth>> /\ (inbox'[c] = inbox[c] \/ inbox'[c] = << >>)
      BY <2>6 DEF ServiceCloses, LinkBreaks, TypeInv, TypeOK, NetTypes
    <3> QED
      BY <1>3, <3>1, ReadKeepsGreeting DEF GreetingTaken, Admitted
  <2> QED
    BY <2>2, <2>3, <2>4, <2>5, <2>6 DEF Service
<1> QED
  BY <1>2, <1>3

LEMMA ThreadKeepsGreeting ==
  ASSUME TypeInv, AdmitInv, NEW t \in Threads, ThreadStep(t)
  PROVE  \A c \in Conns : GreetsFirst(c)' /\ (Admitted(c) => Admitted(c)')
<1>1. OnlyReads
  BY ThreadReads
<1>2. UNCHANGED greeted
  <2>1. CASE EnsureConnected(t) \/ Close(t) \/ Acquire(t) \/ Transmit(t) \/ TransmitRaw(t)
    BY <2>1 DEF EnsureConnected, Close, Acquire, Transmit, TransmitRaw, WriteFails, netVars
  <2>2. CASE ConnectStep(t)
    BY <2>2 DEF ConnectStep, Connect, Open, OpenFails, Handshake, RecvReady, Authenticate,
       RecvAuth, Take, WriteFails, netVars
  <2>3. CASE ReceiveStep(t)
    BY <2>3 DEF ReceiveStep, BeginRecv, RecvTimeout, TimeoutInsideFrame, RecvFails,
       RecvMatching, SkipMessage, RecvRaw, ListenMessage, Take, netVars
  <2> QED
    BY <2>1, <2>2, <2>3 DEF ThreadStep
<1>3. \A c \in Conns : \/ auth'[c] = auth[c]
                       \/ auth'[c] = "asked" /\ auth[c] = "none" /\ greeted[c]
  <2>1. CASE EnsureConnected(t) \/ Close(t) \/ Acquire(t) \/ Transmit(t) \/ TransmitRaw(t)
    BY <2>1 DEF EnsureConnected, Close, Acquire, Transmit, TransmitRaw, WriteFails, netVars
  <2>2. CASE ConnectStep(t) /\ ~Authenticate(t)
    BY <2>2 DEF ConnectStep, Connect, Open, OpenFails, Handshake, RecvReady,
       RecvAuth, Take, WriteFails, netVars
  <2>3. CASE ReceiveStep(t)
    BY <2>3 DEF ReceiveStep, BeginRecv, RecvTimeout, TimeoutInsideFrame, RecvFails,
       RecvMatching, SkipMessage, RecvRaw, ListenMessage, Take, netVars
  <2>4. CASE Authenticate(t)
    <3>1. CASE WriteFails(t)
      BY <3>1 DEF WriteFails, netVars
    <3>2. CASE ~WriteFails(t)
      <4>1. /\ pc[t] = "authenticate" /\ sock # 0
            /\ auth' = [auth EXCEPT ![sock] =
                            IF @ = "none" /\ link[sock] # "eof" THEN "asked" ELSE @]
        BY <2>4, <3>2 DEF Authenticate, Writable
      <4>2. greeted[sock]
        BY <4>1 DEF AdmitInv, Admitting, GreetingTaken
      <4> QED
        BY <4>1, <4>2 DEF TypeInv, TypeOK, NetTypes
    <3> QED
      BY <3>1, <3>2
  <2> QED
    BY <2>1, <2>2, <2>3, <2>4 DEF ThreadStep
<1> QED
  BY <1>1, <1>2, <1>3, ReadKeepsGreeting DEF OnlyReads, AdmitInv, Admitted

ConnectLabels == {"open", "handshake", "ready", "authenticate", "auth"}

LEMMA ReadyStays ==
  ASSUME TypeInv, AdmitInv, NEW t \in Threads, ThreadStep(t), ready' => ready, sock' = sock
  PROVE  ready' => HandleAdmitted'
<1> SUFFICES ASSUME ready' PROVE HandleAdmitted'
  OBVIOUS
<1>1. sock \in Conns /\ Admitted(sock)
  BY BoundAssumption DEF AdmitInv, HandleAdmitted, TypeInv, TypeOK, ClientTypes, Conns
<1>2. Admitted(sock) => greeted'[sock] /\ (Password => auth'[sock] = "accepted")
  BY <1>1, ThreadKeepsGreeting DEF Admitted
<1> QED
  BY <1>1, <1>2 DEF HandleAdmitted, Admitted, Conns

LEMMA NotConnecting ==
  ASSUME NEW t \in Threads, pc'[t] \notin ConnectLabels PROVE Admitting(t)'
  BY DEF Admitting, ConnectLabels

LEMMA AdmitsElsewhere ==
  ASSUME TypeInv, NEW t \in Threads,
         \/ ConnectReturns(t) \/ (\E result : Finish(t, result))
         \/ \E label : label \notin ConnectLabels /\ Goto(t, label)
         \/ pc[t] \notin ConnectLabels /\ UNCHANGED pc
  PROVE  Admitting(t)'
<1>1. pc'[t] \notin ConnectLabels
  BY DEF ConnectReturns, AfterConnect, Goto, Finish, ConnectLabels, TypeInv, TypeOK,
     ThreadTypes
<1> QED
  BY <1>1, NotConnecting

\* A connect that finds the client connected, opens a connection and shakes hands.
LEMMA OpeningAdmits ==
  ASSUME Method = "proxy", TypeInv, ReadsHandle, AdmitInv, NEW t \in Threads,
         Connect(t) \/ Open(t) \/ OpenFails(t) \/ Handshake(t)
  PROVE  (ready' => HandleAdmitted') /\ Admitting(t)'
<1> USE DEF ConnectLabels
<1>1. ThreadStep(t) /\ pc[t] \in Labels
  BY DEF ThreadStep, ConnectStep, TypeInv, TypeOK, ThreadTypes
<1>2. CASE Connect(t)
  <2>1. sock' = sock /\ ready' = ready
    BY <1>2 DEF Connect
  <2>2. CASE Connected
    BY <1>1, <1>2, <2>1, <2>2, ReadyStays, AdmitsElsewhere DEF Connect
  <2>3. CASE ~Connected
    <3>1. ~ready'
      BY <2>1, <2>3 DEF Connected, AdmitInv, HandleAdmitted
    <3>2. pc'[t] = "open"
      BY <1>2, <2>3 DEF Connect, Goto, TypeInv, TypeOK, ThreadTypes
    <3> QED
      BY <3>1, <3>2 DEF Admitting
  <2> QED
    BY <2>2, <2>3
<1>3. CASE Open(t)
  <2>1. ~ready'
    BY <1>3 DEF Open, AdmitInv, Admitting
  <2>2. pc'[t] = "handshake"
    BY <1>3 DEF Open, Goto, TypeInv, TypeOK, ThreadTypes
  <2> QED
    BY <2>1, <2>2 DEF Admitting
<1>4. CASE OpenFails(t)
  BY <1>1, <1>4, ReadyStays, AdmitsElsewhere DEF OpenFails
<1>5. CASE Handshake(t)
  <2>1. ~ready'
    BY <1>5 DEF Handshake, CloseHandle, AdmitInv, Admitting
  <2>2. pc'[t] = "ready" \/ pc'[t] = "idle"
    BY <1>5 DEF Handshake, Goto, Finish, TypeInv, TypeOK, ThreadTypes
  <2> QED
    BY <2>1, <2>2 DEF Admitting
<1> QED
  BY <1>2, <1>3, <1>4, <1>5

LEMMA RecvReadyAdmits ==
  ASSUME Method = "proxy", TypeInv, ReadsHandle, AdmitInv, NEW t \in Threads,
         RecvReady(t)
  PROVE  (ready' => HandleAdmitted') /\ Admitting(t)'
<1> USE DEF ConnectLabels
<1>1. /\ pc[t] = "ready" /\ CanTake(t) /\ ~ready /\ on[t] = sock /\ sock \in Conns /\ sock # 0
      /\ inbox[sock] \in Seq(Message) /\ inbox[sock] # << >> /\ GreetsFirst(sock)
  BY TakenTypes DEF RecvReady, AdmitInv, Admitting, ReadsHandle, CanTake, TypeInv, TypeOK,
     NetTypes
<1>2. greeted[sock] /\ 1 \in DOMAIN inbox[sock]
  BY <1>1 DEF GreetsFirst
<1>3. CASE Taken(t).kind # "ready"
  <2>1. ~ready' /\ Finish(t, "lost")
    BY <1>3 DEF RecvReady, CloseHandle
  <2> QED
    BY <2>1, AdmitsElsewhere
<1>4. CASE Taken(t).kind = "ready" /\ ~Password
  <2>1. ConnectReturns(t) /\ sock' = sock /\ greeted' = greeted
    BY <1>4 DEF RecvReady, Take
  <2>2. HandleAdmitted'
    BY <1>1, <1>2, <1>4, <2>1 DEF HandleAdmitted, Admitted
  <2> QED
    BY <2>1, <2>2, AdmitsElsewhere
<1>5. CASE Taken(t).kind = "ready" /\ Password
  <2>1. ~ready' /\ pc'[t] = "authenticate" /\ sock' = sock /\ greeted' = greeted
        /\ inbox'[sock] = Tail(inbox[sock])
    BY <1>1, <1>5 DEF RecvReady, Take, Unread, Goto, TypeInv, TypeOK, ThreadTypes, NetTypes
  <2>2. \A k \in DOMAIN inbox'[sock] :
          k + 1 \in DOMAIN inbox[sock] /\ k + 1 # 1 /\ inbox'[sock][k] = inbox[sock][k + 1]
    BY <1>1, <2>1, InboxTypes
  <2>3. \A k \in DOMAIN inbox'[sock] : inbox'[sock][k].kind \notin Greetings
    BY <1>1, <2>2 DEF GreetsFirst
  <2> QED
    BY <1>2, <2>1, <2>3 DEF Admitting, GreetingTaken
<1> QED
  BY <1>3, <1>4, <1>5

LEMMA AuthenticateAdmits ==
  ASSUME Method = "proxy", TypeInv, ReadsHandle, AdmitInv, NEW t \in Threads,
         Authenticate(t)
  PROVE  (ready' => HandleAdmitted') /\ Admitting(t)'
<1> USE DEF ConnectLabels
<1>1. pc[t] = "authenticate" /\ ~ready
  BY DEF Authenticate, AdmitInv, Admitting
<1>2. CASE WriteFails(t)
  <2>1. \E result : Finish(t, result)
    BY <1>2 DEF WriteFails, Unconnected
  <2>2. ~ready'
    BY <1>1, <1>2 DEF WriteFails, Unconnected
  <2> QED
    BY <2>1, <2>2, AdmitsElsewhere
<1>3. CASE ~WriteFails(t)
  <2>1. ~ready' /\ pc'[t] = "auth" /\ sock' = sock /\ greeted' = greeted /\ Written
    BY <1>1, <1>3 DEF Authenticate, Goto, TypeInv, TypeOK, ThreadTypes
  <2>2. sock # 0 => sock \in Conns /\ GreetingTaken(sock)
    BY <1>1 DEF AdmitInv, Admitting, TypeInv, TypeOK, ClientTypes, Conns
  <2>3. sock # 0 => inbox'[sock] = inbox[sock] \/ inbox'[sock] = << >>
    BY <2>1, <2>2 DEF Written, TypeInv, TypeOK, NetTypes
  <2>4. sock # 0 => greeted'[sock] /\ \A k \in DOMAIN inbox'[sock] :
                                          inbox'[sock][k].kind \notin Greetings
    BY <2>1, <2>2, <2>3 DEF GreetingTaken
  <2> QED
    BY <2>1, <2>4 DEF Admitting, GreetingTaken
<1> QED
  BY <1>2, <1>3

\* What says yes to the password is the service's acceptance of it.
LEMMA RecvAuthAdmits ==
  ASSUME Method = "proxy", TypeInv, ReadsHandle, AdmitInv, NEW t \in Threads,
         RecvAuth(t)
  PROVE  (ready' => HandleAdmitted') /\ Admitting(t)'
<1> USE DEF ConnectLabels
<1>1. /\ pc[t] = "auth" /\ CanTake(t) /\ ~ready /\ on[t] = sock /\ sock \in Conns /\ sock # 0
      /\ inbox[sock] \in Seq(Message) /\ inbox[sock] # << >> /\ GreetsFirst(sock)
      /\ GreetingTaken(sock)
  BY TakenTypes DEF RecvAuth, AdmitInv, Admitting, ReadsHandle, CanTake, TypeInv, TypeOK,
     NetTypes
<1>2. 1 \in DOMAIN inbox[sock] /\ Taken(t) = inbox[sock][1]
  BY <1>1 DEF Taken
<1>3. CASE ~Taken(t).ok
  <2>1. ~ready' /\ Finish(t, "denied")
    BY <1>3 DEF RecvAuth, CloseHandle
  <2> QED
    BY <2>1, AdmitsElsewhere
<1>4. CASE Taken(t).ok
  <2>1. ConnectReturns(t) /\ sock' = sock /\ greeted' = greeted /\ auth' = auth
    BY <1>4 DEF RecvAuth, Take
  <2>2. Admitted(sock)
    BY <1>1, <1>2, <1>4 DEF GreetsFirst, GreetingTaken, Admitted
  <2>3. HandleAdmitted'
    BY <1>1, <2>1, <2>2 DEF HandleAdmitted, Admitted
  <2> QED
    BY <2>1, <2>3, AdmitsElsewhere
<1> QED
  BY <1>3, <1>4

LEMMA OtherStepAdmits ==
  ASSUME Method = "proxy", TypeInv, ReadsHandle, AdmitInv, NEW t \in Threads,
         ThreadStep(t), ~ConnectStep(t)
  PROVE  (ready' => HandleAdmitted') /\ Admitting(t)'
<1> USE DEF ConnectLabels
<1>1. ASSUME WriteFails(t) PROVE (ready' => HandleAdmitted') /\ Admitting(t)'
  BY <1>1, ReadyStays, AdmitsElsewhere DEF WriteFails, Unconnected
<1>2. CASE EnsureConnected(t)
  BY <1>2, ReadyStays, AdmitsElsewhere DEF EnsureConnected
<1>3. CASE Close(t)
  <2>1. ~ready'
    BY <1>3 DEF Close, CloseHandle
  <2> QED
    BY <1>3, <2>1, AdmitsElsewhere DEF Close
<1>4. CASE Acquire(t)
  BY <1>4, ReadyStays, AdmitsElsewhere DEF Acquire
<1>5. CASE Transmit(t) \/ TransmitRaw(t)
  BY <1>1, <1>5, ReadyStays, AdmitsElsewhere DEF Transmit, TransmitRaw
<1>6. CASE BeginRecv(t)
  <2>1. ready' => HandleAdmitted'
    BY <1>6, ReadyStays DEF BeginRecv, Unconnected
  <2>2. CASE UNCHANGED <<pc, ready>>
    <3>1. UNCHANGED <<sock, greeted, inbox>>
      BY <1>6 DEF BeginRecv, netVars
    <3> QED
      BY <2>1, <2>2, <3>1 DEF AdmitInv, Admitting, GreetingTaken
  <2>3. CASE \E result : Finish(t, result)
    BY <2>1, <2>3, AdmitsElsewhere
  <2> QED
    BY <1>6, <2>2, <2>3 DEF BeginRecv, Unconnected
<1>7. CASE RecvTimeout(t) \/ TimeoutInsideFrame(t) \/ RecvFails(t)
  <2>1. sock' = sock /\ ready' \in {ready, FALSE}
    BY <1>7 DEF RecvTimeout, TimeoutInsideFrame, RecvFails
  <2>2. \E result : Finish(t, result)
    BY <1>7 DEF RecvTimeout, TimeoutInsideFrame, RecvFails
  <2>3. ready' => ready
    BY <2>1
  <2> QED
    BY <2>1, <2>2, <2>3, ReadyStays, AdmitsElsewhere
<1>8. CASE RecvMatching(t) \/ SkipMessage(t)
  BY <1>8, ReadyStays, AdmitsElsewhere DEF RecvMatching, SkipMessage
<1>9. CASE RecvRaw(t) \/ ListenMessage(t)
  BY <1>9, ReadyStays, AdmitsElsewhere DEF RecvRaw, ListenMessage
<1> QED
  BY <1>2, <1>3, <1>4, <1>5, <1>6, <1>7, <1>8, <1>9 DEF ThreadStep, ReceiveStep

LEMMA ServiceAdmits ==
  ASSUME TypeInv, AdmitInv, NEW c \in Conns, Service(c)
  PROVE  AdmitInv'
<1>1. UNCHANGED <<pc, sock, ready>>
  BY DEF Service, ServiceGreets, ServiceAuthenticates, ServiceAnswers, ServiceEvent,
     ServiceCloses, LinkBreaks, threadVars, clientVars
<1>2. \A d \in Conns : GreetsFirst(d)'
  BY ServiceKeepsGreeting DEF AdmitInv
<1>3. sock # 0 => sock \in Conns
  BY DEF TypeInv, TypeOK, ClientTypes, Conns
<1>4. ASSUME NEW d \in Conns
      PROVE  /\ Admitted(d) => greeted'[d] /\ (Password => auth'[d] = "accepted")
             /\ GreetingTaken(d) =>
                    greeted'[d] /\ \A k \in DOMAIN inbox'[d] : inbox'[d][k].kind \notin Greetings
  <2>1. GreetsFirst(d)
    BY DEF AdmitInv
  <2> QED
    BY <2>1, ServiceKeepsGreeting DEF Admitted, GreetingTaken
<1>5. ready' => HandleAdmitted'
  BY <1>1, <1>3, <1>4 DEF AdmitInv, HandleAdmitted, Admitted
<1>6. \A t \in Threads : Admitting(t)'
  BY <1>1, <1>3, <1>4 DEF AdmitInv, Admitting, GreetingTaken
<1> QED
  BY <1>2, <1>5, <1>6 DEF AdmitInv

LEMMA AdmitNext ==
  ASSUME Method = "proxy", TypeInv, TakeTurns, TakeTurns', ReadsHandle, AdmitInv,
         [Next]_vars
  PROVE  AdmitInv'
<1>1. ASSUME NEW t \in Threads, NEW o \in Ops, Call(t, o) PROVE AdmitInv'
  <2>1. pc'[t] \notin ConnectLabels
    BY <1>1 DEF Call, Goto, ConnectLabels, TypeInv, TypeOK, ThreadTypes
  <2>2. \A u \in Threads : Admitting(u)'
    BY <1>1, <2>1, TheirTurn, NotConnecting DEF Turn, ConnectLabels
  <2> QED
    BY <1>1, <2>2 DEF Call, clientVars, netVars, AdmitInv, GreetsFirst, HandleAdmitted, Admitted
<1>2. ASSUME NEW t \in Threads, ThreadStep(t) PROVE AdmitInv'
  <2>1. (ready' => HandleAdmitted') /\ Admitting(t)'
    BY <1>2, OpeningAdmits, RecvReadyAdmits, AuthenticateAdmits, RecvAuthAdmits,
       OtherStepAdmits DEF ConnectStep
  <2>2. \A c \in Conns : GreetsFirst(c)'
    BY <1>2, ThreadKeepsGreeting
  <2>3. \A u \in Threads : Admitting(u)'
    <3>1. \A u \in Threads \ {t} : pc'[u] \notin ConnectLabels
      BY <1>2, TheirTurn DEF Turn, ConnectLabels
    <3> QED
      BY <2>1, <3>1, NotConnecting
  <2> QED
    BY <2>1, <2>2, <2>3 DEF AdmitInv
<1>3. ASSUME NEW c \in Conns, Service(c) PROVE AdmitInv'
  BY <1>3, ServiceAdmits
<1>4. CASE UNCHANGED vars
  BY <1>4 DEF vars, threadVars, clientVars, netVars, AdmitInv, GreetsFirst, HandleAdmitted,
     Admitted, Admitting, GreetingTaken
<1> QED
  BY <1>1, <1>2, <1>3, <1>4 DEF Next, AllCallsMade

\* A connect() that returns has set _ready, or found it set.
LEMMA ConnectReady ==
  ASSUME Method = "proxy", TypeInv, ControlInv, NEW t \in Threads, ThreadStep(t),
         op[t] \in {"connect", "reconnect"}, outcome[t] = "none", outcome'[t] = "ok"
  PROVE  ready'
<1> USE DEF Finish, TypeInv, TypeOK, ThreadTypes
<1>1. pc[t] \notin {"reply", "raw", "listen"}
  BY DEF ControlInv, Fits
<1>2. ASSUME NEW result \in Outcomes \ {"ok"}, Finish(t, result) PROVE FALSE
  BY <1>2
<1>3. ASSUME UNCHANGED outcome PROVE FALSE
  BY <1>3
<1>4. CASE EnsureConnected(t)
  BY <1>2, <1>3, <1>4 DEF EnsureConnected, Connected, Outcomes
<1>5. CASE Close(t)
  BY <1>3, <1>5 DEF Close
<1>6. CASE Connect(t)
  BY <1>3, <1>6 DEF Connect, Connected
<1>7. CASE Open(t) \/ OpenFails(t) \/ Handshake(t)
  BY <1>2, <1>3, <1>7 DEF Open, OpenFails, Handshake, Outcomes
<1>8. CASE RecvReady(t) \/ RecvAuth(t)
  BY <1>2, <1>3, <1>8 DEF RecvReady, RecvAuth, Outcomes
<1>9. ASSUME WriteFails(t) PROVE FALSE
  BY <1>2, <1>9 DEF WriteFails, Unconnected, Outcomes
<1>10. CASE Authenticate(t) \/ Acquire(t)
  BY <1>3, <1>9, <1>10 DEF Authenticate, Acquire
<1>11. CASE Transmit(t) \/ TransmitRaw(t)
  BY <1>3, <1>9, <1>11 DEF Transmit, TransmitRaw
<1>12. CASE BeginRecv(t) \/ RecvTimeout(t)
  BY <1>1, <1>2, <1>3, <1>12 DEF BeginRecv, RecvTimeout, Unconnected, Outcomes
<1>13. CASE TimeoutInsideFrame(t) \/ RecvFails(t)
  BY <1>1, <1>2, <1>13 DEF TimeoutInsideFrame, RecvFails, Outcomes
<1>14. CASE RecvMatching(t) \/ SkipMessage(t) \/ RecvRaw(t) \/ ListenMessage(t)
  BY <1>1, <1>14 DEF RecvMatching, SkipMessage, RecvRaw, ListenMessage
<1> QED
  BY <1>4, <1>5, <1>6, <1>7, <1>8, <1>10, <1>11, <1>12, <1>13, <1>14
  DEF ThreadStep, ConnectStep, ReceiveStep

\* Through a tunnel, and for threads that take turns, a connect() or reconnect()
\* that returns leaves a client the service has greeted and, if there is a
\* password, accepted.
THEOREM ConnectedMeansAdmittedCorrect ==
  ASSUME Method = "proxy"
  PROVE  Spec /\ []TakeTurns => ConnectedMeansAdmitted
<1>1. Init => TypeInv /\ ReadsHandle /\ AdmitInv
  BY TypeInit DEF Init, ReadsHandle, AdmitInv, GreetsFirst, Admitting
<1>2. TakeTurns /\ TakeTurns' /\ TypeInv /\ ReadsHandle /\ AdmitInv /\ [Next]_vars
      => TypeInv' /\ ReadsHandle' /\ AdmitInv'
  BY TypeStep, ReadsHandleNext, AdmitNext
<1>3. TypeInv /\ RefinementInv /\ AdmitInv' /\ [Next]_vars
      => [\A t \in Threads :
            op[t] \in {"connect", "reconnect"} /\ outcome[t] = "none" /\ outcome'[t] = "ok"
               => HandleAdmitted']_vars
  <2> SUFFICES ASSUME TypeInv, RefinementInv, AdmitInv', Next, NEW t \in Threads,
                      op[t] \in {"connect", "reconnect"}, outcome[t] = "none",
                      outcome'[t] = "ok"
               PROVE  HandleAdmitted'
    OBVIOUS
  <2>1. ASSUME NEW c \in Conns, Service(c) PROVE outcome'[t] = outcome[t]
    BY <2>1 DEF Service, ServiceGreets, ServiceAuthenticates, ServiceAnswers,
       ServiceEvent, ServiceCloses, LinkBreaks, threadVars
  <2>2. PICK u \in Threads : ThreadStep(u) \/ \E o \in Ops : Call(u, o)
    BY <2>1 DEF Next, AllCallsMade, vars, threadVars
  <2>3. ASSUME NEW o \in Ops, Call(t, o) PROVE outcome'[t] = "none"
    BY <2>3 DEF Call, TypeInv, TypeOK, ThreadTypes
  <2>4. ThreadStep(t)
    BY <2>2, <2>3, OthersUndecided
  <2>5. ready'
    BY <2>4, ConnectReady DEF RefinementInv
  <2> QED
    BY <2>5 DEF AdmitInv
<1> QED
  BY <1>1, <1>2, <1>3, RefinementInvAlways, PTL DEF Spec, ConnectedMeansAdmitted

----------------------------------------------------------------------------
(* Over a direct connection, and for one user, the client implements       *)
(* ClientLink.                                                              *)

\* A client used by one thread.
Alone == \A t, u \in Threads : t = u

LEMMA AloneTurns == ASSUME Alone PROVE TakeTurns /\ TakeTurns'
  BY DEF Alone, TakeTurns

Repeats == {"send", "batch", "raw", "listen"}
Using   == {"acquire", "transmit", "reply", "transmitRaw", "raw", "listen"}

\* A method other than connect() and reconnect() connects when it may.
Reconnects(t) == op[t] \in Repeats => AutoReconnect

\* Which methods pass through which steps, and when the client reads as
\* connected there.
Stage(t) ==
    /\ pc[t] # "handshake"
    /\ pc[t] = "ensure" => op[t] \in Repeats
    /\ pc[t] = "close" => op[t] # "connect" /\ (op[t] \in Repeats => ~Connected)
    /\ pc[t] = "connect" => op[t] # "close" /\ (op[t] # "connect" => sock = 0)
    /\ pc[t] \in {"open", "ready", "authenticate", "auth"} => op[t] # "close"
    /\ pc[t] \in {"ready", "authenticate", "auth"} \cup Using => Connected
    /\ pc[t] \notin {"idle", "ensure"} \cup Using => Reconnects(t)

HandleKept == sock # 0 => link[sock] \notin {"closed", "garbled"}

StageInv == HandleKept /\ \A t \in Threads : Stage(t)

LEMMA StageIf ==
  ASSUME Alone, NEW t \in Threads, Stage(t)', HandleKept'
  PROVE  StageInv'
  BY DEF Alone, StageInv

\* The client still reads as connected if it did.
LEMMA StillConnected ==
  ASSUME Method = "direct", sock' = sock, wsConnected' = wsConnected
  PROVE  Connected' <=> Connected
  BY DEF Connected

LEMMA KeptStays ==
  ASSUME TypeInv, HandleKept, sock' = sock, link' = link
  PROVE  HandleKept'
  BY DEF HandleKept, TypeInv, TypeOK, ClientTypes, NetTypes

LEMMA StageEnd ==
  ASSUME Alone, TypeInv, HandleKept', NEW t \in Threads, NEW result, Finish(t, result)
  PROVE  StageInv'
<1>1. pc'[t] = "idle"
  BY DEF Finish, TypeInv, TypeOK, ThreadTypes
<1> QED
  BY <1>1, StageIf DEF Stage, Using, Reconnects

LEMMA StageReturns ==
  ASSUME Alone, TypeInv, HandleKept', Connected', NEW t \in Threads, ConnectReturns(t)
  PROVE  StageInv'
<1>1. pc'[t] \in {"idle", "acquire", "transmitRaw", "listen"}
  BY DEF ConnectReturns, Goto, AfterConnect, TypeInv, TypeOK, ThreadTypes
<1> QED
  BY <1>1, StageIf DEF Stage, Using, Reconnects

LEMMA StageStays ==
  ASSUME Method = "direct", Alone, StageInv, NEW t \in Threads,
         pc'[t] = pc[t], op'[t] = op[t], UNCHANGED <<sock, wsConnected>>, HandleKept'
  PROVE  StageInv'
<1>1. Stage(t)
  BY DEF StageInv
<1>2. Connected' <=> Connected
  BY StillConnected
<1> QED
  BY <1>1, <1>2, StageIf DEF Stage, Reconnects

LEMMA StageClosed ==
  ASSUME TypeInv, NEW unread, CloseHandle(unread)
  PROVE  HandleKept' /\ ~Connected'
  BY DEF CloseHandle, HandleKept, Connected

LEMMA StageWritten ==
  ASSUME TypeInv, Written, UNCHANGED sock, HandleKept, sock # 0
  PROVE  HandleKept'
<1>1. sock \in Conns
  BY BoundAssumption DEF TypeInv, TypeOK, ClientTypes, Conns
<1> QED
  BY <1>1 DEF Written, HandleKept, TypeInv, TypeOK, NetTypes

LEMMA StageWriteFails ==
  ASSUME Method = "direct", Alone, TypeInv, StageInv, NEW t \in Threads, WriteFails(t)
  PROVE  StageInv'
<1>1. HandleKept'
  BY KeptStays DEF StageInv, WriteFails, netVars
<1> QED
  BY <1>1, StageEnd DEF WriteFails, Unconnected

LEMMA StageConnecting ==
  ASSUME Method = "direct", Alone, TypeInv, StageInv, NEW t \in Threads,
         EnsureConnected(t) \/ Close(t) \/ ConnectStep(t)
  PROVE  StageInv'
<1> USE DEF TypeInv, TypeOK, ThreadTypes, Goto
<1>0. Stage(t) /\ HandleKept
  BY DEF StageInv
<1>1. CASE EnsureConnected(t)
  <2>1. HandleKept' /\ (Connected' <=> Connected)
    BY <1>0, <1>1, KeptStays, StillConnected DEF EnsureConnected, netVars
  <2>2. CASE Connected /\ ConnectReturns(t)
    BY <2>1, <2>2, StageReturns
  <2>3. CASE Finish(t, "lost")
    BY <2>1, <2>3, StageEnd
  <2>4. CASE ~Connected /\ pc'[t] = "close" /\ op'[t] = op[t]
    <3>1. op[t] \in Repeats /\ AutoReconnect
      BY <1>0, <1>1, <2>4 DEF Stage, EnsureConnected, Finish, ConnectReturns
    <3> QED
      BY <2>1, <2>4, <3>1, StageIf DEF Stage, Using, Reconnects, Repeats
  <2> QED
    BY <1>1, <2>2, <2>3, <2>4 DEF EnsureConnected
<1>2. CASE Close(t)
  <2>1. HandleKept' /\ sock' = 0
    BY <1>2, StageClosed DEF Close, CloseHandle
  <2>2. CASE Finish(t, "ok")
    BY <2>1, <2>2, StageEnd
  <2>3. CASE op[t] # "close" /\ pc'[t] = "connect" /\ op'[t] = op[t]
    <3>1. Reconnects(t)
      BY <1>0, <1>2 DEF Stage, Close, Using
    <3> QED
      BY <2>1, <2>3, <3>1, StageIf DEF Stage, Using, Reconnects
  <2> QED
    BY <1>2, <2>2, <2>3 DEF Close
<1>3. CASE Connect(t)
  <2>1. HandleKept' /\ (Connected' <=> Connected)
    BY <1>0, <1>3, KeptStays, StillConnected DEF Connect, netVars
  <2>2. CASE Connected
    BY <1>3, <2>1, <2>2, StageReturns DEF Connect
  <2>3. CASE ~Connected
    <3>1. pc'[t] = "open" /\ op'[t] = op[t] /\ op[t] # "close"
      BY <1>0, <1>3, <2>3 DEF Connect, Stage
    <3>2. Reconnects(t)
      BY <1>0, <1>3 DEF Stage, Connect, Using
    <3> QED
      BY <2>1, <3>1, <3>2, StageIf DEF Stage, Using, Reconnects
  <2> QED
    BY <2>2, <2>3
<1>4. CASE Open(t)
  <2>1. pc'[t] = "ready" /\ op'[t] = op[t] /\ op[t] # "close" /\ Reconnects(t)
    BY <1>0, <1>4 DEF Open, Stage, Using
  <2>2. conns + 1 \in Conns /\ sock' = conns + 1
    BY <1>4, BoundAssumption DEF Open, NetTypes, Conns
  <2>3. link'[conns + 1] = "open" /\ wsConnected'[conns + 1] = TRUE
    BY <1>4, <2>2 DEF Open, NetTypes, ClientTypes
  <2>4. sock' # 0
    BY <2>2 DEF Conns
  <2>5. HandleKept' /\ Connected'
    BY <2>2, <2>3, <2>4 DEF HandleKept, Connected
  <2> QED
    BY <2>1, <2>5, StageIf DEF Stage, Using, Reconnects
<1>5. CASE OpenFails(t)
  <2>1. HandleKept'
    BY <1>5 DEF OpenFails, HandleKept
  <2> QED
    BY <1>5, <2>1, StageEnd DEF OpenFails
<1>6. CASE Handshake(t)
  BY <1>0, <1>6 DEF Handshake, Stage
<1>7. CASE RecvReady(t)
  <2>1. CASE Taken(t).kind = "ready"
    <3>1. HandleKept' /\ (Connected' <=> Connected)
      BY <1>0, <1>7, <2>1, KeptStays, StillConnected DEF RecvReady
    <3>2. Connected /\ op[t] # "close" /\ Reconnects(t)
      BY <1>0, <1>7 DEF RecvReady, Stage, Using
    <3>3. CASE Password
      <4>1. pc'[t] = "authenticate" /\ op'[t] = op[t]
        BY <1>7, <2>1, <3>3 DEF RecvReady
      <4> QED
        BY <3>1, <3>2, <4>1, StageIf DEF Stage, Using, Reconnects
    <3>4. CASE ~Password
      BY <1>7, <2>1, <3>1, <3>2, <3>4, StageReturns DEF RecvReady
    <3> QED
      BY <3>3, <3>4
  <2>2. CASE ~(Taken(t).kind = "ready")
    BY <1>7, <2>2, StageClosed, StageEnd DEF RecvReady
  <2> QED
    BY <2>1, <2>2
<1>8. CASE Authenticate(t)
  <2>1. CASE WriteFails(t)
    BY <2>1, StageWriteFails
  <2>2. CASE ~WriteFails(t)
    <3>1. /\ Writable /\ Written /\ UNCHANGED <<sock, wsConnected>>
          /\ pc'[t] = "auth" /\ op'[t] = op[t]
      BY <1>8, <2>2 DEF Authenticate
    <3>2. HandleKept' /\ (Connected' <=> Connected)
      BY <1>0, <3>1, StageWritten, StillConnected DEF Writable
    <3>3. Connected /\ op[t] # "close" /\ Reconnects(t)
      BY <1>0, <1>8 DEF Authenticate, Stage, Using
    <3> QED
      BY <3>1, <3>2, <3>3, StageIf DEF Stage, Using, Reconnects
  <2> QED
    BY <2>1, <2>2
<1>9. CASE RecvAuth(t)
  <2>1. CASE Taken(t).ok
    <3>1. HandleKept' /\ (Connected' <=> Connected)
      BY <1>0, <1>9, <2>1, KeptStays, StillConnected DEF RecvAuth
    <3>2. Connected
      BY <1>0, <1>9 DEF RecvAuth, Stage
    <3> QED
      BY <1>9, <2>1, <3>1, <3>2, StageReturns DEF RecvAuth
  <2>2. CASE ~Taken(t).ok
    BY <1>9, <2>2, StageClosed, StageEnd DEF RecvAuth
  <2> QED
    BY <2>1, <2>2
<1> QED
  BY <1>1, <1>2, <1>3, <1>4, <1>5, <1>6, <1>7, <1>8, <1>9 DEF ConnectStep

LEMMA StageUsing ==
  ASSUME Method = "direct", Alone, TypeInv, ControlInv, StageInv, NEW t \in Threads,
         Acquire(t) \/ Transmit(t) \/ TransmitRaw(t)
  PROVE  StageInv'
<1> USE DEF TypeInv, TypeOK, ThreadTypes, Goto
<1>0. Stage(t) /\ HandleKept
  BY DEF StageInv
<1>1. CASE Acquire(t)
  <2>1. HandleKept' /\ (Connected' <=> Connected)
    BY <1>0, <1>1, KeptStays, StillConnected DEF Acquire, netVars
  <2>2. pc'[t] = "transmit" /\ Connected
    BY <1>0, <1>1 DEF Acquire, Stage, Using
  <2> QED
    BY <2>1, <2>2, StageIf DEF Stage, Using, Reconnects
<1>2. CASE WriteFails(t)
  BY <1>2, StageWriteFails
<1>3. CASE (Transmit(t) \/ TransmitRaw(t)) /\ ~WriteFails(t)
  <2>1. /\ Writable /\ Written /\ UNCHANGED <<sock, wsConnected>>
        /\ pc'[t] \in {"reply", "raw"}
    BY <1>3 DEF Transmit, TransmitRaw
  <2>2. HandleKept' /\ (Connected' <=> Connected)
    BY <1>0, <2>1, StageWritten, StillConnected DEF Writable
  <2>3. Connected
    BY <1>0, <1>3 DEF Transmit, TransmitRaw, Stage, Using
  <2> QED
    BY <2>1, <2>2, <2>3, StageIf DEF Stage, Using, Reconnects
<1> QED
  BY <1>1, <1>2, <1>3

LEMMA StageReading ==
  ASSUME Method = "direct", Alone, TypeInv, StageInv, NEW t \in Threads, ReceiveStep(t)
  PROVE  StageInv'
<1>0. Stage(t) /\ HandleKept
  BY DEF StageInv
<1>1. ~TimeoutInsideFrame(t)
  BY DEF TimeoutInsideFrame
<1>2. sock' = sock /\ link' = link
  BY <1>1 DEF ReceiveStep, BeginRecv, RecvTimeout, RecvFails, RecvMatching, SkipMessage,
     RecvRaw, ListenMessage, netVars
<1>3. HandleKept'
  BY <1>0, <1>2, KeptStays
<1>4. CASE \E result : Finish(t, result)
  BY <1>3, <1>4, StageEnd
<1>5. CASE ~(\E result : Finish(t, result))
  <2>1. wsConnected' = wsConnected /\ pc' = pc /\ op' = op
    BY <1>1, <1>5 DEF ReceiveStep, BeginRecv, Unconnected, RecvTimeout, RecvFails,
       RecvMatching, SkipMessage, RecvRaw, ListenMessage
  <2> QED
    BY <1>2, <1>3, <2>1, StageStays
<1> QED
  BY <1>4, <1>5

LEMMA StageStep ==
  ASSUME Method = "direct", Alone, TypeInv, ControlInv, StageInv, NEW t \in Threads, ThreadStep(t)
  PROVE  StageInv'
BY StageConnecting, StageUsing, StageReading DEF ThreadStep

LEMMA StageCall ==
  ASSUME Method = "direct", Alone, TypeInv, StageInv, NEW t \in Threads, NEW o \in Ops, Call(t, o)
  PROVE  StageInv'
<1>1. HandleKept'
  BY KeptStays DEF StageInv, Call, clientVars, netVars
<1>2. /\ pc'[t] = CASE o = "connect" -> "connect"
                    [] o \in {"close", "reconnect"} -> "close"
                    [] OTHER -> "ensure"
      /\ op'[t] = o
  BY DEF Call, Goto, TypeInv, TypeOK, ThreadTypes
<1>3. CASE o = "connect"
  BY <1>1, <1>2, <1>3, StageIf DEF Stage, Using, Reconnects, Repeats
<1>4. CASE o \in {"close", "reconnect"}
  BY <1>1, <1>2, <1>4, StageIf DEF Stage, Using, Reconnects, Repeats
<1>5. CASE o \notin {"connect", "close", "reconnect"}
  <2>1. o \in Repeats
    BY <1>5, OpsAssumption DEF OpKinds, Repeats
  <2> QED
    BY <1>1, <1>2, <1>5, <2>1, StageIf DEF Stage, Using, Reconnects
<1> QED
  BY <1>3, <1>4, <1>5

LEMMA StageService ==
  ASSUME Method = "direct", Alone, TypeInv, StageInv, NEW t \in Threads, NEW c \in Conns, Service(c)
  PROVE  StageInv'
<1>1. UNCHANGED <<clientVars, threadVars>>
  BY DEF Service, ServiceGreets, ServiceAuthenticates, ServiceAnswers, ServiceEvent,
     ServiceCloses, LinkBreaks
<1>2. \A d \in Conns : link'[d] = link[d] \/ link'[d] \in {"eof", "reset"}
  BY DEF Service, ServiceGreets, ServiceAuthenticates, ServiceAnswers, ServiceEvent,
     ServiceCloses, LinkBreaks, TypeInv, TypeOK, NetTypes
<1>3. sock # 0 => sock \in Conns
  BY BoundAssumption DEF TypeInv, TypeOK, ClientTypes, Conns
<1>4. HandleKept'
  BY <1>1, <1>2, <1>3 DEF StageInv, HandleKept, clientVars
<1> QED
  BY <1>1, <1>4, StageStays DEF clientVars, threadVars

----------------------------------------------------------------------------
(* What the user sees of a step.                                            *)

\* What a client that is not connecting shows, and how a call's end is told.
Face ==
    IF ~Connected THEN "off" ELSE IF link[sock] = "reset" THEN "dead" ELSE "on"

Telling(result) ==
    CASE result = "error" -> "rejected"
      [] result = "lost"  -> "unavailable"
      [] OTHER            -> result

LEMMA ThisUser ==
  ASSUME Alone, NEW t \in Threads
  PROVE  User = t
<1>1. User \in Threads
  BY DEF User
<1> QED
  BY <1>1 DEF Alone

LEMMA UserSees ==
  ASSUME Alone, NEW t \in Threads
  PROVE  /\ Shown(User) = Shown(t) /\ Shown(User)' = Shown(t)'
         /\ Task(User) = Task(t) /\ Task(User)' = Task(t)'
         /\ Told(User) = Told(t) /\ Told(User)' = Told(t)'
BY ThisUser DEF Shown, Task, Told, Connecting

LEMMA ShownIs ==
  ASSUME NEW t \in Threads
  PROVE  /\ Shown(t) = IF Connecting(t) THEN "off" ELSE Face
         /\ Shown(t)' = IF Connecting(t)' THEN "off" ELSE Face'
BY DEF Shown, Face

LEMMA ToldIs ==
  ASSUME NEW t \in Threads
  PROVE  /\ Told(t) = Telling(outcome[t])
         /\ Told(t)' = Telling(outcome'[t])
BY DEF Told, Telling

LEMMA FaceStays ==
  ASSUME Method = "direct", sock' = sock, wsConnected' = wsConnected,
         sock # 0 => (link'[sock] = "reset" <=> link[sock] = "reset")
  PROVE  Face' = Face
<1>1. Connected' <=> Connected
  BY StillConnected
<1>2. Connected => sock # 0
  BY DEF Connected
<1> QED
  BY <1>1, <1>2 DEF Face

LEMMA CallEnds ==
  ASSUME TypeInv, NEW t \in Threads, NEW result, Finish(t, result)
  PROVE  Task(t)' = "idle" /\ Told(t)' = Telling(result) /\ Shown(t)' = Face'
<1>1. pc'[t] = "idle" /\ outcome'[t] = result
  BY DEF Finish, TypeInv, TypeOK, ThreadTypes
<1>2. ~Connecting(t)'
  BY <1>1 DEF Connecting
<1> QED
  BY <1>1, <1>2, ShownIs, ToldIs DEF Task

\* The abstract client's steps, from what the user sees.
LEMMA SeesNothing ==
  ASSUME Alone, NEW t \in Threads,
         Shown(t)' = Shown(t), Task(t)' = Task(t), Told(t)' = Told(t)
  PROVE  UNCHANGED CL!vars
BY UserSees DEF CL!vars

LEMMA SeesConnect ==
  ASSUME Alone, NEW t \in Threads, Shown(t) = "off",
         Task(t) = "connect" \/ (Task(t) \in {"use", "listen"} /\ AutoReconnect),
         <<Shown(t)', Told(t)'>> \in CL!ConnectEnds, Task(t)' = "idle",
         Told(t)' = "ok" => Task(t) = "connect"
  PROVE  CL!Next
<1>1. Told(t)' # "ok" \/ Task(t) = "connect" => CL!Connect
  BY UserSees DEF CL!Connect, CL!Ends
<1> QED
  BY <1>1, UserSees DEF CL!Next

LEMMA SeesExchange ==
  ASSUME Alone, NEW t \in Threads, Shown(t) # "off", Task(t) = "use",
         <<Shown(t)', Told(t)'>> \in CL!ExchangeEnds(Shown(t)), Task(t)' = "idle"
  PROVE  CL!Next
<1>1. CL!Exchange
  BY UserSees DEF CL!Exchange, CL!Ends
<1> QED
  BY <1>1 DEF CL!Next

LEMMA SeesListen ==
  ASSUME Alone, NEW t \in Threads, Task(t) = "listen", Task(t)' = "idle",
         \/ Shown(t) = "on" /\ Shown(t)' \in {"on", "off"} /\ Told(t)' = "ok"
         \/ Shown(t) = "dead" /\ Shown(t)' = "dead" /\ Told(t)' = "crash"
  PROVE  CL!Next
<1>1. CL!Listen
  BY UserSees DEF CL!Listen, CL!Ends
<1> QED
  BY <1>1 DEF CL!Next

LEMMA SeesBreak ==
  ASSUME Alone, NEW t \in Threads, Shown(t) = "on", Shown(t)' = "dead",
         Task(t)' = Task(t), Told(t)' = Told(t)
  PROVE  CL!Next
<1>1. CL!Breaks
  BY UserSees DEF CL!Breaks
<1> QED
  BY <1>1 DEF CL!Next

----------------------------------------------------------------------------
(* The steps, as the user sees them.                                        *)

\* A call under way and the task it stands for.
LEMMA TaskIs ==
  ASSUME NEW t \in Threads, pc[t] # "idle"
  PROVE  /\ op[t] \in {"close", "listen"} => Task(t) = op[t]
         /\ op[t] \in {"send", "batch", "raw"} => Task(t) = "use"
         /\ op[t] \in {"connect", "reconnect"} =>
                Task(t) = IF pc[t] = "close" THEN "reconnect" ELSE "connect"
BY DEF Task

LEMMA TaskWillBe ==
  ASSUME NEW t \in Threads, pc'[t] # "idle"
  PROVE  /\ op'[t] \in {"close", "listen"} => Task(t)' = op'[t]
         /\ op'[t] \in {"send", "batch", "raw"} => Task(t)' = "use"
         /\ op'[t] \in {"connect", "reconnect"} =>
                Task(t)' = IF pc'[t] = "close" THEN "reconnect" ELSE "connect"
BY DEF Task

\* A step within a call that keeps what the client shows.
LEMMA StepStutters ==
  ASSUME Alone, TypeInv, NEW t \in Threads, pc[t] # "idle", pc'[t] # "idle",
         pc[t] = "close" <=> pc'[t] = "close", op'[t] = op[t], outcome'[t] = outcome[t],
         Shown(t)' = Shown(t)
  PROVE  UNCHANGED CL!vars
<1>1. op[t] \in OpKinds
  BY DEF TypeInv, TypeOK, ThreadTypes
<1>2. Task(t)' = Task(t)
  BY <1>1, TaskIs, TaskWillBe DEF OpKinds
<1>3. Told(t)' = Told(t)
  BY ToldIs
<1> QED
  BY <1>2, <1>3, SeesNothing

\* connect() ends, by itself or in a call that needs a connection.
LEMMA ConnectionEnds ==
  ASSUME Alone, TypeInv, StageInv, NEW t \in Threads,
         pc[t] \in {"open", "ready", "authenticate", "auth"},
         NEW result \in Outcomes \ {"ok"}, Finish(t, result),
         <<Face', Telling(result)>> \in CL!ConnectEnds
  PROVE  CL!Next
<1>1. Shown(t) = "off"
  BY ShownIs DEF Connecting
<1>2. /\ op[t] \in OpKinds \ {"close"}
      /\ op[t] \in Repeats => AutoReconnect
  BY DEF TypeInv, TypeOK, ThreadTypes, StageInv, Stage, Using, Reconnects
<1>3. Task(t) = "connect" \/ (Task(t) \in {"use", "listen"} /\ AutoReconnect)
  BY <1>2, TaskIs DEF OpKinds, Repeats
<1>4. Task(t)' = "idle" /\ Told(t)' = Telling(result) /\ Shown(t)' = Face'
  BY CallEnds
<1>5. Told(t)' # "ok"
  BY <1>4 DEF Telling
<1> QED
  BY <1>1, <1>3, <1>4, <1>5, SeesConnect

\* send(), send_batch() or send_raw() ends.
LEMMA ExchangeEnds ==
  ASSUME Alone, TypeInv, ControlInv, StageInv, NEW t \in Threads,
         pc[t] \in {"transmit", "reply", "transmitRaw", "raw"},
         NEW result \in Outcomes, Finish(t, result),
         <<Face', Telling(result)>> \in CL!ExchangeEnds(Face)
  PROVE  CL!Next
<1>1. Shown(t) = Face
  BY ShownIs DEF Connecting
<1>2. Connected /\ op[t] \in {"send", "batch", "raw"}
  BY DEF StageInv, Stage, Using, ControlInv, Fits
<1>3. Face # "off"
  BY <1>2 DEF Face
<1>4. Task(t)' = "idle" /\ Told(t)' = Telling(result) /\ Shown(t)' = Face'
  BY CallEnds
<1>5. Task(t) = "use"
  BY <1>2, TaskIs
<1> QED
  BY <1>1, <1>3, <1>4, <1>5, SeesExchange

LEMMA ListeningEnds ==
  ASSUME Alone, TypeInv, ControlInv, StageInv, NEW t \in Threads, pc[t] = "listen",
         NEW result \in Outcomes, Finish(t, result),
         \/ Face = "on" /\ Face' \in {"on", "off"} /\ result = "ok"
         \/ Face = "dead" /\ Face' = "dead" /\ result = "crash"
  PROVE  CL!Next
<1>1. Shown(t) = Face
  BY ShownIs DEF Connecting
<1>2. op[t] = "listen"
  BY DEF ControlInv, Fits
<1>3. Task(t)' = "idle" /\ Told(t)' = Telling(result) /\ Shown(t)' = Face'
  BY CallEnds
<1>4. Task(t) = "listen"
  BY <1>2, TaskIs
<1> QED
  BY <1>1, <1>3, <1>4, SeesListen DEF Telling

\* What reads as connected and what it shows.
LEMMA FaceIs ==
  ASSUME TypeInv, StageInv
  PROVE  /\ ~Connected => Face = "off"
         /\ Connected => /\ sock \in Conns
                         /\ link[sock] \in {"open", "eof", "reset"}
                         /\ Face = IF link[sock] = "reset" THEN "dead" ELSE "on"
<1>1. Connected => sock # 0
  BY DEF Connected
<1>2. sock # 0 => sock \in Conns
  BY BoundAssumption DEF TypeInv, TypeOK, ClientTypes, Conns
<1>3. sock # 0 => link[sock] \in {"open", "eof", "reset"}
  BY <1>2 DEF StageInv, HandleKept, TypeInv, TypeOK, NetTypes, Links
<1> QED
  BY <1>1, <1>2, <1>3 DEF Face

LEMMA EnsureSeen ==
  ASSUME Method = "direct", Alone, TypeInv, StageInv, NEW t \in Threads, EnsureConnected(t)
  PROVE  [CL!Next]_(CL!vars)
<1> USE DEF TypeInv, TypeOK, ThreadTypes, Goto
<1>1. /\ op[t] \in Repeats /\ pc[t] = "ensure"
      /\ sock' = sock /\ wsConnected' = wsConnected /\ link' = link
  BY DEF EnsureConnected, netVars, StageInv, Stage
<1>2. Face' = Face
  BY <1>1, FaceStays
<1>3. CASE Connected /\ ConnectReturns(t)
  <2>1. /\ pc'[t] \in {"acquire", "transmitRaw", "listen"} /\ op'[t] = op[t]
        /\ outcome'[t] = outcome[t]
    BY <1>1, <1>3 DEF ConnectReturns, AfterConnect, Repeats
  <2>2. Shown(t)' = Shown(t)
    BY <1>1, <1>2, <2>1, ShownIs DEF Connecting
  <2> QED
    BY <1>1, <2>1, <2>2, StepStutters
<1>4. CASE ~Connected /\ AutoReconnect
  <2>1. pc'[t] = "close" /\ op'[t] = op[t] /\ outcome'[t] = outcome[t]
    BY <1>4 DEF EnsureConnected
  <2>2. Shown(t)' = Shown(t)
    BY <1>1, <1>2, <2>1, ShownIs DEF Connecting
  <2>3. Task(t)' = Task(t)
    BY <1>1, <2>1, TaskIs, TaskWillBe DEF Repeats
  <2>4. Told(t)' = Told(t)
    BY <2>1, ToldIs
  <2> QED
    BY <2>2, <2>3, <2>4, SeesNothing
<1>5. CASE ~Connected /\ ~AutoReconnect
  <2>1. Finish(t, "lost")
    BY <1>5 DEF EnsureConnected
  <2>2. Task(t)' = "idle" /\ Told(t)' = Telling("lost") /\ Shown(t)' = Face'
    BY <2>1, CallEnds
  <2>3. Shown(t) = "off" /\ Face = "off"
    BY <1>1, <1>5, ShownIs DEF Face
  <2>4. Task(t) \in {"use", "listen"}
    BY <1>1, TaskIs DEF Repeats
  <2>5. CL!Refused
    BY <1>2, <1>5, <2>2, <2>3, <2>4, UserSees DEF CL!Refused, CL!Ends, Telling
  <2> QED
    BY <2>5 DEF CL!Next
<1> QED
  BY <1>3, <1>4, <1>5 DEF EnsureConnected

LEMMA CloseSeen ==
  ASSUME Alone, TypeInv, StageInv, NEW t \in Threads, Close(t)
  PROVE  [CL!Next]_(CL!vars)
<1> USE DEF TypeInv, TypeOK, ThreadTypes, Goto
<1>1. pc[t] = "close" /\ sock' = 0
  BY DEF Close, CloseHandle
<1>2. Face' = "off" /\ Shown(t)' = "off"
  BY <1>1, ShownIs DEF Face, Connected
<1>3. CASE op[t] = "close"
  <2>1. Finish(t, "ok")
    BY <1>3 DEF Close
  <2>2. Task(t)' = "idle" /\ Told(t)' = "ok"
    BY <2>1, CallEnds DEF Telling
  <2>3. Task(t) = "close"
    BY <1>1, <1>3, TaskIs
  <2>4. CL!Close
    BY <1>2, <2>2, <2>3, UserSees DEF CL!Close, CL!Ends
  <2> QED
    BY <2>4 DEF CL!Next
<1>4. CASE op[t] # "close"
  <2>1. pc'[t] = "connect" /\ op'[t] = op[t] /\ outcome'[t] = outcome[t]
    BY <1>4 DEF Close
  <2>2. Told(t)' = Told(t)
    BY <2>1, ToldIs
  <2>3. CASE op[t] \in Repeats
    <3>1. ~Connected
      BY <1>1, <2>3 DEF StageInv, Stage
    <3>2. Shown(t) = "off"
      BY <3>1, ShownIs DEF Face
    <3>3. Task(t)' = Task(t)
      BY <1>1, <2>1, <2>3, TaskIs, TaskWillBe DEF Repeats
    <3> QED
      BY <1>2, <2>2, <3>2, <3>3, SeesNothing
  <2>4. CASE op[t] \notin Repeats
    <3>1. op[t] = "reconnect"
      BY <1>1, <1>4, <2>4 DEF StageInv, Stage, OpKinds, Repeats
    <3>2. Task(t) = "reconnect" /\ Task(t)' = "connect"
      BY <1>1, <2>1, <3>1, TaskIs, TaskWillBe
    <3>3. CL!Close
      BY <1>2, <2>2, <3>2, UserSees DEF CL!Close
    <3> QED
      BY <3>3 DEF CL!Next
  <2> QED
    BY <2>3, <2>4
<1> QED
  BY <1>3, <1>4

LEMMA ConnectSeen ==
  ASSUME Method = "direct", Alone, TypeInv, StageInv, NEW t \in Threads, Connect(t)
  PROVE  [CL!Next]_(CL!vars)
<1> USE DEF TypeInv, TypeOK, ThreadTypes, Goto
<1>1. /\ pc[t] = "connect" /\ sock' = sock /\ wsConnected' = wsConnected /\ link' = link
      /\ op[t] \in OpKinds
  BY DEF Connect, netVars
<1>2. Face' = Face
  BY <1>1, FaceStays
<1>3. Shown(t) = Face
  BY <1>1, ShownIs DEF Connecting
<1>4. CASE Connected
  <2>1. op[t] = "connect"
    BY <1>1, <1>4 DEF StageInv, Stage, Connected
  <2>2. ConnectReturns(t)
    BY <1>4 DEF Connect
  <2>3. pc'[t] = "idle" /\ outcome'[t] = "ok"
    BY <2>1, <2>2 DEF ConnectReturns, AfterConnect
  <2>4. Task(t)' = "idle" /\ Told(t)' = "ok" /\ Shown(t)' = Face
    BY <1>2, <2>3, ToldIs, ShownIs DEF Task, Telling, Connecting
  <2>5. Task(t) = "connect" /\ Face # "off"
    BY <1>1, <1>4, <2>1, TaskIs DEF Face
  <2>6. CL!AlreadyConnected
    BY <1>3, <2>4, <2>5, UserSees DEF CL!AlreadyConnected, CL!Ends
  <2> QED
    BY <2>6 DEF CL!Next
<1>5. CASE ~Connected
  <2>1. pc'[t] = "open" /\ op'[t] = op[t] /\ outcome'[t] = outcome[t]
    BY <1>5 DEF Connect
  <2>2. Shown(t)' = "off" /\ Face = "off"
    BY <1>5, <2>1, ShownIs DEF Connecting, Face
  <2> QED
    BY <1>1, <1>3, <2>1, <2>2, StepStutters
<1> QED
  BY <1>4, <1>5

LEMMA OpenSeen ==
  ASSUME Method = "direct", Alone, TypeInv, StageInv, NEW t \in Threads, Open(t) \/ OpenFails(t)
  PROVE  [CL!Next]_(CL!vars)
<1> USE DEF TypeInv, TypeOK, ThreadTypes, Goto
<1>1. CASE Open(t)
  <2>1. /\ pc[t] = "open" /\ pc'[t] = "ready" /\ op'[t] = op[t] /\ outcome'[t] = outcome[t]
    BY <1>1 DEF Open
  <2>2. Shown(t)' = Shown(t)
    BY <2>1, ShownIs DEF Connecting
  <2> QED
    BY <2>1, <2>2, StepStutters
<1>2. CASE OpenFails(t)
  <2>1. pc[t] = "open" /\ sock' = 0 /\ Finish(t, "lost")
    BY <1>2 DEF OpenFails
  <2>2. Face' = "off"
    BY <2>1 DEF Face, Connected
  <2>3. "lost" \in Outcomes \ {"ok"} /\ <<Face', Telling("lost")>> \in CL!ConnectEnds
    BY <2>2 DEF Outcomes, Telling, CL!ConnectEnds
  <2> QED
    BY <2>1, <2>3, ConnectionEnds
<1> QED
  BY <1>1, <1>2

LEMMA WriteFailsSeen ==
  ASSUME Method = "direct", Alone, TypeInv, ControlInv, StageInv, NEW t \in Threads,
         pc[t] \in {"authenticate", "transmit", "transmitRaw"}, WriteFails(t)
  PROVE  CL!Next
<1>1. Connected /\ sock # 0
  BY DEF StageInv, Stage, Using, Connected
<1>2. link[sock] = "reset" /\ Face = "dead"
  BY <1>1, FaceIs DEF WriteFails, Writable
<1>3. Finish(t, "crash")
  BY <1>1 DEF WriteFails
<1>4. sock' = sock /\ wsConnected' = wsConnected /\ link' = link
  BY DEF WriteFails, netVars
<1>5. Face' = "dead"
  BY <1>2, <1>4, FaceStays
<1>6. "crash" \in Outcomes \ {"ok"} /\ Telling("crash") = "crash"
  BY DEF Outcomes, Telling
<1>7. CASE pc[t] = "authenticate"
  <2>1. <<Face', Telling("crash")>> \in CL!ConnectEnds
    BY <1>5, <1>6 DEF CL!ConnectEnds
  <2> QED
    BY <1>3, <1>6, <1>7, <2>1, ConnectionEnds
<1>8. CASE pc[t] \in {"transmit", "transmitRaw"}
  <2>1. <<Face', Telling("crash")>> \in CL!ExchangeEnds(Face)
    BY <1>2, <1>5, <1>6 DEF CL!ExchangeEnds
  <2> QED
    BY <1>3, <1>6, <1>8, <2>1, ExchangeEnds
<1> QED
  BY <1>7, <1>8

LEMMA WrittenFace ==
  ASSUME Method = "direct", TypeInv, StageInv, Connected, Writable, Written,
         sock' = sock, wsConnected' = wsConnected
  PROVE  Face = "on" /\ Face' \in {"on", "dead"}
<1>1. sock # 0 /\ link[sock] # "reset"
  BY DEF Writable
<1>2. Connected'
  BY StillConnected
<1> QED
  BY <1>1, <1>2 DEF Face

LEMMA AuthenticateSeen ==
  ASSUME Method = "direct", Alone, TypeInv, ControlInv, StageInv, NEW t \in Threads,
         Authenticate(t)
  PROVE  [CL!Next]_(CL!vars)
<1>1. CASE WriteFails(t)
  BY <1>1, WriteFailsSeen DEF Authenticate
<1>2. CASE ~WriteFails(t)
  <2>1. /\ pc[t] = "authenticate" /\ pc'[t] = "auth" /\ op'[t] = op[t]
        /\ outcome'[t] = outcome[t]
    BY <1>2 DEF Authenticate, Goto, TypeInv, TypeOK, ThreadTypes
  <2>2. Shown(t)' = Shown(t)
    BY <2>1, ShownIs DEF Connecting
  <2> QED
    BY <2>1, <2>2, StepStutters
<1> QED
  BY <1>1, <1>2

LEMMA TransmitSeen ==
  ASSUME Method = "direct", Alone, TypeInv, ControlInv, StageInv, NEW t \in Threads,
         Transmit(t) \/ TransmitRaw(t)
  PROVE  [CL!Next]_(CL!vars)
<1>1. CASE WriteFails(t)
  BY <1>1, WriteFailsSeen DEF Transmit, TransmitRaw
<1>2. CASE ~WriteFails(t)
  <2>1. /\ pc[t] \in {"transmit", "transmitRaw"} /\ pc'[t] \in {"reply", "raw"}
        /\ op'[t] = op[t] /\ outcome'[t] = outcome[t]
        /\ Writable /\ Written /\ sock' = sock /\ wsConnected' = wsConnected
    BY <1>2 DEF Transmit, TransmitRaw, Goto, TypeInv, TypeOK, ThreadTypes
  <2>2. Connected /\ op[t] \in {"send", "batch", "raw"}
    BY <2>1 DEF StageInv, Stage, Using, ControlInv, Fits
  <2>3. Shown(t) = "on" /\ Shown(t)' \in {"on", "dead"}
    BY <2>1, <2>2, WrittenFace, ShownIs DEF Connecting
  <2>4. CASE Shown(t)' = "on"
    BY <2>1, <2>3, <2>4, StepStutters
  <2>5. CASE Shown(t)' = "dead"
    <3>1. Task(t)' = Task(t) /\ Told(t)' = Told(t)
      BY <2>1, <2>2, TaskIs, TaskWillBe, ToldIs
    <3> QED
      BY <2>3, <2>5, <3>1, SeesBreak
  <2> QED
    BY <2>3, <2>4, <2>5
<1> QED
  BY <1>1, <1>2

LEMMA AcquireSeen ==
  ASSUME Method = "direct", Alone, TypeInv, StageInv, NEW t \in Threads, Acquire(t)
  PROVE  [CL!Next]_(CL!vars)
<1>1. /\ pc[t] = "acquire" /\ pc'[t] = "transmit" /\ op'[t] = op[t]
      /\ outcome'[t] = outcome[t] /\ sock' = sock /\ wsConnected' = wsConnected
      /\ link' = link
  BY DEF Acquire, Goto, TypeInv, TypeOK, ThreadTypes, netVars
<1>2. Shown(t)' = Shown(t)
  BY <1>1, FaceStays, ShownIs DEF Connecting
<1> QED
  BY <1>1, <1>2, StepStutters

\* A thread that receives reads the connection the client holds.
LEMMA Reader ==
  ASSUME TypeInv, ReadsHandle, StageInv, NEW t \in Threads, on[t] # 0
  PROVE  /\ on[t] = sock /\ pc[t] \in Receiving /\ Connected /\ sock # 0
         /\ link[sock] \in {"open", "eof"} => Face = "on"
<1>1. on[t] = sock /\ pc[t] \in Receiving
  BY DEF ReadsHandle
<1>2. Connected
  BY <1>1 DEF StageInv, Stage, Using, Receiving
<1> QED
  BY <1>1, <1>2, FaceIs

\* connect() succeeds on the connection just opened.
LEMMA ConnectedSeen ==
  ASSUME Alone, TypeInv, StageInv, NEW t \in Threads, pc[t] \in {"ready", "auth"},
         ConnectReturns(t), Face' = "on"
  PROVE  CL!Next
<1> USE DEF TypeInv, TypeOK, ThreadTypes, Goto
<1>1. Shown(t) = "off"
  BY ShownIs DEF Connecting
<1>2. /\ op[t] \in OpKinds \ {"close"} /\ (op[t] \in Repeats => AutoReconnect)
      /\ op'[t] = op[t]
  BY DEF StageInv, Stage, Using, Reconnects, ConnectReturns
<1>3. CASE op[t] \in {"connect", "reconnect"}
  <2>1. pc'[t] = "idle" /\ outcome'[t] = "ok"
    BY <1>3 DEF ConnectReturns, AfterConnect
  <2>2. Task(t)' = "idle" /\ Told(t)' = "ok" /\ Shown(t)' = "on"
    BY <2>1, ToldIs, ShownIs DEF Task, Telling, Connecting
  <2>3. Task(t) = "connect"
    BY <1>3, TaskIs
  <2>4. <<Shown(t)', Told(t)'>> \in CL!ConnectEnds
    BY <2>2 DEF CL!ConnectEnds
  <2> QED
    BY <1>1, <2>2, <2>3, <2>4, SeesConnect
<1>4. CASE op[t] \in Repeats
  <2>1. pc'[t] \in {"acquire", "transmitRaw", "listen"} /\ outcome'[t] = outcome[t]
    BY <1>4 DEF ConnectReturns, AfterConnect, Repeats
  <2>2. Shown(t)' = "on" /\ Told(t)' = Told(t)
    BY <2>1, ToldIs, ShownIs DEF Connecting
  <2>3. Task(t) \in {"use", "listen"} /\ Task(t)' = Task(t)
    BY <1>2, <1>4, <2>1, TaskIs, TaskWillBe DEF Repeats
  <2>4. CL!Connect
    <3>1. <<"on", "ok">> \in CL!ConnectEnds
      BY DEF CL!ConnectEnds
    <3> QED
      BY <1>1, <1>2, <1>4, <2>2, <2>3, <3>1, UserSees DEF CL!Connect
  <2> QED
    BY <2>4 DEF CL!Next
<1> QED
  BY <1>2, <1>3, <1>4 DEF OpKinds, Repeats

LEMMA RecvReadySeen ==
  ASSUME Method = "direct", Alone, TypeInv, ReadsHandle, ControlInv, StageInv,
         NEW t \in Threads, RecvReady(t)
  PROVE  [CL!Next]_(CL!vars)
<1>1. pc[t] = "ready" /\ on[t] = sock /\ Face = "on"
  BY Reader DEF RecvReady, CanTake
<1>2. CASE Taken(t).kind = "ready"
  <2>1. sock' = sock /\ wsConnected' = wsConnected /\ link' = link
    BY <1>2 DEF RecvReady
  <2>2. Face' = "on"
    BY <1>1, <2>1, FaceStays
  <2>3. CASE Password
    <3>1. pc'[t] = "authenticate" /\ op'[t] = op[t] /\ outcome'[t] = outcome[t]
      BY <1>2, <2>3 DEF RecvReady, Goto, TypeInv, TypeOK, ThreadTypes
    <3>2. Shown(t)' = Shown(t)
      BY <1>1, <3>1, ShownIs DEF Connecting
    <3> QED
      BY <1>1, <3>1, <3>2, StepStutters
  <2>4. CASE ~Password
    BY <1>1, <1>2, <2>2, <2>4, ConnectedSeen DEF RecvReady
  <2> QED
    BY <2>3, <2>4
<1>3. CASE ~(Taken(t).kind = "ready")
  <2>1. Finish(t, "lost") /\ sock' = 0
    BY <1>3 DEF RecvReady, CloseHandle
  <2>2. <<Face', Telling("lost")>> \in CL!ConnectEnds /\ "lost" \in Outcomes \ {"ok"}
    BY <2>1 DEF Face, Connected, Telling, CL!ConnectEnds, Outcomes
  <2> QED
    BY <1>1, <2>1, <2>2, ConnectionEnds
<1> QED
  BY <1>2, <1>3

LEMMA RecvAuthSeen ==
  ASSUME Method = "direct", Alone, TypeInv, ReadsHandle, ControlInv, StageInv,
         NEW t \in Threads, RecvAuth(t)
  PROVE  [CL!Next]_(CL!vars)
<1>1. pc[t] = "auth" /\ on[t] = sock /\ Face = "on"
  BY Reader DEF RecvAuth, CanTake
<1>2. CASE Taken(t).ok
  <2>1. sock' = sock /\ wsConnected' = wsConnected /\ link' = link /\ ConnectReturns(t)
    BY <1>2 DEF RecvAuth
  <2>2. Face' = "on"
    BY <1>1, <2>1, FaceStays
  <2> QED
    BY <1>1, <2>1, <2>2, ConnectedSeen
<1>3. CASE ~Taken(t).ok
  <2>1. Finish(t, "denied") /\ sock' = 0
    BY <1>3 DEF RecvAuth, CloseHandle
  <2>2. <<Face', Telling("denied")>> \in CL!ConnectEnds /\ "denied" \in Outcomes \ {"ok"}
    BY <2>1 DEF Face, Connected, Telling, CL!ConnectEnds, Outcomes
  <2> QED
    BY <1>1, <2>1, <2>2, ConnectionEnds
<1> QED
  BY <1>2, <1>3

\* A read ends: with a timeout, an error or the connection's end.
LEMMA ReadEnds ==
  ASSUME Method = "direct", Alone, TypeInv, ReadsHandle, ControlInv, StageInv,
         NEW t \in Threads, on[t] # 0, NEW result \in Outcomes, Finish(t, result),
         \/ Face = "on" /\ Face' = "on" /\ result = IF pc[t] = "listen" THEN "ok" ELSE "timeout"
         \/ Face = "on" /\ Face' = "off" /\ result = IF pc[t] = "listen" THEN "ok" ELSE "lost"
         \/ Face = "dead" /\ Face' = "dead" /\ result = "crash"
  PROVE  CL!Next
<1>1. pc[t] \in Receiving
  BY Reader
<1>2. CASE pc[t] = "listen"
  BY <1>2, ListeningEnds
<1>3. CASE pc[t] \in {"ready", "auth"}
  <2>1. <<Face', Telling(result)>> \in CL!ConnectEnds /\ result # "ok"
    BY <1>3 DEF CL!ConnectEnds, Telling
  <2> QED
    BY <1>3, <2>1, ConnectionEnds
<1>4. CASE pc[t] \in {"reply", "raw"}
  <2>1. <<Face', Telling(result)>> \in CL!ExchangeEnds(Face)
    BY <1>4 DEF CL!ExchangeEnds, Telling
  <2> QED
    BY <1>4, <2>1, ExchangeEnds
<1> QED
  BY <1>1, <1>2, <1>3, <1>4 DEF Receiving

\* A step of a read that goes on is not seen.
LEMMA ReadGoesOn ==
  ASSUME Method = "direct", Alone, TypeInv, NEW t \in Threads, pc[t] \in Receiving,
         pc' = pc, op' = op, outcome' = outcome,
         sock' = sock, wsConnected' = wsConnected, link' = link
  PROVE  UNCHANGED CL!vars
<1>1. Shown(t)' = Shown(t)
  BY FaceStays, ShownIs DEF Connecting
<1> QED
  BY <1>1, StepStutters DEF Receiving

LEMMA WaitingSeen ==
  ASSUME Method = "direct", Alone, TypeInv, ReadsHandle, ControlInv, StageInv,
         NEW t \in Threads, BeginRecv(t) \/ RecvTimeout(t) \/ RecvFails(t)
  PROVE  [CL!Next]_(CL!vars)
<1>1. CASE BeginRecv(t)
  <2>1. Connected /\ pc[t] \in Receiving
    BY <1>1 DEF BeginRecv, StageInv, Stage, Using, Receiving
  <2>2. pc' = pc /\ op' = op /\ outcome' = outcome
        /\ sock' = sock /\ wsConnected' = wsConnected /\ link' = link
    BY <1>1, <2>1 DEF BeginRecv, Connected, netVars
  <2> QED
    BY <2>1, <2>2, ReadGoesOn
<1>2. CASE RecvTimeout(t)
  <2>1. /\ on[t] # 0 /\ link[on[t]] \in {"open", "garbled"}
        /\ sock' = sock /\ wsConnected' = wsConnected /\ link' = link
    BY <1>2 DEF RecvTimeout, netVars
  <2>2. Face = "on" /\ Face' = "on"
    BY <2>1, Reader, FaceIs, FaceStays
  <2>3. "ok" \in Outcomes /\ "timeout" \in Outcomes
    BY DEF Outcomes
  <2> QED
    BY <1>2, <2>1, <2>2, <2>3, ReadEnds DEF RecvTimeout
<1>3. CASE RecvFails(t)
  <2>1. on[t] # 0 /\ sock' = sock /\ link' = link
    BY <1>3 DEF RecvFails, netVars
  <2>2. on[t] = sock /\ Connected /\ sock \in Conns /\ link[sock] \in {"open", "eof", "reset"}
    BY <2>1, Reader, FaceIs
  <2>3. "ok" \in Outcomes /\ "lost" \in Outcomes /\ "crash" \in Outcomes
    BY DEF Outcomes
  <2>4. CASE link[sock] = "eof"
    <3>1. /\ wsConnected' = [wsConnected EXCEPT ![sock] = FALSE]
          /\ Finish(t, IF pc[t] = "listen" THEN "ok" ELSE "lost")
      BY <1>3, <2>2, <2>4 DEF RecvFails
    <3>2. wsConnected'[sock] = FALSE
      BY <2>2, <3>1 DEF TypeInv, TypeOK, ClientTypes
    <3>3. Face = "on" /\ Face' = "off"
      BY <2>1, <2>2, <2>4, <3>2, FaceIs DEF Face, Connected
    <3> QED
      BY <2>1, <2>3, <3>1, <3>3, ReadEnds
  <2>5. CASE link[sock] = "reset"
    <3>1. wsConnected' = wsConnected /\ Finish(t, "crash")
      BY <1>3, <2>2, <2>5 DEF RecvFails
    <3>2. Face = "dead" /\ Face' = "dead"
      BY <2>1, <2>2, <2>5, <3>1, FaceIs, FaceStays
    <3> QED
      BY <2>1, <2>3, <3>1, <3>2, ReadEnds
  <2> QED
    BY <1>3, <2>2, <2>4, <2>5 DEF RecvFails
<1> QED
  BY <1>1, <1>2, <1>3

LEMMA MessageSeen ==
  ASSUME Method = "direct", Alone, TypeInv, ReadsHandle, ControlInv, StageInv,
         NEW t \in Threads,
         RecvMatching(t) \/ SkipMessage(t) \/ RecvRaw(t) \/ ListenMessage(t)
  PROVE  [CL!Next]_(CL!vars)
<1>1. /\ CanTake(t) /\ pc[t] \in {"reply", "raw", "listen"}
      /\ sock' = sock /\ wsConnected' = wsConnected /\ link' = link
  BY DEF RecvMatching, SkipMessage, RecvRaw, ListenMessage, Take
<1>2. Face = "on" /\ Face' = "on"
  BY <1>1, Reader, FaceStays DEF CanTake
<1>3. CASE pc' = pc /\ op' = op /\ outcome' = outcome
  BY <1>1, <1>3, ReadGoesOn DEF Receiving
<1>4. ASSUME NEW result \in {"ok", "error", "lost"}, pc[t] \in {"reply", "raw"},
             Finish(t, result)
      PROVE  CL!Next
  <2>1. <<Face', Telling(result)>> \in CL!ExchangeEnds(Face) /\ result \in Outcomes
    BY <1>2, <1>4 DEF CL!ExchangeEnds, Telling, Outcomes
  <2> QED
    BY <1>4, <2>1, ExchangeEnds
<1>5. ASSUME pc[t] = "listen", Finish(t, "ok") PROVE CL!Next
  BY <1>2, <1>5, ListeningEnds DEF Outcomes
<1> QED
  BY <1>3, <1>4, <1>5 DEF RecvMatching, SkipMessage, RecvRaw, ListenMessage

LEMMA CallSeen ==
  ASSUME Method = "direct", Alone, TypeInv, NEW t \in Threads, NEW o \in Ops, Call(t, o)
  PROVE  CL!Next
<1>1. /\ pc[t] = "idle" /\ op'[t] = o /\ outcome'[t] = "none"
      /\ pc'[t] = CASE o = "connect" -> "connect"
                    [] o \in {"close", "reconnect"} -> "close"
                    [] OTHER -> "ensure"
      /\ sock' = sock /\ wsConnected' = wsConnected /\ link' = link
  BY DEF Call, Goto, TypeInv, TypeOK, ThreadTypes, clientVars, netVars
<1>2. pc'[t] \in {"connect", "close", "ensure"}
  BY <1>1
<1>3. Shown(t)' = Shown(t)
  BY <1>1, <1>2, FaceStays, ShownIs DEF Connecting
<1>4. Task(t) = "idle" /\ Task(t)' \in CL!Tasks
  BY <1>1, <1>2, OpsAssumption, TaskWillBe DEF Task, CL!Tasks, OpKinds
<1>5. Told(t)' = "none"
  BY <1>1, ToldIs DEF Telling
<1>6. CL!Begin
  BY <1>3, <1>4, <1>5, UserSees DEF CL!Begin
<1> QED
  BY <1>6 DEF CL!Next

LEMMA NetworkSeen ==
  ASSUME Method = "direct", Alone, TypeInv, StageInv, NEW t \in Threads,
         NEW c \in Conns, Service(c)
  PROVE  [CL!Next]_(CL!vars)
<1>1. UNCHANGED <<clientVars, threadVars>>
  BY DEF Service, ServiceGreets, ServiceAuthenticates, ServiceAnswers, ServiceEvent,
     ServiceCloses, LinkBreaks
<1>2. pc' = pc /\ op' = op /\ outcome' = outcome /\ sock' = sock /\ wsConnected' = wsConnected
  BY <1>1 DEF clientVars, threadVars
<1>3. Task(t)' = Task(t) /\ Told(t)' = Told(t) /\ Connecting(t)' = Connecting(t)
  BY <1>2 DEF Task, Told, Connecting
<1>4. \A d \in Conns : \/ link'[d] = link[d]
                       \/ link'[d] = "eof" /\ link[d] = "open"
                       \/ link'[d] = "reset"
  BY DEF Service, ServiceGreets, ServiceAuthenticates, ServiceAnswers, ServiceEvent,
     ServiceCloses, LinkBreaks, TypeInv, TypeOK, NetTypes
<1>5. sock # 0 => sock \in Conns
  BY BoundAssumption DEF TypeInv, TypeOK, ClientTypes, Conns
<1>6. CASE sock # 0 => (link'[sock] = "reset" <=> link[sock] = "reset")
  <2>1. Shown(t)' = Shown(t)
    BY <1>2, <1>3, <1>6, FaceStays, ShownIs
  <2> QED
    BY <1>3, <2>1, SeesNothing
<1>7. CASE sock # 0 /\ link[sock] # "reset" /\ link'[sock] = "reset"
  <2>1. Connected' <=> Connected
    BY <1>2, StillConnected
  <2>2. CASE Connected /\ ~Connecting(t)
    <3>1. Shown(t) = "on" /\ Shown(t)' = "dead"
      BY <1>2, <1>3, <1>7, <2>1, <2>2, ShownIs DEF Face
    <3> QED
      BY <1>3, <3>1, SeesBreak
  <2>3. CASE ~Connected \/ Connecting(t)
    <3>1. Shown(t) = "off" /\ Shown(t)' = "off"
      BY <1>2, <1>3, <2>1, <2>3, ShownIs DEF Face
    <3> QED
      BY <1>3, <3>1, SeesNothing
  <2> QED
    BY <2>2, <2>3
<1> QED
  BY <1>4, <1>5, <1>6, <1>7

LEMMA ThreadSeen ==
  ASSUME Method = "direct", Alone, TypeInv, ReadsHandle, ControlInv, StageInv,
         NEW t \in Threads, ThreadStep(t)
  PROVE  [CL!Next]_(CL!vars)
<1>1. ~Handshake(t) /\ ~TimeoutInsideFrame(t)
  BY DEF StageInv, Stage, Handshake, TimeoutInsideFrame
<1> QED
  BY <1>1, EnsureSeen, CloseSeen, ConnectSeen, OpenSeen, RecvReadySeen, AuthenticateSeen,
     RecvAuthSeen, AcquireSeen, TransmitSeen, WaitingSeen, MessageSeen
  DEF ThreadStep, ConnectStep, ReceiveStep

\* Over a direct connection, and for one user, the client is the one the manager
\* of the REST service takes it for.
THEOREM RefinesClientLink ==
  ASSUME Method = "direct", Alone, Threads # {}
  PROVE  Spec => ImplementsClientLink
<1>1. PICK t \in Threads : TRUE
  OBVIOUS
<1>2. Init => CL!Init /\ ReadsHandle /\ StageInv
  <2> SUFFICES ASSUME Init PROVE CL!Init /\ ReadsHandle /\ StageInv
    OBVIOUS
  <2>1. pc[t] = "idle" /\ outcome[t] = "ok" /\ ~Connected
    BY DEF Init, Connected
  <2>2. Shown(t) = "off" /\ Task(t) = "idle" /\ Told(t) = "ok"
    BY <2>1, ShownIs, ToldIs DEF Face, Task, Telling
  <2>3. CL!Init
    BY <2>2, UserSees DEF CL!Init
  <2>4. ReadsHandle /\ StageInv
    BY DEF Init, ReadsHandle, StageInv, HandleKept, Stage, Using
  <2> QED
    BY <2>3, <2>4
<1>3. RefinementInv /\ ReadsHandle /\ StageInv /\ [Next]_vars
      => ReadsHandle' /\ StageInv' /\ [CL!Next]_(CL!vars)
  <2> SUFFICES ASSUME RefinementInv, ReadsHandle, StageInv, [Next]_vars
               PROVE  ReadsHandle' /\ StageInv' /\ [CL!Next]_(CL!vars)
    OBVIOUS
  <2>1. TypeInv /\ ControlInv
    BY DEF RefinementInv, AtMostOnceInv, TypeInv
  <2>2. ReadsHandle'
    BY <2>1, AloneTurns, ReadsHandleNext
  <2>3. ASSUME NEW u \in Threads, NEW o \in Ops, Call(u, o)
        PROVE  StageInv' /\ [CL!Next]_(CL!vars)
    BY <2>1, <2>3, StageCall, CallSeen
  <2>4. ASSUME NEW u \in Threads, ThreadStep(u)
        PROVE  StageInv' /\ [CL!Next]_(CL!vars)
    BY <2>1, <2>4, StageStep, ThreadSeen
  <2>5. ASSUME NEW c \in Conns, Service(c)
        PROVE  StageInv' /\ [CL!Next]_(CL!vars)
    BY <2>1, <2>5, StageService, NetworkSeen
  <2>6. CASE UNCHANGED vars
    <3>1. /\ pc' = pc /\ op' = op /\ outcome' = outcome
          /\ sock' = sock /\ wsConnected' = wsConnected /\ link' = link
      BY <2>6 DEF vars, clientVars, threadVars, netVars
    <3>2. StageInv'
      BY <2>1, <3>1, KeptStays, StageStays DEF StageInv
    <3>3. Shown(t)' = Shown(t) /\ Task(t)' = Task(t) /\ Told(t)' = Told(t)
      BY <3>1, FaceStays, ShownIs, ToldIs DEF Task, Connecting
    <3> QED
      BY <2>2, <3>2, <3>3, SeesNothing
  <2> QED
    BY <2>2, <2>3, <2>4, <2>5, <2>6 DEF Next, AllCallsMade
<1> QED
  BY <1>2, <1>3, RefinementInvAlways, PTL DEF Spec, ImplementsClientLink, CL!Spec
=============================================================================
