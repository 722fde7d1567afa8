------------------------ MODULE WebSocketClientProofs ------------------------
(****************************************************************************)
(* What the WebSocket client guarantees for every number of threads, calls, *)
(* connections and messages, every connection method and every order in     *)
(* which the service answers.                                               *)
(****************************************************************************)
EXTENDS WebSocketClient, SequenceTheorems, TLAPS

----------------------------------------------------------------------------
TypeInv == TypeOK /\ InCall

LEMMA TypeInit == Init => TypeInv
<1> SUFFICES ASSUME Init PROVE TypeInv
  OBVIOUS
<1>1. ClientTypes
  <2>1. sock \in 0..MaxConns /\ messageId \in Nat
    BY BoundAssumption DEF Init
  <2>2. ready \in BOOLEAN /\ wsConnected \in [Conns -> BOOLEAN]
    BY DEF Init
  <2> QED
    BY <2>1, <2>2 DEF ClientTypes
<1>2. ThreadTypes
  BY BoundAssumption, SizeAssumption
     DEF Init, ThreadTypes, Labels, OpKinds, Outcomes
<1>3. NetTypes
  BY BoundAssumption DEF Init, NetTypes, Links
<1>4. InCall
  BY DEF Init, InCall
<1> QED
  BY <1>1, <1>2, <1>3, <1>4 DEF TypeInv, TypeOK

----------------------------------------------------------------------------
(* What the shared pieces of the actions do to the types.                   *)

\* A thread moves on and nothing else of it changes but what it reads.
LEMMA MoveTypes ==
  ASSUME TypeInv, NEW t \in Threads, NEW label \in Labels,
         pc[t] # "idle", label # "reply", Goto(t, label),
         on' = on \/ on' = [on EXCEPT ![t] = 0],
         lock' \in Threads \cup {None}, base' \in [Threads -> Nat],
         UNCHANGED <<op, calls, want, skip, got, outcome>>
  PROVE  ThreadTypes' /\ InCall'
<1> USE DEF TypeInv, TypeOK, ThreadTypes
<1>1. pc' \in [Threads -> Labels]
  BY DEF Goto
<1>2. on' \in [Threads -> 0..MaxConns]
  <2>1. 0 \in 0..MaxConns
    BY BoundAssumption
  <2> QED
    BY <2>1
<1>3. InCall'
  BY DEF InCall, Goto
<1> QED
  BY <1>1, <1>2, <1>3

LEMMA FinishTypes ==
  ASSUME TypeInv, NEW t \in Threads, NEW result \in Outcomes, Finish(t, result),
         got' \in [Threads -> Seq(Request)]
  PROVE  ThreadTypes' /\ InCall'
<1> USE DEF TypeInv, TypeOK, ThreadTypes, Finish
<1>1. pc' \in [Threads -> Labels]
  BY DEF Labels
<1>2. want' \in [Threads -> Seq(Nat \ {0})]
  OBVIOUS
<1>3. skip' \in [Threads -> 0..(MaxSkip - 1)]
  BY SizeAssumption
<1>4. on' \in [Threads -> 0..MaxConns]
  BY BoundAssumption
<1>5. base' \in [Threads -> Nat] /\ outcome' \in [Threads -> Outcomes]
  OBVIOUS
<1>6. lock' \in Threads \cup {None}
  OBVIOUS
<1>7. InCall'
  BY DEF InCall
<1> QED
  BY <1>1, <1>2, <1>3, <1>4, <1>5, <1>6, <1>7

LEMMA ConnectReturnsTypes ==
  ASSUME TypeInv, NEW t \in Threads, pc[t] # "idle", ConnectReturns(t)
  PROVE  ThreadTypes' /\ InCall'
<1> USE DEF TypeInv, TypeOK, ThreadTypes, ConnectReturns
<1>1. AfterConnect(t) \in Labels \ {"reply"}
  BY DEF AfterConnect, Labels
<1>2. pc' \in [Threads -> Labels]
  BY <1>1 DEF Goto
<1>3. on' \in [Threads -> 0..MaxConns]
  BY BoundAssumption
<1>4. outcome' \in [Threads -> Outcomes]
  BY DEF Outcomes
<1>5. InCall'
  BY <1>1 DEF InCall, Goto
<1> QED
  BY <1>2, <1>3, <1>4, <1>5

LEMMA CloseHandleTypes ==
  ASSUME TypeInv, NEW unread \in [Conns -> Seq(Message)], CloseHandle(unread),
         UNCHANGED <<messageId, conns, pending, greeted, auth, execs>>
  PROVE  ClientTypes' /\ NetTypes'
<1> USE DEF TypeInv, TypeOK, CloseHandle, ClientTypes, NetTypes
<1>1. sock' = 0 /\ 0 \in 0..MaxConns
  BY BoundAssumption
<1>2. wsConnected' \in [Conns -> BOOLEAN]
  OBVIOUS
<1>3. link' \in [Conns -> Links]
  BY DEF Links
<1>4. inbox' \in [Conns -> Seq(Message)]
  <2>1. << >> \in Seq(Message)
    OBVIOUS
  <2>2. CASE sock = 0
    BY <2>2
  <2>3. CASE sock # 0
    <3>1. inbox' = [unread EXCEPT ![sock] = << >>]
      BY <2>3
    <3> QED
      BY <2>1, <3>1
  <2> QED
    BY <2>2, <2>3
<1>5. ready' \in BOOLEAN
  OBVIOUS
<1> QED
  BY <1>1, <1>2, <1>3, <1>4, <1>5

\* A message that can be taken is one, and what is left unread is a sequence.
LEMMA TakenTypes ==
  ASSUME TypeInv, NEW t \in Threads, CanTake(t)
  PROVE  /\ on[t] \in Conns
         /\ Taken(t) \in Message
         /\ Unread(t) \in [Conns -> Seq(Message)]
<1> USE DEF TypeInv, TypeOK, ThreadTypes, NetTypes
<1>1. on[t] \in Conns
  BY BoundAssumption DEF CanTake, Conns
<1>2. inbox[on[t]] \in Seq(Message) /\ inbox[on[t]] # << >>
  BY <1>1 DEF CanTake
<1>3. Head(inbox[on[t]]) \in Message /\ Tail(inbox[on[t]]) \in Seq(Message)
  BY <1>2
<1> QED
  BY <1>1, <1>3 DEF Taken, Unread

LEMMA TakeTypes ==
  ASSUME TypeInv, NEW t \in Threads, Take(t), UNCHANGED link
  PROVE  NetTypes'
  BY TakenTypes DEF Take, TypeInv, TypeOK, NetTypes

LEMMA WriteFailsTypes ==
  ASSUME TypeInv, NEW t \in Threads, WriteFails(t), messageId' \in Nat
  PROVE  TypeInv'
<1>1. PICK result \in {"lost", "crash"} : Finish(t, result)
  BY DEF WriteFails, Unconnected
<1>2. ThreadTypes' /\ InCall'
  BY <1>1, FinishTypes DEF WriteFails, TypeInv, TypeOK, ThreadTypes, Outcomes
<1>3. ready' \in BOOLEAN
  BY DEF WriteFails, Unconnected, TypeInv, TypeOK, ClientTypes
<1>4. ClientTypes' /\ NetTypes'
  BY <1>3 DEF WriteFails, netVars, TypeInv, TypeOK, ClientTypes, NetTypes
<1> QED
  BY <1>2, <1>4 DEF TypeInv, TypeOK

\* A frame goes out on a connection.
LEMMA WrittenTypes ==
  ASSUME TypeInv, Writable, Written
  PROVE  /\ sock \in Conns
         /\ link' \in [Conns -> Links]
         /\ inbox' \in [Conns -> Seq(Message)]
<1> USE DEF TypeInv, TypeOK, ClientTypes, NetTypes
<1>1. sock \in Conns
  BY BoundAssumption DEF Writable, Conns
<1>2. << >> \in Seq(Message)
  OBVIOUS
<1>3. link' \in [Conns -> Links]
  BY DEF Written, Links
<1>4. inbox' \in [Conns -> Seq(Message)]
  <2>1. CASE link[sock] = "eof"
    <3>1. inbox' = [inbox EXCEPT ![sock] = << >>]
      BY <2>1 DEF Written
    <3> QED
      BY <1>2, <3>1
  <2>2. CASE link[sock] # "eof"
    BY <2>2 DEF Written
  <2> QED
    BY <2>1, <2>2
<1> QED
  BY <1>1, <1>3, <1>4

\* A message goes into an inbox.
LEMMA ArriveTypes ==
  ASSUME TypeInv, NEW c \in Conns, NEW m \in Message, Arrive(c, m)
  PROVE  inbox' \in [Conns -> Seq(Message)]
  BY DEF Arrive, TypeInv, TypeOK, NetTypes

LEMMA OwnTypes ==
  ASSUME TypeInv, NEW t \in Threads, pc[t] # "idle", NEW i \in 1..BatchSize
  PROVE  Own(t, i) \in Request
  BY DEF TypeInv, InCall, Own, Request
----------------------------------------------------------------------------
(* Every action preserves the types.                                        *)

LEMMA CallTypes ==
  ASSUME TypeInv, NEW t \in Threads, NEW o \in Ops, Call(t, o)
  PROVE  TypeInv'
<1>1. ThreadTypes'
  <2> USE DEF TypeInv, TypeOK, ThreadTypes, Call, clientVars
  <2>1. calls[t] + 1 \in 0..MaxCalls
    BY BoundAssumption
  <2>2. calls' \in [Threads -> 0..MaxCalls]
    BY <2>1
  <2>3. pc' \in [Threads -> Labels]
    BY DEF Goto, Labels
  <2>4. op' \in [Threads -> OpKinds]
    BY OpsAssumption
  <2>5. outcome' \in [Threads -> Outcomes]
    BY DEF Outcomes
  <2> QED
    BY <2>2, <2>3, <2>4, <2>5
<1>2. ClientTypes' /\ NetTypes'
  BY DEF TypeInv, TypeOK, ClientTypes, NetTypes, Call, clientVars, netVars
<1>3. InCall'
  BY BoundAssumption DEF TypeInv, TypeOK, ThreadTypes, InCall, Call, Goto
<1> QED
  BY <1>1, <1>2, <1>3 DEF TypeInv, TypeOK

LEMMA EnsureConnectedTypes ==
  ASSUME TypeInv, NEW t \in Threads, EnsureConnected(t)
  PROVE  TypeInv'
<1>1. ClientTypes' /\ NetTypes'
  BY DEF TypeInv, TypeOK, ClientTypes, NetTypes, EnsureConnected, netVars
<1>2. CASE ConnectReturns(t)
  BY <1>1, <1>2, ConnectReturnsTypes DEF EnsureConnected, TypeInv, TypeOK
<1>3. CASE Goto(t, "close") /\ UNCHANGED <<op, calls, base, want, skip, on, got, outcome, lock>>
  <2>1. "close" \in Labels
    BY DEF Labels
  <2> QED
    BY <1>1, <1>3, <2>1, MoveTypes DEF EnsureConnected, TypeInv, TypeOK, ThreadTypes
<1>4. CASE Finish(t, "lost") /\ UNCHANGED got
  BY <1>1, <1>4, FinishTypes DEF TypeInv, TypeOK, ThreadTypes, Outcomes
<1> QED
  BY <1>2, <1>3, <1>4 DEF EnsureConnected

LEMMA CloseTypes ==
  ASSUME TypeInv, NEW t \in Threads, Close(t)
  PROVE  TypeInv'
<1>1. ClientTypes' /\ NetTypes'
  BY CloseHandleTypes DEF Close, TypeInv, TypeOK, NetTypes
<1>2. CASE Finish(t, "ok")
  BY <1>1, <1>2, FinishTypes DEF Close, TypeInv, TypeOK, ThreadTypes, Outcomes
<1>3. CASE Goto(t, "connect") /\ UNCHANGED <<op, calls, base, want, skip, on, outcome, lock>>
  <2>1. "connect" \in Labels
    BY DEF Labels
  <2> QED
    BY <1>1, <1>3, <2>1, MoveTypes DEF Close, TypeInv, TypeOK, ThreadTypes
<1> QED
  BY <1>2, <1>3 DEF Close

LEMMA ConnectTypes ==
  ASSUME TypeInv, NEW t \in Threads, Connect(t)
  PROVE  TypeInv'
<1>1. ClientTypes' /\ NetTypes'
  BY DEF TypeInv, TypeOK, ClientTypes, NetTypes, Connect, netVars
<1>2. CASE ConnectReturns(t)
  BY <1>1, <1>2, ConnectReturnsTypes DEF Connect, TypeInv, TypeOK
<1>3. CASE Goto(t, "open") /\ UNCHANGED <<op, calls, base, want, skip, on, got, outcome, lock>>
  <2>1. "open" \in Labels
    BY DEF Labels
  <2> QED
    BY <1>1, <1>3, <2>1, MoveTypes DEF Connect, TypeInv, TypeOK, ThreadTypes
<1> QED
  BY <1>2, <1>3 DEF Connect

LEMMA OpenTypes ==
  ASSUME TypeInv, NEW t \in Threads, Open(t)
  PROVE  TypeInv'
<1> USE DEF TypeInv, TypeOK
<1>1. conns + 1 \in Conns /\ conns + 1 \in 0..MaxConns
  BY BoundAssumption DEF Open, Conns, NetTypes
<1>2. ClientTypes'
  <2>1. wsConnected' \in [Conns -> BOOLEAN] /\ ready' \in BOOLEAN
    BY DEF Open, ClientTypes
  <2> QED
    BY <1>1, <2>1 DEF Open, ClientTypes
<1>3. NetTypes'
  BY <1>1 DEF Open, NetTypes, Links
<1>4. ThreadTypes' /\ InCall'
  <2>1. PICK label \in {"handshake", "ready"} : Goto(t, label)
    BY DEF Open
  <2>2. label \in Labels /\ label # "reply"
    BY DEF Labels
  <2> QED
    BY <2>1, <2>2, MoveTypes DEF Open, ThreadTypes
<1> QED
  BY <1>2, <1>3, <1>4

LEMMA OpenFailsTypes ==
  ASSUME TypeInv, NEW t \in Threads, OpenFails(t)
  PROVE  TypeInv'
<1>1. ThreadTypes' /\ InCall'
  BY FinishTypes DEF OpenFails, TypeInv, TypeOK, ThreadTypes, Outcomes
<1>2. sock' \in 0..MaxConns
  <2>1. 0 \in 0..MaxConns
    BY BoundAssumption
  <2> QED
    BY <2>1 DEF OpenFails, TypeInv, TypeOK, ClientTypes
<1>3. ClientTypes' /\ NetTypes'
  BY <1>2 DEF OpenFails, TypeInv, TypeOK, ClientTypes, NetTypes, netVars
<1> QED
  BY <1>1, <1>3 DEF TypeInv, TypeOK

LEMMA HandshakeTypes ==
  ASSUME TypeInv, NEW t \in Threads, Handshake(t)
  PROVE  TypeInv'
<1>1. CASE /\ Goto(t, "ready")
           /\ UNCHANGED <<op, calls, base, want, skip, on, outcome, lock, sock, ready,
                          wsConnected, link, inbox>>
  <2>1. "ready" \in Labels
    BY DEF Labels
  <2>2. ThreadTypes' /\ InCall'
    BY <1>1, <2>1, MoveTypes DEF Handshake, TypeInv, TypeOK, ThreadTypes
  <2>3. ClientTypes' /\ NetTypes'
    BY <1>1 DEF Handshake, TypeInv, TypeOK, ClientTypes, NetTypes
  <2> QED
    BY <2>2, <2>3 DEF TypeInv, TypeOK
<1>2. CASE CloseHandle(inbox) /\ Finish(t, "lost")
  <2>1. ClientTypes' /\ NetTypes'
    BY <1>2, CloseHandleTypes DEF Handshake, TypeInv, TypeOK, NetTypes
  <2> QED
    BY <1>2, <2>1, FinishTypes DEF Handshake, TypeInv, TypeOK, ThreadTypes, Outcomes
<1>3. CASE Finish(t, "crash") /\ UNCHANGED <<sock, ready, wsConnected, link, inbox>>
  <2>1. ClientTypes' /\ NetTypes'
    BY <1>3 DEF Handshake, TypeInv, TypeOK, ClientTypes, NetTypes
  <2> QED
    BY <1>3, <2>1, FinishTypes DEF Handshake, TypeInv, TypeOK, ThreadTypes, Outcomes
<1> QED
  BY <1>1, <1>2, <1>3 DEF Handshake

LEMMA BeginRecvTypes ==
  ASSUME TypeInv, NEW t \in Threads, BeginRecv(t)
  PROVE  TypeInv'
<1>1. ClientTypes' /\ NetTypes'
  <2>1. ready' \in BOOLEAN
    BY DEF TypeInv, TypeOK, ClientTypes, BeginRecv, Unconnected
  <2> QED
    BY <2>1 DEF TypeInv, TypeOK, ClientTypes, NetTypes, BeginRecv, netVars
<1>2. CASE \E result \in {"crash", "ok", "lost"} : Finish(t, result)
  BY <1>1, <1>2, FinishTypes DEF BeginRecv, TypeInv, TypeOK, ThreadTypes, Outcomes
<1>3. CASE /\ on' = [on EXCEPT ![t] = sock]
           /\ UNCHANGED <<pc, op, calls, base, want, skip, outcome, lock>>
  <2>1. ThreadTypes'
    BY <1>3 DEF BeginRecv, TypeInv, TypeOK, ThreadTypes, ClientTypes
  <2>2. InCall'
    BY <1>3 DEF InCall, TypeInv
  <2> QED
    BY <1>1, <2>1, <2>2 DEF TypeInv, TypeOK
<1> QED
  BY <1>2, <1>3 DEF BeginRecv, Unconnected

LEMMA RecvTimeoutTypes ==
  ASSUME TypeInv, NEW t \in Threads, RecvTimeout(t)
  PROVE  TypeInv'
<1>1. ClientTypes' /\ NetTypes'
  BY DEF TypeInv, TypeOK, ClientTypes, NetTypes, RecvTimeout, netVars
<1>2. PICK result \in {"timeout", "ok"} : Finish(t, result)
  BY DEF RecvTimeout
<1> QED
  BY <1>1, <1>2, FinishTypes DEF RecvTimeout, TypeInv, TypeOK, ThreadTypes, Outcomes

LEMMA TimeoutInsideFrameTypes ==
  ASSUME TypeInv, NEW t \in Threads, TimeoutInsideFrame(t)
  PROVE  TypeInv'
<1>1. on[t] \in Conns
  BY TakenTypes DEF TimeoutInsideFrame
<1>2. ClientTypes' /\ NetTypes'
  BY <1>1 DEF TypeInv, TypeOK, ClientTypes, NetTypes, TimeoutInsideFrame, Links
<1>3. PICK result \in {"timeout", "ok"} : Finish(t, result)
  BY DEF TimeoutInsideFrame
<1> QED
  BY <1>2, <1>3, FinishTypes DEF TimeoutInsideFrame, TypeInv, TypeOK, ThreadTypes, Outcomes

LEMMA RecvFailsTypes ==
  ASSUME TypeInv, NEW t \in Threads, RecvFails(t)
  PROVE  TypeInv'
<1>1. PICK result \in {"ok", "lost", "crash"} : Finish(t, result)
  BY DEF RecvFails
<1>2. ThreadTypes' /\ InCall'
  BY <1>1, FinishTypes DEF RecvFails, TypeInv, TypeOK, ThreadTypes, Outcomes
<1>3. ready' \in BOOLEAN
  BY DEF RecvFails, TypeInv, TypeOK, ClientTypes
<1>4. wsConnected' \in [Conns -> BOOLEAN]
  BY DEF RecvFails, TypeInv, TypeOK, ClientTypes
<1>5. ClientTypes' /\ NetTypes'
  BY <1>3, <1>4 DEF RecvFails, TypeInv, TypeOK, ClientTypes, NetTypes, netVars
<1> QED
  BY <1>2, <1>5 DEF TypeInv, TypeOK

LEMMA RecvReadyTypes ==
  ASSUME TypeInv, NEW t \in Threads, RecvReady(t)
  PROVE  TypeInv'
<1> USE DEF TypeInv, TypeOK
<1>1. CASE Taken(t).kind = "ready"
  <2>1. NetTypes'
    BY <1>1, TakeTypes DEF RecvReady
  <2>2. CASE Password
    <3>1. "authenticate" \in Labels
      BY DEF Labels
    <3>2. ThreadTypes' /\ InCall'
      BY <1>1, <2>2, <3>1, MoveTypes DEF RecvReady, ThreadTypes
    <3>3. ClientTypes'
      BY <1>1, <2>2 DEF RecvReady, ClientTypes
    <3> QED
      BY <2>1, <3>2, <3>3
  <2>3. CASE ~Password
    <3>1. ThreadTypes' /\ InCall'
      BY <1>1, <2>3, ConnectReturnsTypes DEF RecvReady
    <3>2. ClientTypes'
      BY <1>1, <2>3 DEF RecvReady, ClientTypes
    <3> QED
      BY <2>1, <3>1, <3>2
  <2> QED
    BY <2>2, <2>3
<1>2. CASE Taken(t).kind # "ready"
  <2>1. Unread(t) \in [Conns -> Seq(Message)]
    BY TakenTypes DEF RecvReady
  <2>2. ClientTypes' /\ NetTypes'
    BY <1>2, <2>1, CloseHandleTypes DEF RecvReady
  <2> QED
    BY <1>2, <2>2, FinishTypes DEF RecvReady, ThreadTypes, Outcomes
<1> QED
  BY <1>1, <1>2

LEMMA AuthenticateTypes ==
  ASSUME TypeInv, NEW t \in Threads, Authenticate(t)
  PROVE  TypeInv'
<1>1. CASE WriteFails(t)
  BY <1>1, WriteFailsTypes DEF Authenticate, TypeInv, TypeOK, ClientTypes
<1>2. CASE ~WriteFails(t)
  <2> USE DEF TypeInv, TypeOK
  <2>1. Writable /\ Written
    BY <1>2 DEF Authenticate
  <2>2. /\ sock \in Conns
        /\ link' \in [Conns -> Links]
        /\ inbox' \in [Conns -> Seq(Message)]
    BY <2>1, WrittenTypes
  <2>3. auth' \in [Conns -> {"none", "asked", "accepted", "refused"}]
    BY <1>2, <2>2 DEF Authenticate, NetTypes
  <2>4. NetTypes'
    BY <1>2, <2>2, <2>3 DEF Authenticate, NetTypes
  <2>5. "auth" \in Labels
    BY DEF Labels
  <2>6. ThreadTypes' /\ InCall'
    BY <1>2, <2>5, MoveTypes DEF Authenticate, ThreadTypes
  <2>7. ClientTypes'
    BY <1>2 DEF Authenticate, ClientTypes
  <2> QED
    BY <2>4, <2>6, <2>7
<1> QED
  BY <1>1, <1>2

LEMMA RecvAuthTypes ==
  ASSUME TypeInv, NEW t \in Threads, RecvAuth(t)
  PROVE  TypeInv'
<1> USE DEF TypeInv, TypeOK
<1>1. CASE Taken(t).ok
  <2>1. NetTypes'
    BY <1>1, TakeTypes DEF RecvAuth
  <2>2. ThreadTypes' /\ InCall'
    BY <1>1, ConnectReturnsTypes DEF RecvAuth
  <2>3. ClientTypes'
    BY <1>1 DEF RecvAuth, ClientTypes
  <2> QED
    BY <2>1, <2>2, <2>3
<1>2. CASE ~Taken(t).ok
  <2>1. Unread(t) \in [Conns -> Seq(Message)]
    BY TakenTypes DEF RecvAuth
  <2>2. ClientTypes' /\ NetTypes'
    BY <1>2, <2>1, CloseHandleTypes DEF RecvAuth
  <2> QED
    BY <1>2, <2>2, FinishTypes DEF RecvAuth, ThreadTypes, Outcomes
<1> QED
  BY <1>1, <1>2

LEMMA AcquireTypes ==
  ASSUME TypeInv, NEW t \in Threads, Acquire(t)
  PROVE  TypeInv'
<1>1. ClientTypes' /\ NetTypes'
  BY DEF TypeInv, TypeOK, ClientTypes, NetTypes, Acquire, netVars
<1>2. base' \in [Threads -> Nat] /\ lock' \in Threads \cup {None}
  BY DEF Acquire, TypeInv, TypeOK, ClientTypes, ThreadTypes
<1>3. "transmit" \in Labels
  BY DEF Labels
<1>4. ThreadTypes' /\ InCall'
  BY <1>2, <1>3, MoveTypes DEF Acquire
<1> QED
  BY <1>1, <1>4 DEF TypeInv, TypeOK

LEMMA TransmitTypes ==
  ASSUME TypeInv, NEW t \in Threads, Transmit(t)
  PROVE  TypeInv'
<1> USE DEF TypeInv, TypeOK
<1>1. base[t] \in Nat /\ Parts(t) \in 1..BatchSize
  BY SizeAssumption DEF ThreadTypes, Parts
<1>2. messageId' \in Nat
  BY <1>1 DEF Transmit
<1>3. CASE WriteFails(t)
  BY <1>2, <1>3, WriteFailsTypes
<1>4. CASE ~WriteFails(t)
  <2>1. Writable /\ Written
    BY <1>4 DEF Transmit
  <2>2. /\ sock \in Conns
        /\ link' \in [Conns -> Links]
        /\ inbox' \in [Conns -> Seq(Message)]
    BY <2>1, WrittenTypes
  <2>3. pending' \in [Conns -> SUBSET Entry]
    <3>1. \A i \in 1..Parts(t) : i \in 1..BatchSize /\ base[t] + i \in Nat
      BY <1>1, SizeAssumption
    <3>2. \A i \in 1..Parts(t) : Own(t, i) \in Request
      BY <3>1, OwnTypes DEF Transmit
    <3>3. {[id |-> base[t] + i, req |-> Own(t, i)] : i \in 1..Parts(t)} \subseteq Entry
      BY <3>1, <3>2 DEF Entry
    <3>4. \/ pending' = [pending EXCEPT ![sock] = @]
          \/ pending' = [pending EXCEPT ![sock] = @ \cup
                  {[id |-> base[t] + i, req |-> Own(t, i)] : i \in 1..Parts(t)}]
      BY <1>4 DEF Transmit, Submit
    <3>5. pending \in [Conns -> SUBSET Entry]
      BY DEF NetTypes
    <3> QED
      BY <2>2, <3>3, <3>4, <3>5
  <2>4. NetTypes'
    BY <1>4, <2>2, <2>3 DEF Transmit, NetTypes
  <2>5. [i \in 1..Parts(t) |-> base[t] + i] \in Seq(Nat \ {0})
    BY <1>1, SizeAssumption
  <2>6. want' \in [Threads -> Seq(Nat \ {0})]
    BY <1>4, <2>5 DEF Transmit, ThreadTypes
  <2>7. pc' \in [Threads -> Labels]
    BY <1>4 DEF Transmit, Goto, Labels, ThreadTypes
  <2>8. ThreadTypes'
    BY <1>4, <2>6, <2>7 DEF Transmit, ThreadTypes
  <2>9. InCall'
    <3>1. [i \in 1..Parts(t) |-> base[t] + i] # << >>
      BY <1>1, SizeAssumption
    <3> QED
      BY <1>4, <3>1 DEF Transmit, Goto, InCall, ThreadTypes
  <2>10. ClientTypes'
    BY <1>2, <1>4 DEF Transmit, ClientTypes
  <2> QED
    BY <2>4, <2>8, <2>9, <2>10
<1> QED
  BY <1>3, <1>4

LEMMA TransmitRawTypes ==
  ASSUME TypeInv, NEW t \in Threads, TransmitRaw(t)
  PROVE  TypeInv'
<1> USE DEF TypeInv, TypeOK
<1>1. CASE WriteFails(t)
  BY <1>1, WriteFailsTypes DEF TransmitRaw, ClientTypes
<1>2. CASE ~WriteFails(t)
  <2>1. Writable /\ Written
    BY <1>2 DEF TransmitRaw
  <2>2. /\ sock \in Conns
        /\ link' \in [Conns -> Links]
        /\ inbox' \in [Conns -> Seq(Message)]
    BY <2>1, WrittenTypes
  <2>3. pending' \in [Conns -> SUBSET Entry]
    <3>1. Own(t, 1) \in Request
      BY OwnTypes, SizeAssumption DEF TransmitRaw
    <3>2. {[id |-> 0, req |-> Own(t, 1)]} \subseteq Entry
      BY <3>1 DEF Entry
    <3>3. pending' = [pending EXCEPT ![sock] =
                        IF link[sock] = "eof" THEN @
                        ELSE @ \cup {[id |-> 0, req |-> Own(t, 1)]}]
      BY <1>2 DEF TransmitRaw, Submit
    <3> QED
      BY <2>2, <3>2, <3>3 DEF NetTypes
  <2>4. NetTypes'
    BY <1>2, <2>2, <2>3 DEF TransmitRaw, NetTypes
  <2>5. "raw" \in Labels
    BY DEF Labels
  <2>6. ThreadTypes' /\ InCall'
    BY <1>2, <2>5, MoveTypes DEF TransmitRaw, ThreadTypes
  <2>7. ClientTypes'
    BY <1>2 DEF TransmitRaw, ClientTypes
  <2> QED
    BY <2>4, <2>6, <2>7
<1> QED
  BY <1>1, <1>2

\* The message taken for a response carries the request of one.
LEMMA MatchIsAnswer ==
  ASSUME TypeInv, NEW t \in Threads, pc[t] = "reply", CanTake(t),
         Taken(t).id = Head(want[t])
  PROVE  Taken(t).req \in Request
<1>1. want[t] \in Seq(Nat \ {0}) /\ want[t] # << >>
  BY DEF TypeInv, TypeOK, ThreadTypes, InCall
<1>2. Head(want[t]) \in Nat \ {0}
  BY <1>1
<1>3. Taken(t) \in Answer
  BY <1>2, TakenTypes DEF Message, Notice
<1> QED
  BY <1>3 DEF Answer

LEMMA TailOfMany ==
  ASSUME NEW S, NEW q \in Seq(S), q # << >>, Len(q) # 1
  PROVE  /\ Tail(q) \in Seq(S) /\ Tail(q) # << >>
         /\ Len(Tail(q)) = Len(q) - 1
         /\ \A i \in 1..Len(Tail(q)) : Tail(q)[i] = q[i + 1]
<1>1. /\ Tail(q) \in Seq(S) /\ Len(Tail(q)) = Len(q) - 1
      /\ \A i \in 1..Len(Tail(q)) : Tail(q)[i] = q[i + 1]
  BY HeadTailProperties
<1>2. Len(q) \in Nat /\ Len(q) # 0
  BY LenProperties, EmptySeq
<1>3. Len(Tail(q)) # 0
  BY <1>1, <1>2
<1>4. Tail(q) # << >>
  BY <1>3, EmptySeq
<1> QED
  BY <1>1, <1>4

LEMMA RecvMatchingTypes ==
  ASSUME TypeInv, NEW t \in Threads, RecvMatching(t)
  PROVE  TypeInv'
<1> USE DEF TypeInv, TypeOK
<1>1. NetTypes'
  BY TakeTypes DEF RecvMatching
<1>2. ClientTypes'
  BY DEF RecvMatching, ClientTypes
<1>3. got' \in [Threads -> Seq(Request)]
  <2>1. CanTake(t)
    BY DEF RecvMatching, Take
  <2>2. Taken(t).req \in Request
    BY <2>1, MatchIsAnswer DEF RecvMatching
  <2>3. got[t] \in Seq(Request)
    BY DEF ThreadTypes
  <2>4. Append(got[t], Taken(t).req) \in Seq(Request)
    BY <2>2, <2>3
  <2> QED
    BY <2>4 DEF RecvMatching, ThreadTypes
<1>4. ThreadTypes' /\ InCall'
  <2>1. CASE \E result \in {"error", "ok"} : Finish(t, result)
    BY <1>3, <2>1, FinishTypes DEF Outcomes
  <2>2. CASE /\ Len(want[t]) # 1
             /\ want' = [want EXCEPT ![t] = Tail(@)]
             /\ skip' = [skip EXCEPT ![t] = 0]
             /\ on' = [on EXCEPT ![t] = 0]
             /\ UNCHANGED <<pc, op, calls, base, outcome, lock>>
    <3>1. want[t] \in Seq(Nat \ {0}) /\ want[t] # << >>
      BY DEF RecvMatching, ThreadTypes, InCall
    <3>2. Tail(want[t]) \in Seq(Nat \ {0}) /\ Tail(want[t]) # << >>
      BY <2>2, <3>1, TailOfMany
    <3>3. 0 \in 0..(MaxSkip - 1) /\ 0 \in 0..MaxConns
      BY SizeAssumption, BoundAssumption
    <3>4. ThreadTypes'
      BY <1>3, <2>2, <3>2, <3>3 DEF ThreadTypes
    <3>5. InCall'
      BY <2>2, <3>2 DEF InCall, ThreadTypes
    <3> QED
      BY <3>4, <3>5
  <2> QED
    BY <2>1, <2>2 DEF RecvMatching
<1> QED
  BY <1>1, <1>2, <1>4

LEMMA SkipMessageTypes ==
  ASSUME TypeInv, NEW t \in Threads, SkipMessage(t)
  PROVE  TypeInv'
<1> USE DEF TypeInv, TypeOK
<1>1. ClientTypes' /\ NetTypes'
  BY TakeTypes DEF SkipMessage, ClientTypes
<1>2. CASE Finish(t, "lost")
  BY <1>1, <1>2, FinishTypes DEF SkipMessage, ThreadTypes, Outcomes
<1>3. CASE /\ skip[t] + 1 # MaxSkip
           /\ skip' = [skip EXCEPT ![t] = @ + 1]
           /\ on' = [on EXCEPT ![t] = 0]
           /\ UNCHANGED <<pc, op, calls, base, want, outcome, lock>>
  <2>1. skip[t] + 1 \in 0..(MaxSkip - 1) /\ 0 \in 0..MaxConns
    <3>1. skip[t] \in 0..(MaxSkip - 1)
      BY DEF ThreadTypes
    <3> HIDE DEF TypeInv, TypeOK
    <3> QED
      BY <1>3, <3>1, SizeAssumption, BoundAssumption
  <2>2. ThreadTypes'
    BY <1>3, <2>1 DEF SkipMessage, ThreadTypes
  <2>3. InCall'
    BY <1>3 DEF InCall
  <2> QED
    BY <1>1, <2>2, <2>3
<1> QED
  BY <1>2, <1>3 DEF SkipMessage

LEMMA RecvRawTypes ==
  ASSUME TypeInv, NEW t \in Threads, RecvRaw(t)
  PROVE  TypeInv'
<1>1. ClientTypes' /\ NetTypes'
  BY TakeTypes DEF RecvRaw, ClientTypes, TypeInv, TypeOK
<1> QED
  BY <1>1, FinishTypes DEF RecvRaw, TypeInv, TypeOK, ThreadTypes, Outcomes

LEMMA ListenMessageTypes ==
  ASSUME TypeInv, NEW t \in Threads, ListenMessage(t)
  PROVE  TypeInv'
<1> USE DEF TypeInv, TypeOK
<1>1. ClientTypes' /\ NetTypes'
  BY TakeTypes DEF ListenMessage, ClientTypes
<1>2. CASE Finish(t, "ok")
  BY <1>1, <1>2, FinishTypes DEF ListenMessage, ThreadTypes, Outcomes
<1>3. CASE /\ on' = [on EXCEPT ![t] = 0]
           /\ UNCHANGED <<pc, op, calls, base, want, skip, outcome, lock>>
  <2>1. 0 \in 0..MaxConns
    BY BoundAssumption
  <2>2. ThreadTypes'
    BY <1>3, <2>1 DEF ListenMessage, ThreadTypes
  <2>3. InCall'
    BY <1>3 DEF InCall
  <2> QED
    BY <1>1, <2>2, <2>3
<1> QED
  BY <1>2, <1>3 DEF ListenMessage

\* The service and the network touch only the connections.
LEMMA ServiceTypes ==
  ASSUME TypeInv, NEW c \in Conns, Service(c)
  PROVE  TypeInv'
<1>1. UNCHANGED <<clientVars, threadVars>>
  BY DEF Service, ServiceGreets, ServiceAuthenticates, ServiceAnswers, ServiceEvent,
         ServiceCloses, LinkBreaks
<1>2. ClientTypes' /\ ThreadTypes' /\ InCall'
  BY <1>1 DEF clientVars, threadVars, TypeInv, TypeOK, ClientTypes, ThreadTypes, InCall
<1>3. NetTypes'
  <2> USE DEF TypeInv, TypeOK
  <2>1. CASE ServiceGreets(c)
    <3>1. inbox' \in [Conns -> Seq(Message)]
      BY <2>1, ArriveTypes DEF ServiceGreets, Unsolicited, Message, Notice
    <3> QED
      BY <2>1, <3>1 DEF ServiceGreets, NetTypes
  <2>2. CASE ServiceAuthenticates(c)
    <3>1. PICK ok \in BOOLEAN :
             /\ Arrive(c, AuthReply(ok))
             /\ auth' = [auth EXCEPT ![c] = IF ok THEN "accepted" ELSE "refused"]
      BY <2>2 DEF ServiceAuthenticates
    <3>2. inbox' \in [Conns -> Seq(Message)]
      BY <3>1, ArriveTypes DEF AuthReply, Message, Notice
    <3> QED
      BY <2>2, <3>1, <3>2 DEF ServiceAuthenticates, NetTypes
  <2>3. CASE ServiceAnswers(c)
    <3>1. PICK e \in pending[c], ok \in BOOLEAN :
             /\ pending' = [pending EXCEPT ![c] = @ \ Answered(c, e)]
             /\ execs' = IF Password /\ auth[c] # "accepted" THEN execs
                         ELSE [r \in Request |->
                                 IF \E f \in Answered(c, e) : f.req = r
                                 THEN execs[r] + 1 ELSE execs[r]]
             /\ IF link[c] = "open" THEN Arrive(c, Reply(e, ok)) ELSE UNCHANGED inbox
      BY <2>3 DEF ServiceAnswers
    <3>2. e \in Entry
      BY DEF NetTypes
    <3>3. Reply(e, ok) \in Message
      BY <3>2 DEF Entry, Reply, Message, Answer
    <3>4. inbox' \in [Conns -> Seq(Message)]
      BY <3>1, <3>3, ArriveTypes DEF NetTypes
    <3>5. execs' \in [Request -> Nat]
      BY <3>1 DEF NetTypes
    <3>6. pending' \in [Conns -> SUBSET Entry]
      BY <3>1 DEF NetTypes
    <3> QED
      BY <2>3, <3>4, <3>5, <3>6 DEF ServiceAnswers, NetTypes
  <2>4. CASE ServiceEvent(c)
    <3>1. inbox' \in [Conns -> Seq(Message)]
      BY <2>4, ArriveTypes DEF ServiceEvent, Unsolicited, Message, Notice
    <3> QED
      BY <2>4, <3>1 DEF ServiceEvent, NetTypes
  <2>5. CASE ServiceCloses(c)
    BY <2>5 DEF ServiceCloses, NetTypes, Links
  <2>6. CASE LinkBreaks(c)
    BY <2>6 DEF LinkBreaks, NetTypes, Links
  <2> QED
    BY <2>1, <2>2, <2>3, <2>4, <2>5, <2>6 DEF Service
<1> QED
  BY <1>2, <1>3 DEF TypeInv, TypeOK

LEMMA ThreadStepTypes ==
  ASSUME TypeInv, NEW t \in Threads, ThreadStep(t)
  PROVE  TypeInv'
  BY EnsureConnectedTypes, CloseTypes, ConnectTypes, OpenTypes, OpenFailsTypes,
     HandshakeTypes, BeginRecvTypes, RecvTimeoutTypes, TimeoutInsideFrameTypes,
     RecvFailsTypes, RecvReadyTypes, AuthenticateTypes, RecvAuthTypes, AcquireTypes,
     TransmitTypes, TransmitRawTypes, RecvMatchingTypes, SkipMessageTypes,
     RecvRawTypes, ListenMessageTypes
  DEF ThreadStep, ConnectStep, ReceiveStep

LEMMA UnchangedTypes == TypeInv /\ UNCHANGED vars => TypeInv'
  BY DEF TypeInv, TypeOK, ClientTypes, ThreadTypes, NetTypes, InCall, vars, clientVars,
         threadVars, netVars

LEMMA TypeStep == TypeInv /\ [Next]_vars => TypeInv'
  BY CallTypes, ThreadStepTypes, ServiceTypes, UnchangedTypes DEF Next, AllCallsMade

\* Every value the client, its callers and the service can hold is of its type:
\* the skip counter stays below _MAX_SKIP, and a thread that waits for a
\* response always waits for at least one id that was given out.
THEOREM TypeCorrect == Spec => []TypeOK
<1>1. Init => TypeInv
  BY TypeInit
<1>2. TypeInv /\ [Next]_vars => TypeInv'
  BY TypeStep
<1>3. TypeInv => TypeOK
  BY DEF TypeInv
<1> QED
  BY <1>1, <1>2, <1>3, PTL DEF Spec

----------------------------------------------------------------------------
(* The service executes a request at most once, whatever fails, times out,  *)
(* reconnects or interleaves: a call writes its frame once, and no other    *)
(* place in the client writes it again.                                     *)

\* What the invariant says of the requests, without the types.
SentOnce == UnsentUnknown /\ PendingNotExecuted /\ PendingOnce /\ AtMostOnce

\* No call has come back to a point before its frame.
NoneUnsent == \A r \in Request : NotSent(r)' => NotSent(r)

\* A step that neither sends nor answers.
LEMMA QuietSendsOnce ==
  ASSUME SentOnce, NoneUnsent, UNCHANGED <<pending, execs>>
  PROVE  SentOnce'
<1>1. UnsentUnknown'
  BY DEF SentOnce, NoneUnsent, UnsentUnknown
<1>2. PendingNotExecuted' /\ PendingOnce' /\ AtMostOnce'
  BY DEF SentOnce, PendingNotExecuted, PendingOnce, AtMostOnce
<1> QED
  BY <1>1, <1>2 DEF SentOnce

Sent == {"idle", "reply", "raw"}

\* A thread moves within a call, and not back.
LEMMA MovesForward ==
  ASSUME TypeInv, NEW t \in Threads, UNCHANGED calls, pc[t] \in Sent => pc'[t] \in Sent,
         \A u \in Threads \ {t} : pc'[u] = pc[u]
  PROVE  NoneUnsent
<1> SUFFICES ASSUME NEW r \in Request, NotSent(r)' PROVE NotSent(r)
  BY DEF NoneUnsent
<1>1. r.by \in Threads
  BY DEF Request
<1> QED
  BY <1>1 DEF NotSent, Sent

LEMMA FinishForward ==
  ASSUME TypeInv, NEW t \in Threads, NEW result, Finish(t, result)
  PROVE  NoneUnsent
<1>1. /\ UNCHANGED calls /\ pc'[t] \in Sent
      /\ \A u \in Threads \ {t} : pc'[u] = pc[u]
  BY DEF Finish, Sent, TypeInv, TypeOK, ThreadTypes
<1> QED
  BY <1>1, MovesForward

LEMMA GotoForward ==
  ASSUME TypeInv, NEW t \in Threads, NEW label, Goto(t, label), UNCHANGED calls,
         pc[t] \notin Sent
  PROVE  NoneUnsent
<1>1. \A u \in Threads \ {t} : pc'[u] = pc[u]
  BY DEF Goto, TypeInv, TypeOK, ThreadTypes
<1> QED
  BY <1>1, MovesForward

LEMMA StillForward ==
  ASSUME UNCHANGED <<pc, calls>> PROVE NoneUnsent
  BY DEF NoneUnsent, NotSent

LEMMA CallForward ==
  ASSUME TypeInv, NEW t \in Threads, NEW o \in Ops, Call(t, o)
  PROVE  NoneUnsent
<1> SUFFICES ASSUME NEW r \in Request, NotSent(r)' PROVE NotSent(r)
  BY DEF NoneUnsent
<1>1. r.by \in Threads /\ r.call \in Nat
  BY DEF Request
<1>2. calls[t] \in Nat /\ calls'[t] = calls[t] + 1
  BY BoundAssumption DEF Call, TypeInv, TypeOK, ThreadTypes
<1>3. CASE r.by = t
  <2>1. r.call > calls[t]
    BY <1>1, <1>2, <1>3 DEF NotSent
  <2> QED
    BY <1>3, <2>1 DEF NotSent
<1>4. CASE r.by # t
  <2>1. calls'[r.by] = calls[r.by] /\ pc'[r.by] = pc[r.by]
    BY <1>1, <1>4 DEF Call, Goto, TypeInv, TypeOK, ThreadTypes
  <2> QED
    BY <2>1 DEF NotSent
<1> QED
  BY <1>3, <1>4

LEMMA ConnectReturnsForward ==
  ASSUME TypeInv, NEW t \in Threads, ConnectReturns(t), pc[t] \notin Sent
  PROVE  NoneUnsent
  BY GotoForward DEF ConnectReturns

\* A write that fails sends nothing.
LEMMA WriteFailsForward ==
  ASSUME TypeInv, NEW t \in Threads, WriteFails(t)
  PROVE  NoneUnsent /\ UNCHANGED <<pending, execs>>
  BY FinishForward DEF WriteFails, Unconnected, netVars

----------------------------------------------------------------------------
(* The actions that neither send a request nor answer one.                  *)

LEMMA ConnectingQuiet ==
  ASSUME TypeInv, NEW t \in Threads, EnsureConnected(t) \/ Close(t) \/ ConnectStep(t)
  PROVE  NoneUnsent /\ UNCHANGED <<pending, execs>>
<1>1. CASE EnsureConnected(t)
  BY <1>1, ConnectReturnsForward, GotoForward, FinishForward
     DEF EnsureConnected, netVars, Sent
<1>2. CASE Close(t)
  BY <1>2, GotoForward, FinishForward DEF Close, Sent
<1>3. CASE Connect(t)
  BY <1>3, ConnectReturnsForward, GotoForward DEF Connect, netVars, Sent
<1>4. CASE Open(t)
  BY <1>4, GotoForward DEF Open, Sent
<1>5. CASE OpenFails(t)
  BY <1>5, FinishForward DEF OpenFails, netVars
<1>6. CASE Handshake(t)
  BY <1>6, GotoForward, FinishForward DEF Handshake, Sent
<1>7. CASE RecvReady(t)
  <2>1. UNCHANGED <<pending, execs>>
    BY <1>7 DEF RecvReady, Take
  <2>2. \/ Goto(t, "authenticate") /\ UNCHANGED calls
        \/ ConnectReturns(t)
        \/ Finish(t, "lost")
    BY <1>7 DEF RecvReady
  <2> QED
    BY <1>7, <2>1, <2>2, ConnectReturnsForward, GotoForward, FinishForward
       DEF RecvReady, Sent
<1>8. CASE Authenticate(t)
  BY <1>8, WriteFailsForward, GotoForward DEF Authenticate, Sent
<1>9. CASE RecvAuth(t)
  BY <1>9, ConnectReturnsForward, FinishForward DEF RecvAuth, Take, Sent
<1> QED
  BY <1>1, <1>2, <1>3, <1>4, <1>5, <1>6, <1>7, <1>8, <1>9 DEF ConnectStep

LEMMA ReceivingQuiet ==
  ASSUME TypeInv, NEW t \in Threads, ReceiveStep(t)
  PROVE  NoneUnsent /\ UNCHANGED <<pending, execs>>
<1>1. CASE BeginRecv(t)
  BY <1>1, FinishForward, StillForward DEF BeginRecv, Unconnected, netVars
<1>2. CASE RecvTimeout(t)
  BY <1>2, FinishForward DEF RecvTimeout, netVars
<1>3. CASE TimeoutInsideFrame(t)
  BY <1>3, FinishForward DEF TimeoutInsideFrame
<1>4. CASE RecvFails(t)
  <2>1. PICK result \in Outcomes : Finish(t, result)
    BY <1>4 DEF RecvFails, Outcomes
  <2> QED
    BY <1>4, <2>1, FinishForward DEF RecvFails, netVars
<1>5. CASE RecvMatching(t)
  BY <1>5, FinishForward, StillForward DEF RecvMatching, Take
<1>6. CASE SkipMessage(t)
  BY <1>6, FinishForward, StillForward DEF SkipMessage, Take
<1>7. CASE RecvRaw(t)
  BY <1>7, FinishForward DEF RecvRaw, Take
<1>8. CASE ListenMessage(t)
  BY <1>8, FinishForward, StillForward DEF ListenMessage, Take
<1> QED
  BY <1>1, <1>2, <1>3, <1>4, <1>5, <1>6, <1>7, <1>8 DEF ReceiveStep

LEMMA AcquireQuiet ==
  ASSUME TypeInv, NEW t \in Threads, Acquire(t)
  PROVE  NoneUnsent /\ UNCHANGED <<pending, execs>>
  BY GotoForward DEF Acquire, netVars, Sent

----------------------------------------------------------------------------
(* Sending: the requests of the frame were unsent, and are not any more.    *)

LEMMA SubmitSendsOnce ==
  ASSUME TypeInv, SentOnce, Writable, NEW entries, Submit(entries), UNCHANGED execs,
         NoneUnsent,
         \A e \in entries : e.req \in Request /\ NotSent(e.req) /\ ~NotSent(e.req)',
         \A e, f \in entries : e.req = f.req => e = f
  PROVE  SentOnce'
<1>1. sock \in Conns /\ pending \in [Conns -> SUBSET Entry]
  BY DEF Writable, TypeInv, TypeOK, ClientTypes, NetTypes, Conns
<1>2. \A c \in Conns : \A e \in pending'[c] :
         e \in pending[c] \/ (c = sock /\ e \in entries)
  <2>1. \A c \in Conns \ {sock} : pending'[c] = pending[c]
    BY <1>1 DEF Submit
  <2>2. pending'[sock] = pending[sock] \/ pending'[sock] = pending[sock] \cup entries
    BY <1>1 DEF Submit
  <2>3. ASSUME NEW c \in Conns, NEW e \in pending'[c]
        PROVE  e \in pending[c] \/ (c = sock /\ e \in entries)
    <3>1. CASE c = sock
      BY <2>2, <3>1
    <3>2. CASE c # sock
      BY <2>1, <3>2
    <3> QED
      BY <3>1, <3>2
  <2> QED
    BY <2>3
<1>3. \A e \in entries : /\ execs[e.req] = 0
                         /\ \A c \in Conns : \A f \in pending[c] : f.req # e.req
  BY DEF SentOnce, UnsentUnknown
<1>4. UnsentUnknown'
  <2> SUFFICES ASSUME NEW r \in Request, NotSent(r)'
               PROVE  execs[r] = 0 /\ \A c \in Conns : \A e \in pending'[c] : e.req # r
    BY DEF UnsentUnknown
  <2>1. execs[r] = 0 /\ \A c \in Conns : \A e \in pending[c] : e.req # r
    BY DEF NoneUnsent, SentOnce, UnsentUnknown
  <2>2. \A e \in entries : e.req # r
    OBVIOUS
  <2> QED
    BY <1>2, <2>1, <2>2
<1>5. PendingNotExecuted'
  BY <1>2, <1>3 DEF SentOnce, PendingNotExecuted
<1>6. PendingOnce'
  <2> SUFFICES ASSUME NEW c \in Conns, NEW d \in Conns,
                      NEW e \in pending'[c], NEW f \in pending'[d], e.req = f.req
               PROVE  c = d /\ e = f
    BY DEF PendingOnce
  <2>1. CASE e \in pending[c] /\ f \in pending[d]
    BY <2>1 DEF SentOnce, PendingOnce
  <2>2. CASE e \in pending[c] /\ d = sock /\ f \in entries
    BY <1>3, <2>2
  <2>3. CASE c = sock /\ e \in entries /\ f \in pending[d]
    BY <1>3, <2>3
  <2>4. CASE c = sock /\ e \in entries /\ d = sock /\ f \in entries
    BY <2>4
  <2> QED
    BY <1>2, <2>1, <2>2, <2>3, <2>4
<1>7. AtMostOnce'
  BY DEF SentOnce, AtMostOnce
<1> QED
  BY <1>4, <1>5, <1>6, <1>7 DEF SentOnce

\* The requests of the call a thread is in.
LEMMA OwnRequests ==
  ASSUME TypeInv, NEW t \in Threads, pc[t] # "idle", NEW i \in 1..BatchSize
  PROVE  /\ Own(t, i) \in Request
         /\ Own(t, i).by = t /\ Own(t, i).call = calls[t] /\ Own(t, i).part = i
  BY DEF Own, Request, TypeInv, InCall

LEMMA OwnSent ==
  ASSUME TypeInv, NEW t \in Threads, pc[t] \notin Sent, UNCHANGED calls, pc'[t] \in Sent,
         NEW r \in Request, r.by = t, r.call = calls[t]
  PROVE  NotSent(r) /\ ~NotSent(r)'
<1>1. calls[t] \in Nat
  BY BoundAssumption DEF TypeInv, TypeOK, ThreadTypes
<1> QED
  BY <1>1 DEF NotSent, Sent

LEMMA TransmitSendsOnce ==
  ASSUME TypeInv, SentOnce, NEW t \in Threads, Transmit(t)
  PROVE  SentOnce'
<1>1. CASE WriteFails(t)
  BY <1>1, WriteFailsForward, QuietSendsOnce
<1>2. CASE ~WriteFails(t)
  <2> DEFINE entries == {[id |-> base[t] + i, req |-> Own(t, i)] : i \in 1..Parts(t)}
  <2>1. /\ Writable /\ Submit(entries) /\ Goto(t, "reply")
        /\ UNCHANGED <<calls, execs>> /\ pc[t] = "transmit"
    BY <1>2 DEF Transmit
  <2>2. NoneUnsent
    BY <2>1, GotoForward DEF Sent
  <2>3. 1..Parts(t) \subseteq 1..BatchSize
    BY SizeAssumption DEF Parts
  <2>4. pc'[t] = "reply"
    BY <2>1 DEF Goto, TypeInv, TypeOK, ThreadTypes
  <2>5. \A e \in entries : e.req \in Request /\ NotSent(e.req) /\ ~NotSent(e.req)'
    <3>1. \A e \in entries : e.req \in Request /\ e.req.by = t /\ e.req.call = calls[t]
      BY <2>1, <2>3, OwnRequests
    <3>2. pc[t] \notin Sent /\ pc'[t] \in Sent
      BY <2>1, <2>4 DEF Sent
    <3> QED
      BY <2>1, <3>1, <3>2, OwnSent
  <2>6. \A e, f \in entries : e.req = f.req => e = f
    <3> SUFFICES ASSUME NEW i \in 1..Parts(t), NEW j \in 1..Parts(t), Own(t, i) = Own(t, j)
                 PROVE  i = j
      OBVIOUS
    <3> QED
      BY DEF Own
  <2> HIDE DEF entries
  <2> QED
    BY <2>1, <2>2, <2>5, <2>6, SubmitSendsOnce
<1> QED
  BY <1>1, <1>2

LEMMA TransmitRawSendsOnce ==
  ASSUME TypeInv, SentOnce, NEW t \in Threads, TransmitRaw(t)
  PROVE  SentOnce'
<1>1. CASE WriteFails(t)
  BY <1>1, WriteFailsForward, QuietSendsOnce
<1>2. CASE ~WriteFails(t)
  <2> DEFINE entries == {[id |-> 0, req |-> Own(t, 1)]}
  <2>1. /\ Writable /\ Submit(entries) /\ Goto(t, "raw")
        /\ UNCHANGED <<calls, execs>> /\ pc[t] = "transmitRaw"
    BY <1>2 DEF TransmitRaw
  <2>2. NoneUnsent
    BY <2>1, GotoForward DEF Sent
  <2>3. 1 \in 1..BatchSize
    BY SizeAssumption
  <2>4. pc'[t] = "raw"
    BY <2>1 DEF Goto, TypeInv, TypeOK, ThreadTypes
  <2>5. \A e \in entries : e.req \in Request /\ NotSent(e.req) /\ ~NotSent(e.req)'
    <3>1. \A e \in entries : e.req \in Request /\ e.req.by = t /\ e.req.call = calls[t]
      BY <2>1, <2>3, OwnRequests
    <3>2. pc[t] \notin Sent /\ pc'[t] \in Sent
      BY <2>1, <2>4 DEF Sent
    <3> QED
      BY <2>1, <3>1, <3>2, OwnSent
  <2> QED
    BY <2>1, <2>2, <2>5, SubmitSendsOnce
<1> QED
  BY <1>1, <1>2

----------------------------------------------------------------------------
(* Answering: what is executed is no longer pending anywhere.               *)

LEMMA AnswersKeep ==
  ASSUME TypeInv, SentOnce, NEW c \in Conns, ServiceAnswers(c)
  PROVE  SentOnce'
<1>1. PICK e \in pending[c] :
         /\ pending' = [pending EXCEPT ![c] = @ \ Answered(c, e)]
         /\ \/ execs' = execs
            \/ execs' = [r \in Request |->
                           IF \E f \in Answered(c, e) : f.req = r
                           THEN execs[r] + 1 ELSE execs[r]]
  BY DEF ServiceAnswers
<1>2. UNCHANGED <<pc, calls>>
  BY DEF ServiceAnswers, threadVars
<1>3. /\ \A d \in Conns : pending'[d] \subseteq pending[d]
      /\ pending'[c] = pending[c] \ Answered(c, e)
      /\ Answered(c, e) \subseteq pending[c]
  BY <1>1 DEF Answered, TypeInv, TypeOK, NetTypes
<1>4. \A d \in Conns : \A f \in pending[d] : f.req \in Request
  BY DEF TypeInv, TypeOK, NetTypes, Entry
<1>5. \A r \in Request :
         \/ execs'[r] = execs[r]
         \/ execs'[r] = execs[r] + 1 /\ \E f \in Answered(c, e) : f.req = r
  BY <1>1
<1>6. PendingOnce'
  BY <1>3 DEF SentOnce, PendingOnce
<1>7. PendingNotExecuted'
  <2> SUFFICES ASSUME NEW d \in Conns, NEW f \in pending'[d] PROVE execs'[f.req] = 0
    BY DEF PendingNotExecuted
  <2>1. f \in pending[d] /\ execs[f.req] = 0 /\ f.req \in Request
    BY <1>3, <1>4 DEF SentOnce, PendingNotExecuted
  <2>2. ~ \E g \in Answered(c, e) : g.req = f.req
    BY <1>3, <2>1 DEF SentOnce, PendingOnce
  <2> QED
    BY <1>5, <2>1, <2>2
<1>8. UnsentUnknown'
  <2> SUFFICES ASSUME NEW r \in Request, NotSent(r)'
               PROVE  execs'[r] = 0 /\ \A d \in Conns : \A f \in pending'[d] : f.req # r
    BY DEF UnsentUnknown
  <2>1. execs[r] = 0 /\ \A d \in Conns : \A f \in pending[d] : f.req # r
    BY <1>2 DEF NotSent, SentOnce, UnsentUnknown
  <2> QED
    BY <1>3, <1>5, <2>1
<1>9. AtMostOnce'
  <2> SUFFICES ASSUME NEW r \in Request PROVE execs'[r] <= 1
    BY DEF AtMostOnce
  <2>1. CASE execs'[r] = execs[r]
    BY <2>1 DEF SentOnce, AtMostOnce
  <2>2. CASE execs'[r] = execs[r] + 1 /\ \E f \in Answered(c, e) : f.req = r
    <3>1. execs[r] = 0
      BY <1>3, <2>2 DEF SentOnce, PendingNotExecuted
    <3> QED
      BY <2>2, <3>1
  <2> QED
    BY <1>5, <2>1, <2>2
<1> QED
  BY <1>6, <1>7, <1>8, <1>9 DEF SentOnce

LEMMA ServiceSendsOnce ==
  ASSUME TypeInv, SentOnce, NEW c \in Conns, Service(c)
  PROVE  SentOnce'
<1>1. CASE ServiceAnswers(c)
  BY <1>1, AnswersKeep
<1>2. CASE ~ServiceAnswers(c)
  <2>1. UNCHANGED <<pc, calls, pending, execs>>
    BY <1>2 DEF Service, ServiceGreets, ServiceAuthenticates, ServiceEvent, ServiceCloses,
                LinkBreaks, threadVars
  <2> QED
    BY <2>1, StillForward, QuietSendsOnce
<1> QED
  BY <1>1, <1>2

\* A request is unsent, pending in one place, or done with: no step of the client
\* takes it back.
THEOREM SentOnceAlways == Spec => []AtMostOnceInv
<1>1. Init => AtMostOnceInv
  <2> SUFFICES ASSUME Init PROVE AtMostOnceInv
    OBVIOUS
  <2>1. TypeOK /\ InCall
    BY TypeInit DEF TypeInv
  <2>2. UnsentUnknown /\ PendingNotExecuted /\ PendingOnce /\ AtMostOnce
    BY DEF Init, UnsentUnknown, PendingNotExecuted, PendingOnce, AtMostOnce
  <2> QED
    BY <2>1, <2>2 DEF AtMostOnceInv
<1>2. AtMostOnceInv /\ [Next]_vars => AtMostOnceInv'
  <2> SUFFICES ASSUME AtMostOnceInv, [Next]_vars PROVE AtMostOnceInv'
    OBVIOUS
  <2>1. TypeInv /\ SentOnce /\ TypeInv'
    BY TypeStep DEF AtMostOnceInv, TypeInv, SentOnce
  <2>2. SentOnce'
    <3>1. ASSUME NEW t \in Threads, NEW o \in Ops, Call(t, o) PROVE SentOnce'
      BY <2>1, <3>1, CallForward, QuietSendsOnce DEF Call, netVars
    <3>2. ASSUME NEW t \in Threads, ThreadStep(t) PROVE SentOnce'
      BY <2>1, <3>2, ConnectingQuiet, ReceivingQuiet, AcquireQuiet, QuietSendsOnce,
         TransmitSendsOnce, TransmitRawSendsOnce DEF ThreadStep
    <3>3. ASSUME NEW c \in Conns, Service(c) PROVE SentOnce'
      BY <2>1, <3>3, ServiceSendsOnce
    <3>4. CASE UNCHANGED vars
      BY <2>1, <3>4, StillForward, QuietSendsOnce DEF vars, threadVars, netVars
    <3> QED
      BY <3>1, <3>2, <3>3, <3>4 DEF Next, AllCallsMade
  <2> QED
    BY <2>1, <2>2 DEF AtMostOnceInv, TypeInv, SentOnce
<1> QED
  BY <1>1, <1>2, PTL DEF Spec

\* The service executes a request at most once: a timeout, a lost connection or
\* a reconnection never makes the client send it again.
THEOREM AtMostOnceCorrect == Spec => []AtMostOnce
<1>1. AtMostOnceInv => AtMostOnce
  BY DEF AtMostOnceInv
<1> QED
  BY <1>1, SentOnceAlways, PTL

----------------------------------------------------------------------------
(* send and send_batch return the responses to the caller's own messages,   *)
(* for every number of threads, calls, connections and messages.  The lock  *)
(* is held from reading _message_id to the last response, so ids are never  *)
(* reused, and an id on any connection, even one opened later, stands for   *)
(* one request, which the service executed if it answers it.                *)

\* A step that puts no id on a connection, other than the 0 of a message that
\* carries none.
NoNewIds == \A c \in Conns : \A p \in Carried(c)' : p \in Carried(c) \/ p[1] = 0

LEMMA CarriedIds ==
  ASSUME TypeInv, NEW c \in Conns, NEW p \in Carried(c)
  PROVE  p[1] \in Nat
<1> USE DEF TypeInv, TypeOK, NetTypes
<1>1. CASE \E e \in pending[c] : p = <<e.id, e.req>>
  BY <1>1 DEF Entry
<1>2. CASE \E k \in DOMAIN inbox[c] : p = <<inbox[c][k].id, inbox[c][k].req>>
  <2>1. PICK k \in DOMAIN inbox[c] : p = <<inbox[c][k].id, inbox[c][k].req>>
    BY <1>2
  <2>2. inbox[c] \in Seq(Message)
    OBVIOUS
  <2>3. inbox[c][k] \in Message
    BY <2>1, <2>2
  <2> QED
    BY <2>1, <2>3 DEF Message, Notice, Answer
<1> QED
  BY <1>1, <1>2 DEF Carried

\* Reading, discarding and closing only take ids away.
LEMMA ReadingCarries ==
  ASSUME TypeInv, UNCHANGED pending,
         \A c \in Conns : \/ inbox'[c] = inbox[c] \/ inbox'[c] = << >>
                          \/ inbox[c] # << >> /\ inbox'[c] = Tail(inbox[c])
  PROVE  NoNewIds
<1> SUFFICES ASSUME NEW c \in Conns, NEW p \in Carried(c)' PROVE p \in Carried(c)
  BY DEF NoNewIds
<1>1. CASE \E e \in pending[c] : p = <<e.id, e.req>>
  BY <1>1 DEF Carried
<1>2. CASE \E k \in DOMAIN inbox'[c] : p = <<inbox'[c][k].id, inbox'[c][k].req>>
  <2>1. PICK k \in DOMAIN inbox'[c] : p = <<inbox'[c][k].id, inbox'[c][k].req>>
    BY <1>2
  <2>2. inbox[c] \in Seq(Message)
    BY DEF TypeInv, TypeOK, NetTypes
  <2>3. \E j \in DOMAIN inbox[c] : inbox'[c][k] = inbox[c][j]
    <3>1. CASE inbox'[c] = inbox[c]
      BY <2>1, <3>1
    <3>2. CASE inbox'[c] = << >>
      BY <2>1, <3>2
    <3>3. CASE inbox[c] # << >> /\ inbox'[c] = Tail(inbox[c])
      <4>1. k \in 1..Len(Tail(inbox[c])) /\ Len(Tail(inbox[c])) = Len(inbox[c]) - 1
        BY <2>1, <2>2, <3>3, HeadTailProperties, LenProperties
      <4>2. Tail(inbox[c])[k] = inbox[c][k + 1]
        BY <2>2, <3>3, <4>1, HeadTailProperties
      <4>3. k + 1 \in DOMAIN inbox[c]
        BY <2>2, <4>1, LenProperties
      <4> QED
        BY <3>3, <4>2, <4>3
    <3> QED
      BY <3>1, <3>2, <3>3
  <2> QED
    BY <2>1, <2>3 DEF Carried
<1> QED
  BY <1>1, <1>2 DEF Carried

\* A message that arrives brings the id of a request, or none.
LEMMA ArrivalCarries ==
  ASSUME TypeInv, NEW c \in Conns, NEW m \in Message,
         Arrive(c, m) \/ UNCHANGED inbox,
         m.id = 0 \/ <<m.id, m.req>> \in Carried(c),
         \A d \in Conns : pending'[d] \subseteq pending[d]
  PROVE  NoNewIds
<1> SUFFICES ASSUME NEW d \in Conns, NEW p \in Carried(d)'
             PROVE  p \in Carried(d) \/ p[1] = 0
  BY DEF NoNewIds
<1>1. CASE \E e \in pending'[d] : p = <<e.id, e.req>>
  BY <1>1 DEF Carried
<1>2. CASE \E k \in DOMAIN inbox'[d] : p = <<inbox'[d][k].id, inbox'[d][k].req>>
  <2>1. PICK k \in DOMAIN inbox'[d] : p = <<inbox'[d][k].id, inbox'[d][k].req>>
    BY <1>2
  <2>2. inbox[d] \in Seq(Message) /\ inbox \in [Conns -> Seq(Message)]
    BY DEF TypeInv, TypeOK, NetTypes
  <2>3. CASE inbox'[d] = inbox[d]
    BY <2>1, <2>3 DEF Carried
  <2>4. CASE d = c /\ inbox'[d] = Append(inbox[d], m)
    <3>1. k \in 1..(Len(inbox[d]) + 1)
      BY <2>1, <2>2, <2>4, AppendProperties
    <3>2. CASE k = Len(inbox[d]) + 1
      <4>1. inbox'[d][k] = m
        BY <2>2, <2>4, <3>2, AppendProperties
      <4> QED
        BY <2>1, <2>4, <4>1
    <3>3. CASE k \in 1..Len(inbox[d])
      <4>1. inbox'[d][k] = inbox[d][k]
        BY <2>2, <2>4, <3>3, AppendProperties
      <4>2. k \in DOMAIN inbox[d]
        BY <2>2, <3>3, LenProperties
      <4> QED
        BY <2>1, <4>1, <4>2 DEF Carried
    <3>4. Len(inbox[d]) \in Nat
      BY <2>2, LenProperties
    <3> QED
      BY <3>1, <3>2, <3>3, <3>4
  <2> QED
    BY <2>2, <2>3, <2>4 DEF Arrive
<1> QED
  BY <1>1, <1>2 DEF Carried

----------------------------------------------------------------------------
(* What a step leaves of the invariant.                                     *)

LEMMA IdsStayGivenOut ==
  ASSUME TypeInv, IdsGivenOut, NoNewIds, messageId' \in Nat, messageId' >= messageId
  PROVE  IdsGivenOut'
<1> SUFFICES ASSUME NEW c \in Conns, NEW p \in Carried(c)' PROVE p[1] <= messageId'
  BY DEF IdsGivenOut
<1>1. CASE p[1] = 0
  BY <1>1
<1>2. CASE p \in Carried(c)
  <2>1. p[1] <= messageId /\ p[1] \in Nat /\ messageId \in Nat
    BY <1>2, CarriedIds DEF IdsGivenOut, TypeInv, TypeOK, ClientTypes
  <2> QED
    BY <2>1
<1> QED
  BY <1>1, <1>2 DEF NoNewIds

\* A thread that waits goes on waiting for its own ids when no new ids arrive.
LEMMA AwaitedStays ==
  ASSUME TypeInv, NEW u \in Threads, AwaitsOwnIds(u), NoNewIds,
         messageId' \in Nat, messageId' >= messageId,
         pc'[u] = "reply" => pc[u] = "reply",
         want'[u] = want[u], got'[u] = got[u], calls'[u] = calls[u]
  PROVE  AwaitsOwnIds(u)'
<1> SUFFICES ASSUME pc'[u] = "reply", NEW i \in DOMAIN want[u]
             PROVE  /\ want[u][i] \in 1..messageId'
                    /\ Len(got[u]) + i <= BatchSize
                    /\ \A c \in Conns : \A p \in Carried(c)' :
                          p[1] = want[u][i] => p[2] = Own(u, Len(got[u]) + i)
  BY DEF AwaitsOwnIds, Own
<1>1. /\ want[u][i] \in 1..messageId
      /\ Len(got[u]) + i <= BatchSize
      /\ \A c \in Conns : \A p \in Carried(c) :
            p[1] = want[u][i] => p[2] = Own(u, Len(got[u]) + i)
  BY DEF AwaitsOwnIds
<1>2. messageId \in Nat
  BY DEF TypeInv, TypeOK, ClientTypes
<1>3. want[u][i] \in 1..messageId' /\ want[u][i] # 0
  BY <1>1, <1>2
<1> QED
  BY <1>1, <1>3 DEF NoNewIds

\* A thread the step does not touch.
LEMMA OtherThread ==
  ASSUME TypeInv, NEW u \in Threads, CallInv(u), NoNewIds,
         messageId' \in Nat, messageId' >= messageId,
         pc[u] = "transmit" => messageId' = messageId,
         lock = u => lock' = u,
         pc'[u] = pc[u], base'[u] = base[u], want'[u] = want[u], got'[u] = got[u],
         calls'[u] = calls[u]
  PROVE  CallInv(u)'
<1>1. HoldsLock(u)'
  BY DEF CallInv, HoldsLock
<1>2. NothingCollected(u)'
  BY DEF CallInv, NothingCollected
<1>3. AwaitsOwnIds(u)'
  BY AwaitedStays DEF CallInv
<1>4. HoldsOwnAnswers(u)'
  BY DEF CallInv, HoldsOwnAnswers, Own
<1> QED
  BY <1>1, <1>2, <1>3, <1>4 DEF CallInv

\* A thread that moves outside the section between request and response.
LEMMA OutsideThread ==
  ASSUME NEW t \in Threads, CallInv(t), pc'[t] \notin Critical,
         pc[t] # "idle", pc'[t] \notin {"idle", "reply"} => pc[t] # "reply",
         got'[t] = got[t], calls'[t] = calls[t]
  PROVE  CallInv(t)'
<1>1. HoldsLock(t)' /\ AwaitsOwnIds(t)'
  BY DEF HoldsLock, AwaitsOwnIds, Critical
<1>2. NothingCollected(t)'
  BY DEF CallInv, NothingCollected
<1>3. HoldsOwnAnswers(t)'
  BY DEF CallInv, HoldsOwnAnswers, Own
<1> QED
  BY <1>1, <1>2, <1>3 DEF CallInv

\* Thread t alone moves.
OnlyMoves(t) ==
    \A u \in Threads \ {t} :
        /\ pc'[u] = pc[u] /\ base'[u] = base[u] /\ want'[u] = want[u]
        /\ got'[u] = got[u] /\ calls'[u] = calls[u]
        /\ lock = u => lock' = u

LEMMA ThreadMoves ==
  ASSUME TypeInv, TypeInv', OwnAnswersInv, NEW t \in Threads, OnlyMoves(t), NoNewIds,
         messageId' >= messageId, lock = t \/ messageId' = messageId,
         CallInv(t)'
  PROVE  OwnAnswersInv'
<1>1. messageId' \in Nat
  BY DEF TypeInv, TypeOK, ClientTypes
<1>2. IdsGivenOut'
  BY <1>1, IdsStayGivenOut DEF OwnAnswersInv
<1>3. ASSUME NEW u \in Threads \ {t} PROVE CallInv(u)'
  <2>1. CallInv(u)
    BY DEF OwnAnswersInv
  <2>2. pc[u] = "transmit" => messageId' = messageId
    BY <2>1 DEF CallInv, HoldsLock, Critical
  <2> QED
    BY <1>1, <2>1, <2>2, OtherThread DEF OnlyMoves
<1> QED
  BY <1>2, <1>3 DEF OwnAnswersInv, TypeInv

\* A call that ends.
LEMMA FinishMoves ==
  ASSUME TypeInv, NEW t \in Threads, NEW result \in Outcomes, Finish(t, result),
         \A u \in Threads \ {t} : got'[u] = got[u]
  PROVE  OnlyMoves(t)
<1> QED
  BY DEF Finish, OnlyMoves, TypeInv, TypeOK, ThreadTypes

LEMMA FinishCounts ==
  ASSUME TypeInv, TypeInv', OwnAnswersInv, NEW t \in Threads, pc[t] # "idle",
         NEW result \in Outcomes, Finish(t, result), NoNewIds, UNCHANGED got,
         messageId' >= messageId, lock = t \/ messageId' = messageId
  PROVE  OwnAnswersInv'
<1>1. OnlyMoves(t)
  BY FinishMoves
<1>2. pc'[t] = "idle" /\ calls'[t] = calls[t]
  BY DEF Finish, TypeInv, TypeOK, ThreadTypes
<1>3. CallInv(t)'
  BY <1>2, OutsideThread DEF OwnAnswersInv, Critical
<1> QED
  BY <1>1, <1>3, ThreadMoves

LEMMA FinishKeeps ==
  ASSUME TypeInv, TypeInv', OwnAnswersInv, NEW t \in Threads, pc[t] # "idle",
         NEW result \in Outcomes, Finish(t, result), NoNewIds, UNCHANGED <<got, messageId>>
  PROVE  OwnAnswersInv'
<1>1. messageId' >= messageId
  BY DEF TypeInv, TypeOK, ClientTypes
<1> QED
  BY <1>1, FinishCounts

\* A thread that moves on outside the critical section.
LEMMA GotoKeeps ==
  ASSUME TypeInv, TypeInv', OwnAnswersInv, NEW t \in Threads,
         pc[t] \notin {"idle", "reply"},
         pc' = [pc EXCEPT ![t] = pc'[t]], pc'[t] \notin Critical, NoNewIds,
         UNCHANGED <<base, want, got, calls, lock, messageId>>
  PROVE  OwnAnswersInv'
<1>1. OnlyMoves(t)
  BY DEF OnlyMoves, TypeInv, TypeOK, ThreadTypes
<1>2. CallInv(t)'
  BY OutsideThread DEF OwnAnswersInv
<1>3. messageId' >= messageId
  BY DEF TypeInv, TypeOK, ClientTypes
<1> QED
  BY <1>1, <1>2, <1>3, ThreadMoves

LEMMA GoesOn ==
  ASSUME TypeInv, TypeInv', OwnAnswersInv, NEW t \in Threads, NEW label,
         pc[t] \notin {"idle", "reply"}, label \notin Critical, Goto(t, label), NoNewIds,
         UNCHANGED <<base, want, got, calls, lock, messageId>>
  PROVE  OwnAnswersInv'
<1>1. pc' = [pc EXCEPT ![t] = pc'[t]] /\ pc'[t] = label
  BY DEF Goto, TypeInv, TypeOK, ThreadTypes
<1> QED
  BY <1>1, GotoKeeps

LEMMA ConnectReturnsKeeps ==
  ASSUME TypeInv, TypeInv', OwnAnswersInv, NEW t \in Threads,
         pc[t] \notin {"idle", "reply"}, ConnectReturns(t), NoNewIds, UNCHANGED messageId
  PROVE  OwnAnswersInv'
<1>1. AfterConnect(t) \notin Critical
  BY DEF AfterConnect, Critical
<1>2. pc' = [pc EXCEPT ![t] = AfterConnect(t)]
  BY DEF ConnectReturns, Goto
<1>3. pc'[t] = AfterConnect(t)
  BY <1>2 DEF TypeInv, TypeOK, ThreadTypes
<1> QED
  BY <1>1, <1>2, <1>3, GotoKeeps DEF ConnectReturns

\* A step that leaves the threads and their ids alone.
LEMMA StillKeeps ==
  ASSUME TypeInv, TypeInv', OwnAnswersInv, NoNewIds,
         UNCHANGED <<pc, base, want, got, calls, lock, messageId>>
  PROVE  OwnAnswersInv'
<1>1. messageId' \in Nat /\ messageId' >= messageId
  BY DEF TypeInv, TypeOK, ClientTypes
<1>2. IdsGivenOut'
  BY <1>1, IdsStayGivenOut DEF OwnAnswersInv
<1>3. \A u \in Threads : CallInv(u)'
  BY <1>1, OtherThread DEF OwnAnswersInv
<1> QED
  BY <1>2, <1>3 DEF OwnAnswersInv, TypeInv

----------------------------------------------------------------------------
(* The connections under the shared pieces of the actions.                  *)

LEMMA StillCarries == ASSUME TypeInv, UNCHANGED <<pending, inbox>> PROVE NoNewIds
  BY ReadingCarries

LEMMA CloseCarries ==
  ASSUME TypeInv, NEW unread \in [Conns -> Seq(Message)], CloseHandle(unread),
         UNCHANGED pending,
         \A c \in Conns : \/ unread[c] = inbox[c]
                          \/ inbox[c] # << >> /\ unread[c] = Tail(inbox[c])
  PROVE  NoNewIds
<1>1. sock \in 0..MaxConns
  BY DEF TypeInv, TypeOK, ClientTypes
<1>2. \A c \in Conns : inbox'[c] = unread[c] \/ inbox'[c] = << >>
  BY <1>1 DEF CloseHandle, Conns
<1> QED
  BY <1>2, ReadingCarries

LEMMA UnreadIs ==
  ASSUME TypeInv, NEW t \in Threads, CanTake(t)
  PROVE  /\ Unread(t) \in [Conns -> Seq(Message)]
         /\ \A c \in Conns : \/ Unread(t)[c] = inbox[c]
                             \/ inbox[c] # << >> /\ Unread(t)[c] = Tail(inbox[c])
<1>1. inbox \in [Conns -> Seq(Message)] /\ on[t] \in Conns
  BY DEF CanTake, TypeInv, TypeOK, ThreadTypes, NetTypes, Conns
<1>2. Unread(t) \in [Conns -> Seq(Message)]
  BY TakenTypes
<1> QED
  BY <1>1, <1>2 DEF Unread, CanTake

LEMMA TakeCarries ==
  ASSUME TypeInv, NEW t \in Threads, Take(t) PROVE NoNewIds
  BY UnreadIs, ReadingCarries DEF Take

LEMMA WrittenCarries ==
  ASSUME TypeInv, Writable, Written, UNCHANGED pending PROVE NoNewIds
<1>1. \A c \in Conns : inbox'[c] = inbox[c] \/ inbox'[c] = << >>
  BY DEF Written, TypeInv, TypeOK, NetTypes
<1> QED
  BY <1>1, ReadingCarries

\* A frame puts on the connection the ids of its requests.
LEMMA SubmitCarries ==
  ASSUME TypeInv, NEW entries, Writable, Written, Submit(entries)
  PROVE  \A c \in Conns : \A p \in Carried(c)' :
            p \in Carried(c) \/ \E e \in entries : p = <<e.id, e.req>>
<1> SUFFICES ASSUME NEW c \in Conns, NEW p \in Carried(c)'
             PROVE  p \in Carried(c) \/ \E e \in entries : p = <<e.id, e.req>>
  OBVIOUS
<1>1. CASE \E e \in pending'[c] : p = <<e.id, e.req>>
  <2>1. pending'[c] \subseteq pending[c] \cup entries
    BY DEF Submit, TypeInv, TypeOK, NetTypes
  <2> QED
    BY <1>1, <2>1 DEF Carried
<1>2. CASE \E k \in DOMAIN inbox'[c] : p = <<inbox'[c][k].id, inbox'[c][k].req>>
  <2>1. inbox'[c] = inbox[c] \/ inbox'[c] = << >>
    BY DEF Written, TypeInv, TypeOK, NetTypes
  <2> QED
    BY <1>2, <2>1 DEF Carried
<1> QED
  BY <1>1, <1>2 DEF Carried

\* A write that fails ends the call.
LEMMA WriteFailsKeeps ==
  ASSUME TypeInv, TypeInv', OwnAnswersInv, NEW t \in Threads, pc[t] # "idle",
         WriteFails(t), messageId' >= messageId, lock = t \/ messageId' = messageId
  PROVE  OwnAnswersInv'
<1>1. NoNewIds
  BY StillCarries DEF WriteFails, netVars
<1>2. PICK result \in Outcomes : Finish(t, result)
  BY DEF WriteFails, Unconnected, Outcomes
<1> QED
  BY <1>1, <1>2, FinishCounts DEF WriteFails

----------------------------------------------------------------------------
(* The actions.                                                             *)

LEMMA CallKeeps ==
  ASSUME TypeInv, TypeInv', OwnAnswersInv, NEW t \in Threads, NEW o \in Ops, Call(t, o)
  PROVE  OwnAnswersInv'
<1>1. NoNewIds
  BY StillCarries DEF Call, netVars
<1>2. OnlyMoves(t)
  BY DEF Call, Goto, OnlyMoves, TypeInv, TypeOK, ThreadTypes, clientVars
<1>3. pc'[t] \notin Critical /\ got'[t] = << >>
  BY DEF Call, Goto, Critical, TypeInv, TypeOK, ThreadTypes
<1>4. CallInv(t)'
  BY <1>3 DEF CallInv, HoldsLock, NothingCollected, AwaitsOwnIds, HoldsOwnAnswers, Critical
<1>5. messageId' = messageId /\ messageId' >= messageId
  BY DEF Call, clientVars, TypeInv, TypeOK, ClientTypes
<1> QED
  BY <1>1, <1>2, <1>4, <1>5, ThreadMoves

LEMMA EnsureConnectedKeeps ==
  ASSUME TypeInv, TypeInv', OwnAnswersInv, NEW t \in Threads, EnsureConnected(t)
  PROVE  OwnAnswersInv'
<1>1. NoNewIds
  BY StillCarries DEF EnsureConnected, netVars
<1>2. CASE ConnectReturns(t)
  BY <1>1, <1>2, ConnectReturnsKeeps DEF EnsureConnected
<1>3. CASE Goto(t, "close") /\ UNCHANGED <<op, calls, base, want, skip, on, got, outcome, lock>>
  BY <1>1, <1>3, GoesOn DEF EnsureConnected, Critical
<1>4. CASE Finish(t, "lost") /\ UNCHANGED got
  BY <1>1, <1>4, FinishKeeps DEF EnsureConnected, Outcomes
<1> QED
  BY <1>2, <1>3, <1>4 DEF EnsureConnected

LEMMA CloseKeeps ==
  ASSUME TypeInv, TypeInv', OwnAnswersInv, NEW t \in Threads, Close(t)
  PROVE  OwnAnswersInv'
<1>1. NoNewIds
  BY CloseCarries DEF Close, TypeInv, TypeOK, NetTypes
<1>2. CASE Finish(t, "ok")
  BY <1>1, <1>2, FinishKeeps DEF Close, Outcomes
<1>3. CASE Goto(t, "connect") /\ UNCHANGED <<op, calls, base, want, skip, on, outcome, lock>>
  BY <1>1, <1>3, GoesOn DEF Close, Critical
<1> QED
  BY <1>2, <1>3 DEF Close

LEMMA ConnectKeeps ==
  ASSUME TypeInv, TypeInv', OwnAnswersInv, NEW t \in Threads, Connect(t)
  PROVE  OwnAnswersInv'
<1>1. NoNewIds
  BY StillCarries DEF Connect, netVars
<1>2. CASE ConnectReturns(t)
  BY <1>1, <1>2, ConnectReturnsKeeps DEF Connect
<1>3. CASE Goto(t, "open") /\ UNCHANGED <<op, calls, base, want, skip, on, got, outcome, lock>>
  BY <1>1, <1>3, GoesOn DEF Connect, Critical
<1> QED
  BY <1>2, <1>3 DEF Connect

LEMMA OpenKeeps ==
  ASSUME TypeInv, TypeInv', OwnAnswersInv, NEW t \in Threads, Open(t)
  PROVE  OwnAnswersInv'
<1>1. NoNewIds
  BY StillCarries DEF Open
<1>2. PICK label \in {"handshake", "ready"} : Goto(t, label)
  BY DEF Open
<1> QED
  BY <1>1, <1>2, GoesOn DEF Open, Critical

LEMMA OpenFailsKeeps ==
  ASSUME TypeInv, TypeInv', OwnAnswersInv, NEW t \in Threads, OpenFails(t)
  PROVE  OwnAnswersInv'
<1>1. NoNewIds
  BY StillCarries DEF OpenFails, netVars
<1> QED
  BY <1>1, FinishKeeps DEF OpenFails, Outcomes

LEMMA HandshakeKeeps ==
  ASSUME TypeInv, TypeInv', OwnAnswersInv, NEW t \in Threads, Handshake(t)
  PROVE  OwnAnswersInv'
<1>1. NoNewIds
  <2>1. CASE CloseHandle(inbox)
    BY <2>1, CloseCarries DEF Handshake, TypeInv, TypeOK, NetTypes
  <2>2. CASE UNCHANGED inbox
    BY <2>2, StillCarries DEF Handshake
  <2> QED
    BY <2>1, <2>2 DEF Handshake
<1>2. CASE \E result \in {"lost", "crash"} : Finish(t, result)
  BY <1>1, <1>2, FinishKeeps DEF Handshake, Outcomes
<1>3. CASE Goto(t, "ready") /\ UNCHANGED <<op, calls, base, want, skip, on, outcome, lock>>
  BY <1>1, <1>3, GoesOn DEF Handshake, Critical
<1> QED
  BY <1>2, <1>3 DEF Handshake

LEMMA BeginRecvKeeps ==
  ASSUME TypeInv, TypeInv', OwnAnswersInv, NEW t \in Threads, BeginRecv(t)
  PROVE  OwnAnswersInv'
<1>1. NoNewIds
  BY StillCarries DEF BeginRecv, netVars
<1>2. CASE \E result \in {"crash", "ok", "lost"} : Finish(t, result)
  BY <1>1, <1>2, FinishKeeps DEF BeginRecv, Receiving, Outcomes
<1>3. CASE UNCHANGED <<pc, op, calls, base, want, skip, outcome, lock>>
  BY <1>1, <1>3, StillKeeps DEF BeginRecv
<1> QED
  BY <1>2, <1>3 DEF BeginRecv, Unconnected

LEMMA RecvTimeoutKeeps ==
  ASSUME TypeInv, TypeInv', OwnAnswersInv, NEW t \in Threads, RecvTimeout(t)
  PROVE  OwnAnswersInv'
<1>1. NoNewIds
  BY StillCarries DEF RecvTimeout, netVars
<1>2. PICK result \in Outcomes : Finish(t, result)
  BY DEF RecvTimeout, Outcomes
<1> QED
  BY <1>1, <1>2, FinishKeeps DEF RecvTimeout, Receiving

LEMMA TimeoutInsideFrameKeeps ==
  ASSUME TypeInv, TypeInv', OwnAnswersInv, NEW t \in Threads, TimeoutInsideFrame(t)
  PROVE  OwnAnswersInv'
<1>1. NoNewIds
  <2>1. \A c \in Conns : inbox'[c] = inbox[c] \/ inbox'[c] = << >>
    BY DEF TimeoutInsideFrame, TypeInv, TypeOK, NetTypes
  <2> QED
    BY <2>1, ReadingCarries DEF TimeoutInsideFrame
<1>2. PICK result \in Outcomes : Finish(t, result)
  BY DEF TimeoutInsideFrame, Outcomes
<1> QED
  BY <1>1, <1>2, FinishKeeps DEF TimeoutInsideFrame, Receiving

LEMMA RecvFailsKeeps ==
  ASSUME TypeInv, TypeInv', OwnAnswersInv, NEW t \in Threads, RecvFails(t)
  PROVE  OwnAnswersInv'
<1>1. NoNewIds
  BY StillCarries DEF RecvFails, netVars
<1>2. PICK result \in Outcomes : Finish(t, result)
  BY DEF RecvFails, Outcomes
<1> QED
  BY <1>1, <1>2, FinishKeeps DEF RecvFails, Receiving

LEMMA RecvReadyKeeps ==
  ASSUME TypeInv, TypeInv', OwnAnswersInv, NEW t \in Threads, RecvReady(t)
  PROVE  OwnAnswersInv'
<1>1. NoNewIds
  <2>1. CASE Take(t)
    BY <2>1, TakeCarries
  <2>2. CASE CloseHandle(Unread(t))
    BY <2>2, UnreadIs, CloseCarries DEF RecvReady, Take
  <2> QED
    BY <2>1, <2>2 DEF RecvReady
<1>2. CASE ConnectReturns(t)
  BY <1>1, <1>2, ConnectReturnsKeeps DEF RecvReady
<1>3. CASE \E result \in {"lost", "denied"} : Finish(t, result) /\ UNCHANGED got
  BY <1>1, <1>3, FinishKeeps DEF RecvReady, Outcomes
<1>4. CASE Goto(t, "authenticate") /\ UNCHANGED <<op, calls, base, want, skip, got, outcome, lock>>
  BY <1>1, <1>4, GoesOn DEF RecvReady, Critical
<1> QED
  BY <1>2, <1>3, <1>4 DEF RecvReady

LEMMA RecvAuthKeeps ==
  ASSUME TypeInv, TypeInv', OwnAnswersInv, NEW t \in Threads, RecvAuth(t)
  PROVE  OwnAnswersInv'
<1>1. NoNewIds
  <2>1. CASE Take(t)
    BY <2>1, TakeCarries
  <2>2. CASE CloseHandle(Unread(t))
    BY <2>2, UnreadIs, CloseCarries DEF RecvAuth, Take
  <2> QED
    BY <2>1, <2>2 DEF RecvAuth
<1>2. CASE ConnectReturns(t)
  BY <1>1, <1>2, ConnectReturnsKeeps DEF RecvAuth
<1>3. CASE \E result \in {"lost", "denied"} : Finish(t, result) /\ UNCHANGED got
  BY <1>1, <1>3, FinishKeeps DEF RecvAuth, Outcomes
<1> QED
  BY <1>2, <1>3 DEF RecvAuth

LEMMA AuthenticateKeeps ==
  ASSUME TypeInv, TypeInv', OwnAnswersInv, NEW t \in Threads, Authenticate(t)
  PROVE  OwnAnswersInv'
<1>1. CASE WriteFails(t)
  <2>1. messageId' = messageId /\ messageId' >= messageId
    BY DEF Authenticate, TypeInv, TypeOK, ClientTypes
  <2> QED
    BY <1>1, <2>1, WriteFailsKeeps DEF Authenticate
<1>2. CASE ~WriteFails(t)
  <2>1. NoNewIds
    BY <1>2, WrittenCarries DEF Authenticate
  <2> QED
    BY <1>2, <2>1, GoesOn DEF Authenticate, Critical
<1> QED
  BY <1>1, <1>2

LEMMA RecvRawKeeps ==
  ASSUME TypeInv, TypeInv', OwnAnswersInv, NEW t \in Threads, RecvRaw(t)
  PROVE  OwnAnswersInv'
<1>1. NoNewIds
  BY TakeCarries DEF RecvRaw
<1> QED
  BY <1>1, FinishKeeps DEF RecvRaw, Outcomes

LEMMA ListenMessageKeeps ==
  ASSUME TypeInv, TypeInv', OwnAnswersInv, NEW t \in Threads, ListenMessage(t)
  PROVE  OwnAnswersInv'
<1>1. NoNewIds
  BY TakeCarries DEF ListenMessage
<1>2. CASE Finish(t, "ok")
  BY <1>1, <1>2, FinishKeeps DEF ListenMessage, Outcomes
<1>3. CASE UNCHANGED <<pc, op, calls, base, want, skip, outcome, lock>>
  BY <1>1, <1>3, StillKeeps DEF ListenMessage
<1> QED
  BY <1>2, <1>3 DEF ListenMessage

LEMMA SkipMessageKeeps ==
  ASSUME TypeInv, TypeInv', OwnAnswersInv, NEW t \in Threads, SkipMessage(t)
  PROVE  OwnAnswersInv'
<1>1. NoNewIds
  BY TakeCarries DEF SkipMessage
<1>2. CASE Finish(t, "lost")
  BY <1>1, <1>2, FinishKeeps DEF SkipMessage, Outcomes
<1>3. CASE UNCHANGED <<pc, op, calls, base, want, outcome, lock>>
  BY <1>1, <1>3, StillKeeps DEF SkipMessage
<1> QED
  BY <1>2, <1>3 DEF SkipMessage

LEMMA AcquireKeeps ==
  ASSUME TypeInv, TypeInv', OwnAnswersInv, NEW t \in Threads, Acquire(t)
  PROVE  OwnAnswersInv'
<1>1. NoNewIds
  BY StillCarries DEF Acquire, netVars
<1>2. OnlyMoves(t)
  BY ThreadsAssumption DEF Acquire, Goto, OnlyMoves, TypeInv, TypeOK, ThreadTypes
<1>3. /\ pc'[t] = "transmit" /\ lock' = t /\ base'[t] = messageId
      /\ messageId' = messageId /\ messageId' >= messageId
  BY DEF Acquire, Goto, TypeInv, TypeOK, ThreadTypes, ClientTypes
<1>4. CallInv(t)'
  <2>1. CallInv(t) /\ pc[t] = "acquire"
    BY DEF OwnAnswersInv, Acquire
  <2>2. HoldsLock(t)' /\ AwaitsOwnIds(t)'
    BY <1>3 DEF HoldsLock, AwaitsOwnIds
  <2>3. NothingCollected(t)'
    BY <2>1 DEF CallInv, NothingCollected, Acquire
  <2>4. HoldsOwnAnswers(t)'
    BY <2>1 DEF CallInv, HoldsOwnAnswers, Own, Acquire
  <2> QED
    BY <2>2, <2>3, <2>4 DEF CallInv
<1> QED
  BY <1>1, <1>2, <1>3, <1>4, ThreadMoves

\* send_raw() sends no id.
LEMMA TransmitRawKeeps ==
  ASSUME TypeInv, TypeInv', OwnAnswersInv, NEW t \in Threads, TransmitRaw(t)
  PROVE  OwnAnswersInv'
<1>1. CASE WriteFails(t)
  <2>1. messageId' = messageId /\ messageId' >= messageId
    BY DEF TransmitRaw, TypeInv, TypeOK, ClientTypes
  <2> QED
    BY <1>1, <2>1, WriteFailsKeeps DEF TransmitRaw
<1>2. CASE ~WriteFails(t)
  <2>1. NoNewIds
    BY <1>2, SubmitCarries DEF TransmitRaw, NoNewIds
  <2> QED
    BY <1>2, <2>1, GoesOn DEF TransmitRaw, Critical
<1> QED
  BY <1>1, <1>2

\* The ids of a frame are new, and those who waited for others have left: the
\* lock is this thread's.
LEMMA TransmitKeeps ==
  ASSUME TypeInv, TypeInv', OwnAnswersInv, NEW t \in Threads, Transmit(t)
  PROVE  OwnAnswersInv'
<1>1. /\ lock = t /\ base[t] = messageId /\ got[t] = << >>
      /\ \A u \in Threads \ {t} : pc[u] \notin Critical
  BY DEF Transmit, OwnAnswersInv, CallInv, HoldsLock, NothingCollected, Critical
<1>2. Parts(t) \in 1..BatchSize /\ messageId \in Nat /\ messageId' = messageId + Parts(t)
  BY <1>1, SizeAssumption DEF Transmit, Parts, TypeInv, TypeOK, ClientTypes
<1>3. messageId' \in Nat /\ messageId' >= messageId
  BY <1>2
<1>4. CASE WriteFails(t)
  BY <1>1, <1>3, <1>4, WriteFailsKeeps DEF Transmit
<1>5. CASE ~WriteFails(t)
  <2> DEFINE new == {[id |-> base[t] + i, req |-> Own(t, i)] : i \in 1..Parts(t)}
  <2>1. \A c \in Conns : \A p \in Carried(c)' :
           p \in Carried(c) \/ \E e \in new : p = <<e.id, e.req>>
    BY <1>5, SubmitCarries DEF Transmit
  <2>2. \A c \in Conns : \A p \in Carried(c)' :
           \/ p[1] \in Nat /\ p[1] <= messageId
           \/ \E j \in 1..Parts(t) : p = <<messageId + j, Own(t, j)>>
    BY <1>1, <2>1, CarriedIds DEF OwnAnswersInv, IdsGivenOut
  <2>3. IdsGivenOut'
    BY <1>2, <2>2 DEF IdsGivenOut
  <2>4. /\ pc' = [pc EXCEPT ![t] = "reply"] /\ UNCHANGED <<lock, got, calls, base>>
        /\ want' = [want EXCEPT ![t] = [i \in 1..Parts(t) |-> messageId + i]]
    BY <1>1, <1>5 DEF Transmit, Goto
  <2>5. /\ pc'[t] = "reply" /\ want'[t] = [i \in 1..Parts(t) |-> messageId + i]
        /\ \A u \in Threads \ {t} : pc'[u] = pc[u]
    BY <2>4 DEF TypeInv, TypeOK, ThreadTypes
  <2>6. AwaitsOwnIds(t)'
    <3> SUFFICES ASSUME NEW i \in 1..Parts(t)
                 PROVE  /\ messageId + i \in 1..messageId'
                        /\ 0 + i <= BatchSize
                        /\ \A c \in Conns : \A p \in Carried(c)' :
                              p[1] = messageId + i => p[2] = Own(t, 0 + i)
      <4>1. got'[t] = << >> /\ Len(got'[t]) = 0 /\ Own(t, 0)' = Own(t, 0)
        BY <1>1, <2>4 DEF Own
      <4>2. \A i \in Nat : Own(t, i)' = Own(t, i)
        BY <2>4 DEF Own
      <4> QED
        BY <1>2, <2>5, <4>1, <4>2 DEF AwaitsOwnIds
    <3>1. messageId + i \in 1..messageId' /\ i <= BatchSize /\ 0 + i = i
      BY <1>2, SizeAssumption
    <3>2. ASSUME NEW c \in Conns, NEW p \in Carried(c)', p[1] = messageId + i
          PROVE  p[2] = Own(t, i)
      <4>1. ~(p[1] <= messageId)
        BY <1>2, <3>2
      <4>2. PICK j \in 1..Parts(t) : p = <<messageId + j, Own(t, j)>>
        BY <2>2, <4>1
      <4>3. j = i
        BY <1>2, <3>2, <4>2
      <4> QED
        BY <4>2, <4>3
    <3> QED
      BY <3>1, <3>2
  <2>7. CallInv(t)'
    <3>1. HoldsLock(t)' /\ NothingCollected(t)'
      BY <1>1, <2>4, <2>5 DEF HoldsLock, NothingCollected
    <3>2. HoldsOwnAnswers(t)'
      BY <1>1, <2>4 DEF HoldsOwnAnswers
    <3> QED
      BY <2>6, <3>1, <3>2 DEF CallInv
  <2>8. ASSUME NEW u \in Threads \ {t} PROVE CallInv(u)'
    <3>1. CallInv(u)
      BY DEF OwnAnswersInv
    <3>2. HoldsLock(u)' /\ AwaitsOwnIds(u)'
      BY <1>1, <2>5 DEF HoldsLock, AwaitsOwnIds, Critical
    <3>3. NothingCollected(u)' /\ HoldsOwnAnswers(u)'
      BY <2>4, <2>5, <3>1 DEF CallInv, NothingCollected, HoldsOwnAnswers, Own
    <3> QED
      BY <3>2, <3>3 DEF CallInv
  <2> QED
    BY <2>3, <2>7, <2>8 DEF OwnAnswersInv, TypeInv
<1> QED
  BY <1>4, <1>5

\* The message whose id is awaited carries the response to the next part.
LEMMA TakesOwnAnswer ==
  ASSUME TypeInv, OwnAnswersInv, NEW t \in Threads, pc[t] = "reply", CanTake(t),
         Taken(t).id = Head(want[t])
  PROVE  Taken(t).req = Own(t, Len(got[t]) + 1)
<1>1. CallInv(t) /\ want[t] \in Seq(Nat \ {0}) /\ want[t] # << >>
  BY DEF OwnAnswersInv, TypeInv, TypeOK, ThreadTypes, InCall
<1>2. Taken(t).id = want[t][1] /\ 1 \in DOMAIN want[t]
  BY <1>1
<1>3. on[t] \in Conns /\ inbox[on[t]] \in Seq(Message) /\ inbox[on[t]] # << >>
  BY TakenTypes DEF CanTake, TypeInv, TypeOK, NetTypes
<1>4. 1 \in DOMAIN inbox[on[t]] /\ Taken(t) = inbox[on[t]][1]
  BY <1>3 DEF Taken
<1>5. <<Taken(t).id, Taken(t).req>> \in Carried(on[t])
  BY <1>4 DEF Carried
<1> QED
  BY <1>1, <1>2, <1>3, <1>5 DEF CallInv, AwaitsOwnIds

LEMMA RecvMatchingKeeps ==
  ASSUME TypeInv, TypeInv', OwnAnswersInv, NEW t \in Threads, RecvMatching(t)
  PROVE  OwnAnswersInv'
<1>1. NoNewIds
  BY TakeCarries DEF RecvMatching
<1>2. messageId' = messageId /\ messageId' >= messageId
  BY DEF RecvMatching, TypeInv, TypeOK, ClientTypes
<1>3. CallInv(t) /\ pc[t] = "reply" /\ lock = t
  BY DEF RecvMatching, OwnAnswersInv, CallInv, HoldsLock, Critical
<1>4. /\ want[t] \in Seq(Nat \ {0}) /\ want[t] # << >>
      /\ got[t] \in Seq(Request) /\ Len(got[t]) \in Nat
  BY <1>3 DEF TypeInv, TypeOK, ThreadTypes, InCall
<1>5. Taken(t).req = Own(t, Len(got[t]) + 1)
  BY <1>3, TakesOwnAnswer DEF RecvMatching, Take
<1>6. CASE Finish(t, "error") /\ UNCHANGED got
  BY <1>1, <1>2, <1>3, <1>6, FinishKeeps DEF Outcomes
<1>7. CASE /\ got' = [got EXCEPT ![t] = Append(@, Taken(t).req)]
           /\ \/ Finish(t, "ok")
              \/ /\ Len(want[t]) # 1
                 /\ want' = [want EXCEPT ![t] = Tail(@)]
                 /\ UNCHANGED <<pc, op, calls, base, outcome, lock>>
  <2>1. got'[t] = Append(got[t], Taken(t).req) /\ \A u \in Threads \ {t} : got'[u] = got[u]
    BY <1>7 DEF TypeInv, TypeOK, ThreadTypes
  <2>2. calls' = calls
    BY DEF RecvMatching, Finish
  <2>3. Taken(t).req \in Request
    BY <1>3, MatchIsAnswer DEF RecvMatching, Take
  <2>4. HoldsOwnAnswers(t)'
    <3> SUFFICES ASSUME NEW i \in DOMAIN Append(got[t], Taken(t).req)
                 PROVE  Append(got[t], Taken(t).req)[i] = Own(t, i)
      BY <2>1, <2>2 DEF HoldsOwnAnswers, Own
    <3>1. CASE i \in DOMAIN got[t]
      <4>1. Append(got[t], Taken(t).req)[i] = got[t][i]
        BY <1>4, <2>3, <3>1, AppendProperties, LenProperties
      <4> QED
        BY <1>3, <3>1, <4>1 DEF CallInv, HoldsOwnAnswers
    <3>2. CASE i = Len(got[t]) + 1
      BY <1>4, <1>5, <2>3, <3>2, AppendProperties
    <3> QED
      BY <1>4, <2>3, <3>1, <3>2, AppendProperties, LenProperties
  <2>5. CASE Finish(t, "ok")
    <3>1. OnlyMoves(t)
      BY <2>1, <2>5, FinishMoves DEF Outcomes
    <3>2. pc'[t] = "idle"
      BY <2>5 DEF Finish, TypeInv, TypeOK, ThreadTypes
    <3>3. CallInv(t)'
      BY <2>4, <3>2 DEF CallInv, HoldsLock, NothingCollected, AwaitsOwnIds, Critical
    <3> QED
      BY <1>1, <1>2, <3>1, <3>3, ThreadMoves
  <2>6. CASE /\ Len(want[t]) # 1
             /\ want' = [want EXCEPT ![t] = Tail(@)]
             /\ UNCHANGED <<pc, op, calls, base, outcome, lock>>
    <3>1. want'[t] = Tail(want[t]) /\ \A u \in Threads \ {t} : want'[u] = want[u]
      BY <2>6 DEF TypeInv, TypeOK, ThreadTypes
    <3>2. OnlyMoves(t)
      BY <2>1, <2>6, <3>1 DEF OnlyMoves
    <3>3. Len(got'[t]) = Len(got[t]) + 1
      BY <1>4, <2>1, <2>3, AppendProperties
    <3>4. /\ Len(Tail(want[t])) \in Nat /\ DOMAIN Tail(want[t]) = 1..Len(Tail(want[t]))
          /\ Len(Tail(want[t])) = Len(want[t]) - 1
          /\ \A i \in 1..Len(Tail(want[t])) : Tail(want[t])[i] = want[t][i + 1]
          /\ Len(want[t]) \in Nat /\ DOMAIN want[t] = 1..Len(want[t])
      BY <1>4, <2>6, TailOfMany, LenProperties
    <3>5. AwaitsOwnIds(t)'
      <4> SUFFICES ASSUME NEW i \in 1..Len(Tail(want[t]))
                   PROVE  /\ want[t][i + 1] \in 1..messageId
                          /\ Len(got[t]) + 1 + i <= BatchSize
                          /\ \A c \in Conns : \A p \in Carried(c)' :
                                p[1] = want[t][i + 1] => p[2] = Own(t, Len(got[t]) + 1 + i)
        <5>1. \A j : Own(t, j)' = Own(t, j)
          BY <2>2 DEF Own
        <5>2. /\ AwaitsOwnIds(t)' <=> (pc'[t] = "reply" =>
                   \A i \in DOMAIN Tail(want[t]) :
                      /\ Tail(want[t])[i] \in 1..messageId
                      /\ Len(got[t]) + 1 + i <= BatchSize
                      /\ \A c \in Conns : \A p \in Carried(c)' :
                            p[1] = Tail(want[t])[i]
                               => p[2] = Own(t, Len(got[t]) + 1 + i))
          BY <1>2, <3>1, <3>3, <5>1 DEF AwaitsOwnIds
        <5> QED
          BY <3>4, <5>2
      <4> DEFINE n == Len(want[t])
                 g == Len(got[t])
      <4>1. i + 1 \in DOMAIN want[t] /\ g + 1 + i = g + (i + 1)
        <5>1. n \in Nat /\ g \in Nat /\ i \in 1..(n - 1) /\ DOMAIN want[t] = 1..n
          BY <1>4, <3>4
        <5> HIDE DEF n, g
        <5> QED
          BY <5>1
      <4>2. /\ want[t][i + 1] \in 1..messageId
            /\ Len(got[t]) + (i + 1) <= BatchSize
            /\ \A c \in Conns : \A p \in Carried(c) :
                  p[1] = want[t][i + 1] => p[2] = Own(t, Len(got[t]) + (i + 1))
        BY <1>3, <4>1 DEF CallInv, AwaitsOwnIds
      <4>3. want[t][i + 1] # 0
        BY <4>2 DEF TypeInv, TypeOK, ClientTypes
      <4> QED
        BY <1>1, <4>1, <4>2, <4>3 DEF NoNewIds
    <3>6. HoldsLock(t)' /\ NothingCollected(t)'
      BY <1>3, <2>6 DEF HoldsLock, NothingCollected
    <3>7. CallInv(t)'
      BY <2>4, <3>5, <3>6 DEF CallInv
    <3> QED
      BY <1>1, <1>2, <3>2, <3>7, ThreadMoves
  <2> QED
    BY <1>7, <2>5, <2>6
<1> QED
  BY <1>6, <1>7 DEF RecvMatching

\* What arrives from the service carries no id, or that of a request it had.
LEMMA ServiceKeeps ==
  ASSUME TypeInv, TypeInv', OwnAnswersInv, NEW c \in Conns, Service(c)
  PROVE  OwnAnswersInv'
<1>1. UNCHANGED <<pc, base, want, got, calls, lock, messageId>>
  BY DEF Service, ServiceGreets, ServiceAuthenticates, ServiceAnswers, ServiceEvent,
         ServiceCloses, LinkBreaks, clientVars, threadVars
<1>2. NoNewIds
  <2>1. CASE \E m \in Notice : Arrive(c, m) /\ UNCHANGED pending
    BY <2>1, ArrivalCarries DEF Notice, Message
  <2>2. CASE ServiceGreets(c)
    <3>1. PICK kind \in {"ready", "other"} : Arrive(c, Unsolicited(kind))
      BY <2>2 DEF ServiceGreets
    <3> QED
      BY <2>1, <2>2, <3>1 DEF ServiceGreets, Unsolicited, Notice
  <2>3. CASE ServiceAuthenticates(c)
    <3>1. PICK ok \in BOOLEAN : Arrive(c, AuthReply(ok))
      BY <2>3 DEF ServiceAuthenticates
    <3> QED
      BY <2>1, <2>3, <3>1 DEF ServiceAuthenticates, AuthReply, Notice
  <2>4. CASE ServiceEvent(c)
    BY <2>1, <2>4 DEF ServiceEvent, Unsolicited, Notice
  <2>5. CASE ServiceCloses(c)
    BY <2>5, StillCarries DEF ServiceCloses
  <2>6. CASE LinkBreaks(c)
    <3>1. \A d \in Conns : inbox'[d] = inbox[d] \/ inbox'[d] = << >>
      BY <2>6 DEF LinkBreaks, TypeInv, TypeOK, NetTypes
    <3> QED
      BY <2>6, <3>1, ReadingCarries DEF LinkBreaks
  <2>7. CASE ServiceAnswers(c)
    <3>1. PICK e \in pending[c], ok \in BOOLEAN :
             /\ pending' = [pending EXCEPT ![c] = @ \ Answered(c, e)]
             /\ IF link[c] = "open" THEN Arrive(c, Reply(e, ok)) ELSE UNCHANGED inbox
      BY <2>7 DEF ServiceAnswers
    <3>2. e \in Entry /\ \A d \in Conns : pending'[d] \subseteq pending[d]
      BY <3>1 DEF TypeInv, TypeOK, NetTypes
    <3>3. Reply(e, ok) \in Message
      BY <3>2 DEF Entry, Reply, Message, Answer
    <3>4. <<Reply(e, ok).id, Reply(e, ok).req>> \in Carried(c)
      BY DEF Reply, Carried
    <3> QED
      BY <3>1, <3>2, <3>3, <3>4, ArrivalCarries
  <2> QED
    BY <2>2, <2>3, <2>4, <2>5, <2>6, <2>7 DEF Service
<1> QED
  BY <1>1, <1>2, StillKeeps

LEMMA ThreadStepKeeps ==
  ASSUME TypeInv, TypeInv', OwnAnswersInv, NEW t \in Threads, ThreadStep(t)
  PROVE  OwnAnswersInv'
  BY EnsureConnectedKeeps, CloseKeeps, ConnectKeeps, OpenKeeps, OpenFailsKeeps,
     HandshakeKeeps, BeginRecvKeeps, RecvTimeoutKeeps, TimeoutInsideFrameKeeps,
     RecvFailsKeeps, RecvReadyKeeps, AuthenticateKeeps, RecvAuthKeeps, AcquireKeeps,
     TransmitKeeps, TransmitRawKeeps, RecvMatchingKeeps, SkipMessageKeeps,
     RecvRawKeeps, ListenMessageKeeps
  DEF ThreadStep, ConnectStep, ReceiveStep

LEMMA AnswersInit == Init => OwnAnswersInv
<1> SUFFICES ASSUME Init PROVE OwnAnswersInv
  OBVIOUS
<1>1. TypeOK /\ InCall
  BY TypeInit DEF TypeInv
<1>2. \A c \in Conns : Carried(c) = {}
  BY DEF Init, Carried
<1>3. \A t \in Threads : CallInv(t)
  <2>1. ASSUME NEW t \in Threads PROVE pc[t] = "idle" /\ got[t] = << >>
    BY DEF Init
  <2>2. ASSUME NEW t \in Threads PROVE HoldsOwnAnswers(t)
    BY <2>1 DEF HoldsOwnAnswers
  <2> QED
    BY <2>1, <2>2 DEF CallInv, HoldsLock, NothingCollected, AwaitsOwnIds, Critical
<1> QED
  BY <1>1, <1>2, <1>3 DEF OwnAnswersInv, IdsGivenOut

\* Ids are never reused and an awaited id stands for one request of its awaiter,
\* whichever connection carries it: the lock covers the whole exchange.
THEOREM OwnIds == Spec => []OwnAnswersInv
<1>1. Init => OwnAnswersInv
  BY AnswersInit
<1>2. OwnAnswersInv /\ [Next]_vars => OwnAnswersInv'
  <2> SUFFICES ASSUME OwnAnswersInv, [Next]_vars PROVE OwnAnswersInv'
    OBVIOUS
  <2>1. TypeInv /\ TypeInv'
    BY TypeStep DEF OwnAnswersInv, TypeInv
  <2>2. ASSUME NEW t \in Threads, NEW o \in Ops, Call(t, o) PROVE OwnAnswersInv'
    BY <2>1, <2>2, CallKeeps
  <2>3. ASSUME NEW t \in Threads, ThreadStep(t) PROVE OwnAnswersInv'
    BY <2>1, <2>3, ThreadStepKeeps
  <2>4. ASSUME NEW c \in Conns, Service(c) PROVE OwnAnswersInv'
    BY <2>1, <2>4, ServiceKeeps
  <2>5. CASE UNCHANGED vars
    <3>1. NoNewIds
      BY <2>1, <2>5, StillCarries DEF vars, netVars
    <3> QED
      BY <2>1, <2>5, <3>1, StillKeeps DEF vars, threadVars, clientVars
  <2> QED
    BY <2>2, <2>3, <2>4, <2>5 DEF Next, AllCallsMade
<1> QED
  BY <1>1, <1>2, PTL DEF Spec

\* send and send_batch return the responses to the caller's own messages, in the
\* order of the messages: no late response and no other thread's is taken for one.
THEOREM OwnAnswersCorrect == Spec => []OwnAnswers
<1>1. OwnAnswersInv => OwnAnswers
  BY DEF OwnAnswersInv, CallInv, OwnAnswers
<1> QED
  BY <1>1, OwnIds, PTL

----------------------------------------------------------------------------
(* The client implements RemoteCall.  Its steps are the abstract call's      *)
(* steps or stutters under an invariant of its own: which methods reach      *)
(* which labels, how many responses a call still waits for, and that what    *)
(* the service answers it has executed.                                      *)

\* Which methods have the steps between a request and its response.
Fits(label, o) ==
    /\ label \in {"acquire", "transmit", "reply"} => o \in {"send", "batch"}
    /\ label \in {"transmitRaw", "raw"} => o = "raw"
    /\ label = "listen" => o = "listen"

\* A call waits for as many responses as it has parts left.
PartsLeft(t) == pc[t] = "reply" => Len(got[t]) + Len(want[t]) = Parts(t)

ControlInv == \A t \in Threads : Fits(pc[t], op[t]) /\ PartsLeft(t)

\* The service has executed what it answers.
RepliesExecuted ==
    \A c \in Conns : \A k \in DOMAIN inbox[c] :
        inbox[c][k].kind = "reply" /\ inbox[c][k].ok => execs[inbox[c][k].req] = 1

----------------------------------------------------------------------------
(* The pieces of the actions, as steps of the abstract call.                *)

AbsParts == [t \in Threads |-> IF op[t] \in {"send", "batch"} THEN Parts(t) ELSE 0]
AbsResult == [t \in Threads |-> IF pc[t] # "idle" THEN "busy"
                                ELSE IF outcome[t] = "ok" THEN "done" ELSE "failed"]

\* The abstract call does not see a thread that is busy and stays busy.
LEMMA BusyStutters ==
  ASSUME TypeInv, UNCHANGED <<op, calls, got, execs>>,
         \A t \in Threads : \/ pc'[t] = pc[t] /\ outcome'[t] = outcome[t]
                            \/ pc[t] # "idle" /\ pc'[t] # "idle"
  PROVE  UNCHANGED RC!vars
<1>1. AbsParts' = AbsParts
  BY DEF AbsParts, Parts
<1>2. AbsResult' = AbsResult
  BY DEF AbsResult
<1> QED
  BY <1>1, <1>2 DEF RC!vars, AbsParts, AbsResult

LEMMA StillRefines ==
  ASSUME TypeInv, ControlInv, UNCHANGED <<pc, op, calls, want, got, execs, outcome>>
  PROVE  ControlInv' /\ UNCHANGED RC!vars
<1>1. UNCHANGED RC!vars
  BY BusyStutters
<1> QED
  BY <1>1 DEF ControlInv, PartsLeft, Parts

LEMMA MoveRefines ==
  ASSUME TypeInv, ControlInv, NEW t \in Threads, pc[t] # "idle",
         NEW label, Goto(t, label), label \notin {"idle", "reply"}, Fits(label, op[t]),
         \A u \in Threads \ {t} : outcome'[u] = outcome[u],
         UNCHANGED <<op, calls, want, got, execs>>
  PROVE  ControlInv' /\ UNCHANGED RC!vars
<1>1. /\ pc'[t] = label
      /\ \A u \in Threads \ {t} : pc'[u] = pc[u]
  BY DEF Goto, TypeInv, TypeOK, ThreadTypes
<1>2. UNCHANGED RC!vars
  BY <1>1, BusyStutters
<1>3. ControlInv'
  BY <1>1 DEF ControlInv, PartsLeft, Parts
<1> QED
  BY <1>2, <1>3

\* A call that ends without an answer.
LEMMA EndRefines ==
  ASSUME TypeInv, ControlInv, NEW t \in Threads, pc[t] # "idle", pc'[t] = "idle",
         \A u \in Threads \ {t} : pc'[u] = pc[u] /\ outcome'[u] = outcome[u]
                                  /\ want'[u] = want[u],
         outcome'[t] = "ok" => op[t] \notin {"send", "batch"},
         UNCHANGED <<op, calls, got, execs>>
  PROVE  ControlInv' /\ RC!Next
<1>1. ControlInv'
  BY DEF ControlInv, PartsLeft, Parts, Fits
<1>2. AbsResult[t] = "busy" /\ AbsParts' = AbsParts
  BY DEF AbsResult, AbsParts, Parts
<1>3. PICK how \in {"done", "failed"} :
         /\ how = "done" => AbsParts[t] = 0
         /\ AbsResult' = [AbsResult EXCEPT ![t] = how]
  <2>1. CASE outcome'[t] = "ok"
    <3>1. AbsParts[t] = 0 /\ AbsResult' = [AbsResult EXCEPT ![t] = "done"]
      BY <2>1 DEF AbsParts, AbsResult
    <3> QED
      BY <3>1
  <2>2. CASE outcome'[t] # "ok"
    <3>1. AbsResult' = [AbsResult EXCEPT ![t] = "failed"]
      BY <2>2 DEF AbsResult
    <3> QED
      BY <3>1
  <2> QED
    BY <2>1, <2>2
<1>4. RC!End(t)
  BY <1>2, <1>3 DEF RC!End, AbsParts, AbsResult
<1> QED
  BY <1>1, <1>4 DEF RC!Next

LEMMA FinishRefines ==
  ASSUME TypeInv, ControlInv, NEW t \in Threads, pc[t] # "idle",
         NEW result, Finish(t, result), result = "ok" => op[t] \notin {"send", "batch"},
         UNCHANGED <<got, execs>>
  PROVE  ControlInv' /\ RC!Next
<1>1. /\ pc'[t] = "idle" /\ outcome'[t] = result /\ UNCHANGED <<op, calls>>
      /\ \A u \in Threads \ {t} : pc'[u] = pc[u] /\ outcome'[u] = outcome[u]
                                  /\ want'[u] = want[u]
  BY DEF Finish, TypeInv, TypeOK, ThreadTypes
<1> QED
  BY <1>1, EndRefines

LEMMA ConnectReturnsRefines ==
  ASSUME TypeInv, ControlInv, NEW t \in Threads, pc[t] # "idle", ConnectReturns(t),
         UNCHANGED execs
  PROVE  ControlInv' /\ [RC!Next]_(RC!vars)
<1>1. /\ Goto(t, AfterConnect(t)) /\ pc'[t] = AfterConnect(t)
      /\ UNCHANGED <<op, calls, want, got>>
      /\ \A u \in Threads \ {t} : pc'[u] = pc[u] /\ outcome'[u] = outcome[u]
  BY DEF ConnectReturns, Goto, TypeInv, TypeOK, ThreadTypes
<1>2. CASE AfterConnect(t) = "idle"
  <2>1. op[t] \notin {"send", "batch"}
    BY <1>2 DEF AfterConnect
  <2> QED
    BY <1>1, <1>2, <2>1, EndRefines
<1>3. CASE AfterConnect(t) # "idle"
  <2>1. Fits(AfterConnect(t), op[t]) /\ AfterConnect(t) # "reply"
    BY DEF AfterConnect, Fits
  <2> QED
    BY <1>1, <1>3, <2>1, MoveRefines
<1> QED
  BY <1>2, <1>3

LEMMA WriteFailsRefines ==
  ASSUME TypeInv, ControlInv, NEW t \in Threads, pc[t] # "idle", WriteFails(t)
  PROVE  ControlInv' /\ RC!Next
<1>1. PICK result \in {"lost", "crash"} : Finish(t, result)
  BY DEF WriteFails, Unconnected
<1> QED
  BY <1>1, FinishRefines DEF WriteFails, netVars

----------------------------------------------------------------------------
(* The actions that neither send a request nor take an answer.              *)

LEMMA ConnectingRefines ==
  ASSUME TypeInv, ControlInv, NEW t \in Threads,
         EnsureConnected(t) \/ Close(t) \/ ConnectStep(t)
  PROVE  ControlInv' /\ [RC!Next]_(RC!vars)
<1>1. UNCHANGED execs /\ pc[t] # "idle"
  BY ConnectingQuiet DEF EnsureConnected, Close, ConnectStep, Connect, Open, OpenFails,
     Handshake, RecvReady, Authenticate, RecvAuth
<1>2. ASSUME NEW result \in {"lost", "denied", "crash"}, Finish(t, result), UNCHANGED got
      PROVE  ControlInv' /\ [RC!Next]_(RC!vars)
  BY <1>1, <1>2, FinishRefines
<1>3. ASSUME ConnectReturns(t) PROVE ControlInv' /\ [RC!Next]_(RC!vars)
  BY <1>1, <1>3, ConnectReturnsRefines
<1>4. ASSUME NEW label \in {"close", "connect", "open", "handshake", "ready",
                            "authenticate", "auth"},
             Goto(t, label), UNCHANGED <<op, calls, want, got, outcome>>
      PROVE  ControlInv' /\ [RC!Next]_(RC!vars)
  <2>1. Fits(label, op[t])
    BY DEF Fits
  <2> QED
    BY <1>1, <1>4, <2>1, MoveRefines
<1>5. CASE EnsureConnected(t)
  BY <1>2, <1>3, <1>4, <1>5 DEF EnsureConnected
<1>6. CASE Close(t)
  <2>1. CASE op[t] = "close" /\ Finish(t, "ok")
    BY <1>1, <1>6, <2>1, FinishRefines DEF Close
  <2> QED
    BY <1>4, <1>6, <2>1 DEF Close
<1>7. CASE Connect(t)
  BY <1>3, <1>4, <1>7 DEF Connect
<1>8. CASE Open(t)
  BY <1>4, <1>8 DEF Open
<1>9. CASE OpenFails(t) \/ Handshake(t)
  BY <1>2, <1>4, <1>9 DEF OpenFails, Handshake
<1>10. CASE RecvReady(t)
  BY <1>2, <1>3, <1>4, <1>10 DEF RecvReady
<1>11. CASE Authenticate(t)
  BY <1>1, <1>4, <1>11, WriteFailsRefines DEF Authenticate
<1>12. CASE RecvAuth(t)
  BY <1>2, <1>3, <1>12 DEF RecvAuth
<1> QED
  BY <1>5, <1>6, <1>7, <1>8, <1>9, <1>10, <1>11, <1>12 DEF ConnectStep

LEMMA ReadingRefines ==
  ASSUME TypeInv, ControlInv, NEW t \in Threads, ReceiveStep(t), ~RecvMatching(t)
  PROVE  ControlInv' /\ [RC!Next]_(RC!vars)
<1>1. UNCHANGED execs
  BY ReceivingQuiet
<1>2. ASSUME NEW result \in {"timeout", "lost", "crash"}, Finish(t, result), UNCHANGED got,
             pc[t] # "idle"
      PROVE  ControlInv' /\ [RC!Next]_(RC!vars)
  BY <1>1, <1>2, FinishRefines
<1>3. ASSUME Finish(t, "ok"), UNCHANGED got, pc[t] \in {"raw", "listen"}
      PROVE  ControlInv' /\ [RC!Next]_(RC!vars)
  <2>1. op[t] \notin {"send", "batch"}
    BY <1>3 DEF ControlInv, Fits
  <2> QED
    BY <1>1, <1>3, <2>1, FinishRefines
<1>4. ASSUME UNCHANGED <<pc, op, calls, want, got, outcome>>
      PROVE  ControlInv' /\ [RC!Next]_(RC!vars)
  BY <1>1, <1>4, StillRefines
<1>5. CASE BeginRecv(t)
  BY <1>2, <1>3, <1>4, <1>5 DEF BeginRecv, Unconnected, Receiving
<1>6. CASE RecvTimeout(t)
  BY <1>2, <1>3, <1>6 DEF RecvTimeout, Receiving
<1>7. CASE TimeoutInsideFrame(t)
  BY <1>2, <1>3, <1>7 DEF TimeoutInsideFrame, Receiving
<1>8. CASE RecvFails(t)
  BY <1>2, <1>3, <1>8 DEF RecvFails, Receiving
<1>9. CASE SkipMessage(t)
  BY <1>2, <1>4, <1>9 DEF SkipMessage
<1>10. CASE RecvRaw(t)
  BY <1>3, <1>10 DEF RecvRaw
<1>11. CASE ListenMessage(t)
  BY <1>3, <1>4, <1>11 DEF ListenMessage
<1> QED
  BY <1>5, <1>6, <1>7, <1>8, <1>9, <1>10, <1>11 DEF ReceiveStep

LEMMA AcquireRefines ==
  ASSUME TypeInv, ControlInv, NEW t \in Threads, Acquire(t)
  PROVE  ControlInv' /\ UNCHANGED RC!vars
<1>1. op[t] \in {"send", "batch"}
  BY DEF Acquire, ControlInv, Fits
<1>2. Fits("transmit", op[t])
  BY <1>1 DEF Fits
<1> QED
  BY <1>2, MoveRefines DEF Acquire, netVars

LEMMA TransmitRawRefines ==
  ASSUME TypeInv, ControlInv, NEW t \in Threads, TransmitRaw(t)
  PROVE  ControlInv' /\ [RC!Next]_(RC!vars)
<1>1. op[t] = "raw" /\ Fits("raw", op[t])
  BY DEF TransmitRaw, ControlInv, Fits
<1> QED
  BY <1>1, MoveRefines, WriteFailsRefines DEF TransmitRaw

LEMMA TransmitRefines ==
  ASSUME TypeInv, ControlInv, NEW t \in Threads, Transmit(t), got[t] = << >>
  PROVE  ControlInv' /\ [RC!Next]_(RC!vars)
<1>1. CASE WriteFails(t)
  BY <1>1, WriteFailsRefines DEF Transmit
<1>2. CASE ~WriteFails(t)
  <2>1. /\ pc[t] = "transmit" /\ Goto(t, "reply")
        /\ want' = [want EXCEPT ![t] = [i \in 1..Parts(t) |-> base[t] + i]]
        /\ UNCHANGED <<op, calls, got, execs, outcome>>
    BY <1>2 DEF Transmit
  <2>2. /\ pc'[t] = "reply" /\ want'[t] = [i \in 1..Parts(t) |-> base[t] + i]
        /\ \A u \in Threads \ {t} : pc'[u] = pc[u] /\ want'[u] = want[u]
    BY <2>1 DEF Goto, TypeInv, TypeOK, ThreadTypes
  <2>3. Parts(t) \in Nat /\ Len(want'[t]) = Parts(t) /\ Len(got[t]) = 0
    BY <2>2, SizeAssumption DEF Parts
  <2>4. Fits("reply", op[t])
    BY <2>1 DEF ControlInv, Fits
  <2>5. ControlInv'
    <3>1. Fits(pc'[t], op'[t]) /\ PartsLeft(t)'
      BY <2>1, <2>2, <2>3, <2>4 DEF PartsLeft, Parts
    <3>2. ASSUME NEW u \in Threads \ {t} PROVE Fits(pc'[u], op'[u]) /\ PartsLeft(u)'
      BY <2>1, <2>2 DEF ControlInv, PartsLeft, Parts
    <3> QED
      BY <3>1, <3>2 DEF ControlInv, Fits, PartsLeft, Parts
  <2>6. UNCHANGED RC!vars
    BY <2>1, <2>2, BusyStutters
  <2> QED
    BY <2>5, <2>6
<1> QED
  BY <1>1, <1>2

LEMMA CallRefines ==
  ASSUME TypeInv, ControlInv, NEW t \in Threads, NEW o \in Ops, Call(t, o)
  PROVE  ControlInv' /\ RC!Next
<1>1. /\ pc[t] = "idle" /\ pc'[t] \in {"connect", "close", "ensure"} /\ op'[t] = o
      /\ \A u \in Threads \ {t} : /\ pc'[u] = pc[u] /\ op'[u] = op[u]
                                  /\ outcome'[u] = outcome[u]
      /\ calls' = [calls EXCEPT ![t] = @ + 1]
      /\ got' = [got EXCEPT ![t] = << >>]
      /\ UNCHANGED <<want, execs>>
  BY DEF Call, Goto, TypeInv, TypeOK, ThreadTypes, netVars
<1>2. ControlInv'
  <2> SUFFICES ASSUME NEW u \in Threads PROVE Fits(pc'[u], op'[u]) /\ PartsLeft(u)'
    BY DEF ControlInv, Fits, PartsLeft, Parts
  <2>1. Fits(pc'[u], op'[u]) /\ PartsLeft(u)'
    <3>1. CASE u = t
      BY <1>1, <3>1 DEF Fits, PartsLeft
    <3>2. CASE u # t
      <4>1. pc'[u] = pc[u] /\ op'[u] = op[u] /\ want'[u] = want[u] /\ got'[u] = got[u]
        BY <1>1, <3>2 DEF TypeInv, TypeOK, ThreadTypes
      <4> QED
        BY <4>1 DEF ControlInv, PartsLeft, Parts, Fits
    <3> QED
      BY <3>1, <3>2
  <2> QED
    BY <2>1
<1>3. PICK n \in 0..BatchSize :
         n = IF op'[t] \in {"send", "batch"} THEN Parts(t)' ELSE 0
  BY SizeAssumption DEF Parts
<1>4. AbsParts' = [AbsParts EXCEPT ![t] = n]
  BY <1>1, <1>3 DEF AbsParts, Parts
<1>5. AbsResult[t] # "busy" /\ AbsResult' = [AbsResult EXCEPT ![t] = "busy"]
  BY <1>1 DEF AbsResult
<1>6. RC!Begin(t, n)
  BY <1>1, <1>4, <1>5 DEF RC!Begin, AbsParts, AbsResult
<1> QED
  BY <1>2, <1>6 DEF RC!Next

----------------------------------------------------------------------------
(* The service executes what it was given, and answers what it executed.    *)

LEMMA ServiceRefines ==
  ASSUME TypeInv, ControlInv, SentOnce, NEW c \in Conns, Service(c)
  PROVE  ControlInv' /\ [RC!Next]_(RC!vars)
<1>1. UNCHANGED <<pc, op, calls, want, got, outcome>>
  BY DEF Service, ServiceGreets, ServiceAuthenticates, ServiceAnswers, ServiceEvent,
         ServiceCloses, LinkBreaks, threadVars
<1>2. ControlInv'
  BY <1>1 DEF ControlInv, PartsLeft, Parts
<1>3. CASE UNCHANGED execs
  BY <1>1, <1>3, StillRefines
<1>4. CASE execs' # execs
  <2>1. PICK e \in pending[c] :
           execs' = [r \in Request |-> IF \E f \in Answered(c, e) : f.req = r
                                       THEN execs[r] + 1 ELSE execs[r]]
    BY <1>4 DEF Service, ServiceGreets, ServiceAuthenticates, ServiceAnswers, ServiceEvent,
           ServiceCloses, LinkBreaks
  <2>2. PICK S \in SUBSET Request : S = {f.req : f \in Answered(c, e)}
    <3>1. \A f \in Answered(c, e) : f.req \in Request
      BY DEF Answered, TypeInv, TypeOK, NetTypes, Entry
    <3>2. {f.req : f \in Answered(c, e)} \in SUBSET Request
      BY <3>1
    <3> QED
      BY <3>2
  <2>3. \A r \in S : \E f \in pending[c] : f.req = r
    BY <2>2 DEF Answered
  <2>4. ASSUME NEW r \in S PROVE r.call <= calls[r.by] /\ execs[r] = 0
    <3>1. ~NotSent(r) /\ execs[r] = 0
      BY <2>3 DEF SentOnce, UnsentUnknown, PendingNotExecuted
    <3>2. r.call \in Nat /\ calls[r.by] \in Nat
      BY BoundAssumption DEF Request, TypeInv, TypeOK, ThreadTypes
    <3> QED
      BY <3>1, <3>2 DEF NotSent
  <2>5. execs' = [r \in Request |-> IF r \in S THEN 1 ELSE execs[r]]
    <3>1. ASSUME NEW r \in Request PROVE execs'[r] = IF r \in S THEN 1 ELSE execs[r]
      <4>1. r \in S <=> \E f \in Answered(c, e) : f.req = r
        BY <2>2
      <4>2. execs'[r] = IF r \in S THEN execs[r] + 1 ELSE execs[r]
        BY <2>1, <4>1
      <4> QED
        BY <2>4, <4>2
    <3>2. execs' = [r \in Request |-> execs'[r]]
      BY <2>1
    <3> QED
      BY <3>1, <3>2
  <2>6. RC!Execute(S)
    BY <1>1, <2>4, <2>5 DEF RC!Execute, Parts
  <2> QED
    BY <1>2, <2>6 DEF RC!Next
<1> QED
  BY <1>3, <1>4

\* The message taken is the answer to a request the service has executed.
LEMMA RecvMatchingRefines ==
  ASSUME TypeInv, ControlInv, OwnAnswersInv, RepliesExecuted,
         NEW t \in Threads, RecvMatching(t)
  PROVE  ControlInv' /\ RC!Next
<1>1. /\ pc[t] = "reply" /\ CanTake(t) /\ Taken(t).id = Head(want[t]) /\ UNCHANGED execs
      /\ op[t] \in {"send", "batch"} /\ Len(got[t]) + Len(want[t]) = Parts(t)
  BY DEF RecvMatching, Take, ControlInv, PartsLeft, Fits
<1>2. CASE Finish(t, "error") /\ UNCHANGED got
  BY <1>1, <1>2, FinishRefines
<1>3. CASE /\ Taken(t).ok
           /\ got' = [got EXCEPT ![t] = Append(@, Taken(t).req)]
           /\ IF Len(want[t]) = 1 THEN Finish(t, "ok")
              ELSE /\ want' = [want EXCEPT ![t] = Tail(@)]
                   /\ UNCHANGED <<pc, op, calls, outcome>>
  <2>1. PICK r \in Request : r = Taken(t).req /\ r = Own(t, Len(got[t]) + 1)
    BY <1>1, TakesOwnAnswer, MatchIsAnswer
  <2>2. r.by = t /\ r.call = calls[t] /\ r.part = Len(got[t]) + 1
    BY <2>1 DEF Own
  <2>3. execs[r] = 1
    <3>1. on[t] \in Conns /\ inbox[on[t]] \in Seq(Message) /\ inbox[on[t]] # << >>
      BY <1>1, TakenTypes DEF CanTake, TypeInv, TypeOK, NetTypes
    <3>2. 1 \in DOMAIN inbox[on[t]] /\ Taken(t) = inbox[on[t]][1]
      BY <3>1 DEF Taken
    <3>3. want[t] \in Seq(Nat \ {0}) /\ want[t] # << >>
      BY <1>1 DEF TypeInv, TypeOK, ThreadTypes, InCall
    <3>4. Taken(t).id # 0
      BY <1>1, <3>3
    <3>5. Taken(t).kind = "reply"
      BY <1>1, <3>4, TakenTypes DEF Message, Notice, Answer
    <3> QED
      BY <1>3, <2>1, <3>1, <3>2, <3>5 DEF RepliesExecuted
  <2>4. /\ Len(got[t]) \in Nat /\ Len(want[t]) \in Nat /\ Len(want[t]) # 0
        /\ Len(got'[t]) = Len(got[t]) + 1
        /\ \A u \in Threads \ {t} : got'[u] = got[u]
    <3>1. /\ want[t] \in Seq(Nat \ {0}) /\ want[t] # << >>
          /\ got[t] \in Seq(Request) /\ got \in [Threads -> Seq(Request)]
      BY <1>1 DEF TypeInv, TypeOK, ThreadTypes, InCall
    <3>2. got'[t] = Append(got[t], r) /\ \A u \in Threads \ {t} : got'[u] = got[u]
      BY <1>3, <2>1, <3>1
    <3> QED
      BY <3>1, <3>2, AppendProperties, EmptySeq, LenProperties
  <2>5. AbsParts[t] = Parts(t) /\ Parts(t) \in Nat /\ AbsResult[t] = "busy"
    BY <1>1, SizeAssumption DEF AbsParts, AbsResult, Parts
  <2>6. r.part <= AbsParts[t] /\ (r.part = AbsParts[t] <=> Len(want[t]) = 1)
    <3>1. \A g, w, p \in Nat : g + w = p /\ w # 0 => g + 1 <= p /\ (g + 1 = p <=> w = 1)
      OBVIOUS
    <3>2. /\ Len(got[t]) + 1 <= Parts(t)
          /\ Len(got[t]) + 1 = Parts(t) <=> Len(want[t]) = 1
      BY <1>1, <2>4, <2>5, <3>1
    <3> QED
      BY <2>2, <2>5, <3>2
  <2>7. /\ UNCHANGED <<op, calls>> /\ AbsParts' = AbsParts
        /\ \A u \in Threads \ {t} : pc'[u] = pc[u] /\ outcome'[u] = outcome[u]
                                    /\ want'[u] = want[u]
    <3>1. UNCHANGED <<op, calls>>
      BY <1>3 DEF Finish
    <3>2. AbsParts' = AbsParts
      BY <3>1 DEF AbsParts, Parts
    <3> QED
      BY <1>3, <3>1, <3>2 DEF Finish, TypeInv, TypeOK, ThreadTypes
  <2>8. CASE Len(want[t]) = 1
    <3>1. pc'[t] = "idle" /\ outcome'[t] = "ok"
      BY <1>3, <2>8 DEF Finish, TypeInv, TypeOK, ThreadTypes
    <3>2. AbsResult' = [AbsResult EXCEPT ![t] = "done"]
      BY <2>7, <3>1 DEF AbsResult
    <3>3. RC!Answer(t, r)
      BY <1>1, <1>3, <2>1, <2>2, <2>3, <2>5, <2>6, <2>7, <2>8, <3>2
      DEF RC!Answer, AbsParts, AbsResult
    <3>4. ControlInv'
      BY <2>4, <2>7, <3>1 DEF ControlInv, PartsLeft, Parts, Fits
    <3> QED
      BY <3>3, <3>4 DEF RC!Next
  <2>9. CASE Len(want[t]) # 1
    <3>1. UNCHANGED <<pc, outcome>> /\ want'[t] = Tail(want[t])
      BY <1>3, <2>9 DEF TypeInv, TypeOK, ThreadTypes
    <3>2. AbsResult' = AbsResult /\ AbsResult = [AbsResult EXCEPT ![t] = @]
      BY <3>1 DEF AbsResult
    <3>3. RC!Answer(t, r)
      BY <1>1, <1>3, <2>1, <2>2, <2>3, <2>5, <2>6, <2>7, <2>9, <3>2
      DEF RC!Answer, AbsParts, AbsResult
    <3>4. Len(want'[t]) = Len(want[t]) - 1
      <4>1. want[t] \in Seq(Nat \ {0}) /\ want[t] # << >>
        BY <1>1 DEF TypeInv, TypeOK, ThreadTypes, InCall
      <4> QED
        BY <2>9, <3>1, <4>1, TailOfMany
    <3>5. PartsLeft(t)'
      <4>1. Len(got[t]) + 1 + (Len(want[t]) - 1) = Parts(t) /\ Parts(t)' = Parts(t)
        <5>1. Parts(t)' = Parts(t)
          BY <2>7 DEF Parts
        <5> DEFINE g == Len(got[t])
                   w == Len(want[t])
                   p == Parts(t)
        <5>2. g \in Nat /\ w \in Nat /\ p \in Nat /\ g + w = p
          BY <1>1, <2>4, <2>5
        <5> HIDE DEF g, w, p
        <5>3. g + 1 + (w - 1) = p
          BY <5>2
        <5> QED
          BY <5>1, <5>3 DEF g, w, p
      <4> QED
        BY <2>4, <3>4, <4>1 DEF PartsLeft
    <3>6. ControlInv'
      BY <2>4, <2>7, <3>1, <3>5 DEF ControlInv, PartsLeft, Parts
    <3> QED
      BY <3>3, <3>6 DEF RC!Next
  <2> QED
    BY <2>8, <2>9
<1> QED
  BY <1>2, <1>3 DEF RecvMatching

----------------------------------------------------------------------------
(* Who answers has executed.                                                *)

\* The client adds nothing to what is on its way to it.
OnlyReads ==
    \A c \in Conns : \/ inbox'[c] = inbox[c] \/ inbox'[c] = << >>
                     \/ inbox[c] # << >> /\ inbox'[c] = Tail(inbox[c])

LEMMA ReadKeepsReplies ==
  ASSUME TypeInv, RepliesExecuted, UNCHANGED execs, OnlyReads
  PROVE  RepliesExecuted'
<1> SUFFICES ASSUME NEW c \in Conns, NEW k \in DOMAIN inbox'[c],
                    inbox'[c][k].kind = "reply", inbox'[c][k].ok
             PROVE  execs[inbox'[c][k].req] = 1
  BY DEF RepliesExecuted
<1>1. inbox[c] \in Seq(Message)
  BY DEF TypeInv, TypeOK, NetTypes
<1>2. CASE inbox'[c] = inbox[c]
  BY <1>2 DEF RepliesExecuted
<1>3. CASE inbox'[c] = << >>
  BY <1>3
<1>4. CASE inbox[c] # << >> /\ inbox'[c] = Tail(inbox[c])
  <2>1. k + 1 \in DOMAIN inbox[c] /\ inbox'[c][k] = inbox[c][k + 1]
    BY <1>1, <1>4
  <2> QED
    BY <2>1 DEF RepliesExecuted
<1> QED
  BY <1>2, <1>3, <1>4 DEF OnlyReads

LEMMA CloseReads ==
  ASSUME TypeInv, NEW unread \in [Conns -> Seq(Message)], CloseHandle(unread),
         \A c \in Conns : \/ unread[c] = inbox[c]
                          \/ inbox[c] # << >> /\ unread[c] = Tail(inbox[c])
  PROVE  OnlyReads
<1>1. sock \in 0..MaxConns
  BY DEF TypeInv, TypeOK, ClientTypes
<1>2. \A c \in Conns : inbox'[c] = unread[c] \/ inbox'[c] = << >>
  BY <1>1 DEF CloseHandle, Conns
<1> QED
  BY <1>2 DEF OnlyReads

LEMMA WrittenReads == ASSUME TypeInv, Written PROVE OnlyReads
  BY DEF Written, OnlyReads, TypeInv, TypeOK, NetTypes

LEMMA TakeReads == ASSUME TypeInv, NEW t \in Threads, Take(t) PROVE OnlyReads
  BY UnreadIs DEF Take, OnlyReads

LEMMA ThreadReads ==
  ASSUME TypeInv, NEW t \in Threads, ThreadStep(t)
  PROVE  OnlyReads /\ UNCHANGED execs
<1>1. ASSUME UNCHANGED inbox PROVE OnlyReads
  BY <1>1 DEF OnlyReads
<1>2. inbox \in [Conns -> Seq(Message)]
  BY DEF TypeInv, TypeOK, NetTypes
<1>3. CASE EnsureConnected(t)
  BY <1>1, <1>3, ConnectingQuiet DEF EnsureConnected, netVars
<1>4. CASE Close(t)
  BY <1>2, <1>4, ConnectingQuiet, CloseReads DEF Close
<1>5. CASE ConnectStep(t)
  <2>1. UNCHANGED execs
    BY <1>5, ConnectingQuiet
  <2>2. CASE Connect(t) \/ Open(t) \/ OpenFails(t)
    BY <1>1, <2>1, <2>2 DEF Connect, Open, OpenFails, netVars
  <2>3. CASE Handshake(t)
    BY <1>1, <1>2, <2>1, <2>3, CloseReads DEF Handshake
  <2>4. CASE RecvReady(t)
    BY <2>1, <2>4, UnreadIs, CloseReads, TakeReads DEF RecvReady
  <2>5. CASE Authenticate(t)
    BY <1>1, <2>1, <2>5, WrittenReads DEF Authenticate, WriteFails, netVars
  <2>6. CASE RecvAuth(t)
    BY <2>1, <2>6, UnreadIs, CloseReads, TakeReads DEF RecvAuth
  <2> QED
    BY <1>5, <2>2, <2>3, <2>4, <2>5, <2>6 DEF ConnectStep
<1>6. CASE ReceiveStep(t)
  <2>1. UNCHANGED execs
    BY <1>6, ReceivingQuiet
  <2>2. CASE BeginRecv(t) \/ RecvTimeout(t) \/ RecvFails(t)
    BY <1>1, <2>1, <2>2 DEF BeginRecv, RecvTimeout, RecvFails, netVars
  <2>3. CASE TimeoutInsideFrame(t)
    BY <1>2, <2>1, <2>3 DEF TimeoutInsideFrame, OnlyReads
  <2>4. CASE RecvMatching(t) \/ SkipMessage(t) \/ RecvRaw(t) \/ ListenMessage(t)
    BY <2>1, <2>4, TakeReads DEF RecvMatching, SkipMessage, RecvRaw, ListenMessage
  <2> QED
    BY <1>6, <2>2, <2>3, <2>4 DEF ReceiveStep
<1>7. CASE Acquire(t)
  BY <1>1, <1>7 DEF Acquire, netVars
<1>8. CASE Transmit(t)
  BY <1>1, <1>8, WrittenReads DEF Transmit, WriteFails, netVars
<1>9. CASE TransmitRaw(t)
  BY <1>1, <1>9, WrittenReads DEF TransmitRaw, WriteFails, netVars
<1> QED
  BY <1>3, <1>4, <1>5, <1>6, <1>7, <1>8, <1>9 DEF ThreadStep

\* A message other than the last was there before.
LEMMA ArriveAdds ==
  ASSUME TypeInv, NEW c \in Conns, NEW m, Arrive(c, m),
         NEW d \in Conns, NEW k \in DOMAIN inbox'[d]
  PROVE  \/ k \in DOMAIN inbox[d] /\ inbox'[d][k] = inbox[d][k]
         \/ d = c /\ inbox'[d][k] = m
<1>1. inbox \in [Conns -> Seq(Message)] /\ inbox[d] \in Seq(Message)
  BY DEF TypeInv, TypeOK, NetTypes
<1>2. CASE d = c
  <2>1. inbox'[d] = Append(inbox[d], m)
    BY <1>1, <1>2 DEF Arrive
  <2>2. k \in 1..(Len(inbox[d]) + 1) /\ Len(inbox[d]) \in Nat
    BY <1>1, <2>1
  <2>3. CASE k = Len(inbox[d]) + 1
    BY <1>1, <1>2, <2>1, <2>3
  <2>4. CASE k \in 1..Len(inbox[d])
    BY <1>1, <2>1, <2>4
  <2> QED
    BY <2>2, <2>3, <2>4
<1>3. CASE d # c
  BY <1>1, <1>3 DEF Arrive
<1> QED
  BY <1>2, <1>3

LEMMA ServiceKeepsReplies ==
  ASSUME TypeInv, SentOnce, RepliesExecuted, NEW c \in Conns, Service(c)
  PROVE  RepliesExecuted'
<1> SUFFICES ASSUME NEW d \in Conns, NEW k \in DOMAIN inbox'[d],
                    inbox'[d][k].kind = "reply", inbox'[d][k].ok
             PROVE  execs'[inbox'[d][k].req] = 1
  BY DEF RepliesExecuted
<1>1. ASSUME UNCHANGED execs, NEW m, m.kind # "reply", Arrive(c, m)
      PROVE  execs'[inbox'[d][k].req] = 1
  <2>1. k \in DOMAIN inbox[d] /\ inbox'[d][k] = inbox[d][k]
    BY <1>1, ArriveAdds
  <2> QED
    BY <1>1, <2>1 DEF RepliesExecuted
<1>2. CASE ServiceGreets(c)
  BY <1>1, <1>2 DEF ServiceGreets, Unsolicited
<1>3. CASE ServiceAuthenticates(c)
  BY <1>1, <1>3 DEF ServiceAuthenticates, AuthReply
<1>4. CASE ServiceEvent(c)
  BY <1>1, <1>4 DEF ServiceEvent, Unsolicited
<1>5. CASE ServiceCloses(c) \/ LinkBreaks(c)
  <2>1. OnlyReads /\ UNCHANGED execs
    BY <1>5 DEF ServiceCloses, LinkBreaks, OnlyReads, TypeInv, TypeOK, NetTypes
  <2>2. RepliesExecuted'
    BY <2>1, ReadKeepsReplies
  <2> QED
    BY <2>2 DEF RepliesExecuted
<1>6. CASE ServiceAnswers(c)
  <2>1. PICK e \in pending[c], ok \in BOOLEAN :
          /\ Password /\ auth[c] # "accepted" => ~ok
          /\ execs' = IF Password /\ auth[c] # "accepted" THEN execs
                      ELSE [r \in Request |->
                              IF \E f \in Answered(c, e) : f.req = r
                              THEN execs[r] + 1 ELSE execs[r]]
          /\ IF link[c] = "open" THEN Arrive(c, Reply(e, ok)) ELSE UNCHANGED inbox
    BY <1>6 DEF ServiceAnswers
  <2>2. \A f \in pending[c] : f.req \in Request /\ execs[f.req] = 0
    BY DEF SentOnce, PendingNotExecuted, TypeInv, TypeOK, NetTypes, Entry
  <2>3. \A r \in Request : execs[r] = 1 => execs'[r] = 1
    <3> SUFFICES ASSUME NEW r \in Request, execs[r] = 1 PROVE execs'[r] = 1
      OBVIOUS
    <3>1. ~ \E f \in Answered(c, e) : f.req = r
      BY <2>2 DEF Answered
    <3> QED
      BY <2>1, <3>1
  <2>4. CASE k \in DOMAIN inbox[d] /\ inbox'[d][k] = inbox[d][k]
    <3>1. inbox[d][k] \in Message
      BY <2>4 DEF TypeInv, TypeOK, NetTypes
    <3>2. inbox[d][k].req \in Request
      BY <2>4, <3>1 DEF Message, Notice, Answer
    <3> QED
      BY <2>3, <2>4, <3>2 DEF RepliesExecuted
  <2>5. CASE inbox'[d][k] = Reply(e, ok)
    <3>1. ok /\ inbox'[d][k].req = e.req
      BY <2>5 DEF Reply
    <3>2. e \in Answered(c, e)
      BY DEF Answered
    <3>3. execs' = [r \in Request |-> IF \E f \in Answered(c, e) : f.req = r
                                      THEN execs[r] + 1 ELSE execs[r]]
      BY <2>1, <3>1
    <3>4. execs'[e.req] = execs[e.req] + 1
      BY <2>2, <3>2, <3>3
    <3> QED
      BY <2>2, <3>1, <3>4
  <2>6. CASE UNCHANGED inbox
    BY <2>4, <2>6
  <2>7. CASE Arrive(c, Reply(e, ok))
    BY <2>4, <2>5, <2>7, ArriveAdds
  <2> QED
    BY <2>1, <2>6, <2>7
<1> QED
  BY <1>2, <1>3, <1>4, <1>5, <1>6 DEF Service

----------------------------------------------------------------------------
(* The refinement.                                                          *)

RefinementInv == AtMostOnceInv /\ OwnAnswersInv /\ ControlInv /\ RepliesExecuted

LEMMA RefinementInit == Init => ControlInv /\ RepliesExecuted /\ RC!Init
<1> SUFFICES ASSUME Init PROVE ControlInv /\ RepliesExecuted /\ RC!Init
  OBVIOUS
<1>1. ControlInv
  BY DEF Init, ControlInv, Fits, PartsLeft
<1>2. RepliesExecuted
  BY DEF Init, RepliesExecuted
<1>3. RC!Init
  BY DEF Init, RC!Init, Parts
<1> QED
  BY <1>1, <1>2, <1>3

LEMMA ThreadStepRefines ==
  ASSUME TypeInv, OwnAnswersInv, ControlInv, RepliesExecuted, NEW t \in Threads, ThreadStep(t)
  PROVE  ControlInv' /\ [RC!Next]_(RC!vars)
<1>1. CASE EnsureConnected(t) \/ Close(t) \/ ConnectStep(t)
  BY <1>1, ConnectingRefines
<1>2. CASE RecvMatching(t)
  BY <1>2, RecvMatchingRefines
<1>3. CASE ReceiveStep(t) /\ ~RecvMatching(t)
  BY <1>3, ReadingRefines
<1>4. CASE Acquire(t)
  BY <1>4, AcquireRefines
<1>5. CASE Transmit(t)
  <2>1. got[t] = << >>
    BY <1>5 DEF Transmit, OwnAnswersInv, CallInv, NothingCollected
  <2> QED
    BY <1>5, <2>1, TransmitRefines
<1>6. CASE TransmitRaw(t)
  BY <1>6, TransmitRawRefines
<1> QED
  BY <1>1, <1>2, <1>3, <1>4, <1>5, <1>6 DEF ThreadStep

LEMMA StepRefines ==
  ASSUME RefinementInv, [Next]_vars
  PROVE  ControlInv' /\ RepliesExecuted' /\ [RC!Next]_(RC!vars)
<1>1. /\ TypeInv /\ SentOnce /\ OwnAnswersInv /\ ControlInv /\ RepliesExecuted
  BY DEF RefinementInv, AtMostOnceInv, TypeInv, SentOnce
<1>2. ASSUME NEW t \in Threads, NEW o \in Ops, Call(t, o)
      PROVE  ControlInv' /\ RepliesExecuted' /\ [RC!Next]_(RC!vars)
  <2>1. OnlyReads /\ UNCHANGED execs
    BY <1>2 DEF Call, netVars, OnlyReads
  <2> QED
    BY <1>1, <1>2, <2>1, ReadKeepsReplies, CallRefines
<1>3. ASSUME NEW t \in Threads, ThreadStep(t)
      PROVE  ControlInv' /\ RepliesExecuted' /\ [RC!Next]_(RC!vars)
  BY <1>1, <1>3, ThreadReads, ReadKeepsReplies, ThreadStepRefines
<1>4. ASSUME NEW c \in Conns, Service(c)
      PROVE  ControlInv' /\ RepliesExecuted' /\ [RC!Next]_(RC!vars)
  BY <1>1, <1>4, ServiceKeepsReplies, ServiceRefines
<1>5. CASE UNCHANGED vars
  <2>1. UNCHANGED <<pc, op, calls, want, got, execs, outcome, inbox>>
    BY <1>5 DEF vars, threadVars, netVars
  <2>2. OnlyReads
    BY <2>1 DEF OnlyReads
  <2> QED
    BY <1>1, <2>1, <2>2, ReadKeepsReplies, StillRefines
<1> QED
  BY <1>2, <1>3, <1>4, <1>5 DEF Next, AllCallsMade

\* Which methods have which steps, as the refinement shows too.
LEMMA RefinementInvAlways == Spec => []RefinementInv
<1>1. Init => ControlInv /\ RepliesExecuted
  BY RefinementInit
<1>2. /\ AtMostOnceInv /\ OwnAnswersInv /\ ControlInv /\ RepliesExecuted /\ [Next]_vars
      => ControlInv' /\ RepliesExecuted'
  BY StepRefines DEF RefinementInv
<1>3. AtMostOnceInv /\ OwnAnswersInv /\ ControlInv /\ RepliesExecuted => RefinementInv
  BY DEF RefinementInv
<1> QED
  BY <1>1, <1>2, <1>3, SentOnceAlways, OwnIds, PTL DEF Spec

\* The client is the remote call it stands for: whatever connections fail, time
\* out or are opened again, a call returns the answers to exactly its own
\* requests, in order, each executed once, or it fails.
THEOREM RefinesRemoteCall == Spec => ImplementsRemoteCall
<1>1. Init => RC!Init
  BY RefinementInit
<1>2. RefinementInv /\ [Next]_vars => [RC!Next]_(RC!vars)
  BY StepRefines
<1> QED
  BY <1>1, <1>2, RefinementInvAlways, PTL DEF Spec, ImplementsRemoteCall, RC!Spec
=============================================================================
