---------------------------- MODULE SSHTunnelProofs ----------------------------
(****************************************************************************)
(* The tunnels of any number of clients: none is left behind by a client    *)
(* that is alone on its port, and a cleanup kills only programs that have a *)
(* socket open to the port.                                                 *)
(****************************************************************************)
EXTENDS SSHTunnel, TLAPS

USE TunnelClientsAssumption, TunnelBoundAssumption

----------------------------------------------------------------------------
(* Types.                                                                   *)

States == {"none", "starting", "listening", "ended"}

\* Signals end what is alive, and start nothing.
LEMMA EndedIs ==
  ASSUME TypeOK, NEW ks
  PROVE  /\ Ended(ks) \in [Tunnels -> States]
         /\ \A k \in Tunnels : /\ k \in ks /\ Alive(k) => Ended(ks)[k] = "ended"
                               /\ ~(k \in ks /\ Alive(k)) => Ended(ks)[k] = state[k]
BY DEF Ended, TypeOK, TunnelTypes, States

LEMMA InitTypes == Init => TypeOK
<1> SUFFICES ASSUME Init PROVE TypeOK
  OBVIOUS
<1>1. TunnelTypes
  BY DEF Init, TunnelTypes, Tunnels
<1>2. ClientTypes /\ OwnTunnels
  BY DEF Init, ClientTypes, Labels, OpKinds, OwnTunnels
<1> QED
  BY <1>1, <1>2 DEF TypeOK

\* A step that makes no tunnel may end some, or let one listen.
LEMMA TunnelTypesKept ==
  ASSUME TypeOK, UNCHANGED <<made, owner>>, alive' \subseteq alive,
         state' = state \/ \E ks : state' = Ended(ks)
  PROVE  TunnelTypes'
<1>1. CASE state' = state
  BY <1>1 DEF TypeOK, TunnelTypes
<1>2. ASSUME NEW ks, state' = Ended(ks) PROVE TunnelTypes'
  <2>1. /\ state' \in [Tunnels -> States]
        /\ \A k \in Tunnels : state'[k] = "none" <=> state[k] = "none"
    BY <1>2, EndedIs DEF Alive
  <2> QED
    BY <2>1 DEF TypeOK, TunnelTypes, States
<1> QED
  BY <1>1, <1>2

LEMMA BeginTypes ==
  ASSUME TypeOK, NEW c \in Clients, NEW o \in Ops, Begin(c, o)
  PROVE  TypeOK'
<1>1. o \in OpKinds
  BY TunnelUseAssumption
<1>2. PICK label \in {"tunnel", "close", "exchange", "idle"} :
        pc' = [pc EXCEPT ![c] = label] /\ (label = "exchange" => ws[c] # 0)
  BY <1>1 DEF Begin, Goto, OpKinds
<1>3. TunnelTypes'
  BY TunnelTypesKept DEF Begin, tunnelVars
<1>4. ClientTypes'
  BY <1>1, <1>2 DEF Begin, tunnelVars, TypeOK, ClientTypes, Labels
<1>5. OwnTunnels'
  BY <1>2 DEF Begin, At, tunnelVars, TypeOK, ClientTypes, OwnTunnels
<1> QED
  BY <1>3, <1>4, <1>5 DEF TypeOK

\* A step that moves a client, and changes nothing else but what it may.
LEMMA MoveTypes ==
  ASSUME TypeOK, NEW c \in Clients, NEW label \in Labels, Goto(c, label), TunnelTypes',
         UNCHANGED <<made, owner, calls>>,
         op' \in [Clients -> OpKinds \cup {"abort"}], flag' \in [Clients -> BOOLEAN],
         process' = process \/ process' = [process EXCEPT ![c] = 0],
         ws' \in [Clients -> 0..made], \A d \in Clients \ {c} : ws'[d] = ws[d],
         label = "await" => process'[c] # 0,
         label \in {"ready", "exchange"} => ws'[c] # 0,
         c \in HttpClients => /\ ws'[c] = 0
                              /\ label \notin {"socket", "ready", "exchange"}
                              /\ process'[c] # 0 => label = "await"
  PROVE  TypeOK'
<1>1. ClientTypes'
  <2>1. process' \in [Clients -> 0..made]
    BY DEF TypeOK, TunnelTypes, ClientTypes
  <2>2. pc' \in [Clients -> Labels]
    BY DEF Goto, TypeOK, ClientTypes
  <2> QED
    BY <2>1, <2>2 DEF TypeOK, ClientTypes
<1>2. OwnTunnels'
  BY DEF Goto, TypeOK, ClientTypes, OwnTunnels
<1> QED
  BY <1>1, <1>2 DEF TypeOK

LEMMA TunnelActiveTypes ==
  ASSUME TypeOK, NEW c \in Clients, TunnelActive(c)
  PROVE  TypeOK'
<1>1. PICK label \in {"clean", "socket", "idle"} :
        Goto(c, label) /\ (c \in HttpClients => label # "socket")
  BY DEF TunnelActive, Clients
<1>2. TunnelTypes' /\ UNCHANGED <<made, owner, op, calls, flag, process, ws>>
  BY TunnelTypesKept DEF TunnelActive, tunnelVars, clientVars
<1>3. pc[c] = "tunnel"
  BY DEF TunnelActive, At
<1>4. c \in HttpClients => ws[c] = 0 /\ process[c] = 0
  BY <1>3 DEF TypeOK, OwnTunnels
<1> QED
  BY <1>1, <1>2, <1>4, MoveTypes DEF Labels, TypeOK, ClientTypes

LEMMA CleanupTypes ==
  ASSUME TypeOK, NEW c \in Clients, Cleanup(c), UNCHANGED <<made, owner>>
  PROVE  TunnelTypes'
BY TunnelTypesKept DEF Cleanup

LEMMA ConnectCleansTypes ==
  ASSUME TypeOK, NEW c \in Clients, ConnectCleans(c)
  PROVE  TypeOK'
<1>1. TunnelTypes' /\ UNCHANGED <<made, owner, op, calls, flag, process, ws>>
      /\ Goto(c, "spawn")
  BY CleanupTypes DEF ConnectCleans, clientVars
<1>2. c \in HttpClients => ws[c] = 0 /\ process[c] = 0
  BY DEF ConnectCleans, At, TypeOK, OwnTunnels
<1> QED
  BY <1>1, <1>2, MoveTypes DEF Labels, TypeOK, ClientTypes

LEMMA CloseCleansTypes ==
  ASSUME TypeOK, NEW c \in Clients, CloseCleans(c)
  PROVE  TypeOK'
<1>1. PICK label \in {"tunnel", "idle"} : Goto(c, label)
  BY DEF CloseCleans
<1>2. TunnelTypes' /\ UNCHANGED <<made, owner, op, calls, process, ws>>
  BY CleanupTypes DEF CloseCleans
<1>3. flag' \in [Clients -> BOOLEAN]
  BY DEF CloseCleans, TypeOK, ClientTypes
<1>4. c \in HttpClients => ws[c] = 0 /\ process[c] = 0
  BY DEF CloseCleans, At, TypeOK, OwnTunnels
<1> QED
  BY <1>1, <1>2, <1>3, <1>4, MoveTypes DEF Labels, TypeOK, ClientTypes

LEMMA SpawnTypes ==
  ASSUME TypeOK, NEW c \in Clients, Spawn(c)
  PROVE  TypeOK'
<1>1. UNCHANGED <<alive, op, calls, flag, ws>> /\ pc[c] = "spawn"
  BY DEF Spawn, At
<1>2. CASE Goto(c, "idle") /\ UNCHANGED <<tunnelVars, process>>
  <2>1. TunnelTypes' /\ UNCHANGED <<made, owner>>
    BY <1>1, <1>2, TunnelTypesKept DEF tunnelVars
  <2>2. c \in HttpClients => ws[c] = 0 /\ process[c] = 0
    BY <1>1 DEF TypeOK, OwnTunnels
  <2> QED
    BY <1>1, <1>2, <2>1, <2>2, MoveTypes DEF Labels, TypeOK, ClientTypes
<1>3. CASE /\ made < MaxTunnels /\ made' = made + 1
           /\ owner' = [owner EXCEPT ![made'] = c]
           /\ state' = [state EXCEPT ![made'] = "starting"]
           /\ process' = [process EXCEPT ![c] = made']
           /\ Goto(c, "await")
  <2>1. made' \in Tunnels /\ made \in Nat /\ 0..made \subseteq 0..made'
    BY <1>3 DEF Tunnels, TypeOK, TunnelTypes
  <2>2. TunnelTypes'
    BY <1>1, <1>3, <2>1 DEF Tunnels, TypeOK, TunnelTypes
  <2>3. ClientTypes'
    BY <1>1, <1>3, <2>1 DEF Goto, Labels, TypeOK, ClientTypes
  <2>4. \A k \in 1..made : owner'[k] = owner[k]
    BY <1>3, <2>1 DEF Tunnels, TypeOK, TunnelTypes
  <2>5. owner'[made'] = c
    BY <1>3, <2>1 DEF TypeOK, TunnelTypes
  <2>6. \A d \in Clients : process[d] \in 0..made
    BY DEF TypeOK, ClientTypes
  <2>7. OwnTunnels'
    BY <1>1, <1>3, <2>1, <2>4, <2>5, <2>6 DEF Goto, TypeOK, ClientTypes, OwnTunnels
  <2> QED
    BY <2>2, <2>3, <2>7 DEF TypeOK
<1> QED
  BY <1>2, <1>3 DEF Spawn

LEMMA PollTypes ==
  ASSUME TypeOK, NEW c \in Clients, Poll(c)
  PROVE  TypeOK'
<1>1. PICK label \in {"socket", "idle"} : Goto(c, label)
  BY DEF Poll
<1>2. TunnelTypes' /\ UNCHANGED <<made, owner, op, calls, process, ws>>
  BY TunnelTypesKept DEF Poll
<1>3. flag' \in [Clients -> BOOLEAN] /\ c \notin HttpClients
  BY DEF Poll, TypeOK, ClientTypes
<1> QED
  BY <1>1, <1>2, <1>3, MoveTypes DEF Labels, TypeOK, ClientTypes

LEMMA RunReturnsTypes ==
  ASSUME TypeOK, NEW c \in Clients, RunReturns(c)
  PROVE  TypeOK'
<1>1. PICK label \in {"check", "idle"} : Goto(c, label)
  BY DEF RunReturns
<1>2. TunnelTypes' /\ UNCHANGED <<made, owner, op, calls, flag, ws>>
  BY TunnelTypesKept DEF RunReturns
<1>3. process' = [process EXCEPT ![c] = 0] /\ process'[c] = 0 /\ ws[c] = 0
  BY DEF RunReturns, TypeOK, ClientTypes, OwnTunnels
<1> QED
  BY <1>1, <1>2, <1>3, MoveTypes DEF Labels, TypeOK, ClientTypes

\* A step that leaves the tunnels alone.
LEMMA QuietTypes ==
  ASSUME TypeOK, NEW c \in Clients,
         Check(c) \/ Socket(c) \/ Ready(c) \/ Exchange(c)
  PROVE  TypeOK'
<1>1. TunnelTypes' /\ UNCHANGED <<made, owner, state, calls, process>>
  BY TunnelTypesKept DEF Check, Socket, Ready, Exchange, tunnelVars
<1>2. /\ flag' \in [Clients -> BOOLEAN]
      /\ op' \in [Clients -> OpKinds \cup {"abort"}]
  BY DEF Check, Socket, Ready, Exchange, TypeOK, ClientTypes
<1>3. PICK k \in {0, ws[c]} \cup Listeners(Port[c]) :
        ws' = [ws EXCEPT ![c] = k]
        /\ (pc[c] # "socket" => k \notin Listeners(Port[c]) \/ k \in {0, ws[c]})
  BY DEF Check, Socket, Ready, Exchange, Broken, At, TypeOK, ClientTypes
<1>4. k \in 0..made /\ ws' \in [Clients -> 0..made] /\ ws'[c] = k
      /\ \A d \in Clients \ {c} : ws'[d] = ws[d]
  BY <1>3 DEF Listeners, Of, TypeOK, TunnelTypes, ClientTypes
<1>5. CASE Check(c)
  <2>1. Goto(c, "idle") /\ UNCHANGED ws /\ pc[c] = "check"
    BY <1>5 DEF Check, At
  <2>2. c \in HttpClients => ws[c] = 0 /\ process[c] = 0
    BY <2>1 DEF TypeOK, OwnTunnels
  <2> QED
    BY <1>1, <1>2, <1>4, <2>1, <2>2, MoveTypes DEF Labels
<1>6. CASE Socket(c) \/ Ready(c) \/ Exchange(c)
  <2>1. PICK label \in {"idle", "ready", "exchange", "close"} :
          Goto(c, label) /\ (label \in {"ready", "exchange"} => ws'[c] # 0)
    <3>1. CASE Socket(c)
      <4>1. \A j \in Listeners(Port[c]) : j # 0
        BY DEF Listeners, Of
      <4> QED
        BY <3>1, <4>1 DEF Socket, Connected, TypeOK, ClientTypes
    <3>2. CASE Ready(c)
      BY <3>2 DEF Ready, At, Connected, TypeOK, OwnTunnels
    <3>3. CASE Exchange(c)
      BY <3>3 DEF Exchange
    <3> QED
      BY <1>6, <3>1, <3>2, <3>3
  <2>2. c \notin HttpClients
    BY <1>6 DEF Socket, Ready, Exchange, At, TypeOK, OwnTunnels
  <2> QED
    BY <1>1, <1>2, <1>4, <2>1, <2>2, MoveTypes DEF Labels
<1> QED
  BY <1>5, <1>6

LEMMA CloseTypes ==
  ASSUME TypeOK, NEW c \in Clients, Close(c)
  PROVE  TypeOK'
<1>1. Goto(c, "closing") /\ UNCHANGED <<made, owner, op, calls, flag>>
  BY DEF Close
<1>2. TunnelTypes'
  BY TunnelTypesKept DEF Close
<1>3. /\ process' = [process EXCEPT ![c] = 0] /\ process'[c] = 0
      /\ ws' \in [Clients -> 0..made] /\ ws'[c] = 0
      /\ \A d \in Clients \ {c} : ws'[d] = ws[d]
  BY DEF Close, TypeOK, TunnelTypes, ClientTypes
<1> QED
  BY <1>1, <1>2, <1>3, MoveTypes DEF Labels, TypeOK, ClientTypes

LEMMA ClientStepTypes ==
  ASSUME TypeOK, NEW c \in Clients, ClientStep(c)
  PROVE  TypeOK'
BY TunnelActiveTypes, ConnectCleansTypes, SpawnTypes, PollTypes, RunReturnsTypes,
   QuietTypes, CloseTypes, CloseCleansTypes DEF ClientStep

\* What the ssh processes do by themselves.
LEMMA TunnelStepTypes ==
  ASSUME TypeOK, NEW k \in 1..made, TunnelListens(k) \/ TunnelEnds(k)
  PROVE  TypeOK'
<1>1. UNCHANGED <<alive, made, owner, pc, clientVars>>
  BY DEF TunnelListens, TunnelEnds
<1>2. TunnelTypes'
  <2>1. CASE TunnelListens(k)
    BY <2>1 DEF TunnelListens, TypeOK, TunnelTypes
  <2>2. CASE TunnelEnds(k)
    BY <1>1, <2>2, TunnelTypesKept DEF TunnelEnds
  <2> QED
    BY <2>1, <2>2
<1>3. ClientTypes' /\ OwnTunnels'
  BY <1>1 DEF clientVars, TypeOK, ClientTypes, OwnTunnels
<1> QED
  BY <1>2, <1>3 DEF TypeOK

LEMMA NextTypes == TypeOK /\ [Next]_vars => TypeOK'
<1> SUFFICES ASSUME TypeOK, [Next]_vars PROVE TypeOK'
  OBVIOUS
<1>1. ASSUME UNCHANGED vars PROVE TypeOK'
  BY <1>1 DEF vars, tunnelVars, clientVars, TypeOK, TunnelTypes, ClientTypes, OwnTunnels
<1>2. ASSUME NEW c \in Clients, NEW o \in Ops, Begin(c, o) PROVE TypeOK'
  BY <1>2, BeginTypes
<1> QED
  BY <1>1, <1>2, ClientStepTypes, TunnelStepTypes DEF Next, AllCallsMade

\* Every value is of its type, and a client refers to tunnels of its own making
\* only: whatever it kills by _ssh_process is its own.
THEOREM TunnelTypeCorrect == Spec => []TypeOK
BY InitTypes, NextTypes, PTL DEF Spec

----------------------------------------------------------------------------
(* Whom a cleanup kills.                                                    *)

\* At a cleanup the client's own socket is closed, unless connect() was called.
SocketClosed ==
    \A c \in Clients :
        pc[c] = "closing" \/ (pc[c] \in {"tunnel", "clean"} /\ op[c] # "connect")
        => ws[c] = 0

KillInv == TypeOK /\ SocketClosed

\* A client that moves, and where it matters has its socket closed.
LEMMA ClosedStays ==
  ASSUME KillInv, NEW c \in Clients, NEW label, Goto(c, label),
         \A d \in Clients \ {c} : ws'[d] = ws[d] /\ op'[d] = op[d],
         label = "closing" \/ (label \in {"tunnel", "clean"} /\ op'[c] # "connect")
         => ws'[c] = 0
  PROVE  SocketClosed'
BY DEF Goto, KillInv, TypeOK, ClientTypes, SocketClosed

LEMMA ClientStepCloses ==
  ASSUME KillInv, NEW c \in Clients, ClientStep(c)
  PROVE  SocketClosed'
<1>1. \A d \in Clients \ {c} : ws'[d] = ws[d] /\ op'[d] = op[d]
  BY DEF ClientStep, TunnelActive, ConnectCleans, Spawn, Poll, RunReturns, Check, Socket,
     Ready, Exchange, Broken, Close, CloseCleans, clientVars, KillInv, TypeOK, ClientTypes
<1>2. CASE TunnelActive(c)
  <2>1. PICK label : Goto(c, label)
    BY <1>2 DEF TunnelActive
  <2>2. op[c] # "connect" => ws[c] = 0
    BY <1>2 DEF TunnelActive, At, KillInv, SocketClosed
  <2>3. label # "closing"
    BY <1>2, <2>1 DEF TunnelActive, Goto, KillInv, TypeOK, ClientTypes
  <2> QED
    BY <1>1, <1>2, <2>1, <2>2, <2>3, ClosedStays DEF TunnelActive, clientVars
<1>3. CASE Close(c)
  <2>1. ws'[c] = 0
    BY <1>3 DEF Close, KillInv, TypeOK, ClientTypes
  <2> QED
    BY <1>1, <1>3, <2>1, ClosedStays DEF Close
<1>4. CASE CloseCleans(c)
  <2>1. ws'[c] = 0
    BY <1>4 DEF CloseCleans, At, KillInv, SocketClosed
  <2> QED
    BY <1>1, <1>4, <2>1, ClosedStays DEF CloseCleans
<1>5. CASE \/ ConnectCleans(c) \/ Spawn(c) \/ Poll(c) \/ RunReturns(c) \/ Check(c)
           \/ Socket(c) \/ Ready(c) \/ Exchange(c)
  <2>1. PICK label \in {"idle", "spawn", "await", "check", "socket", "ready", "exchange",
                        "close"} : Goto(c, label)
    BY <1>5 DEF ConnectCleans, Spawn, Poll, RunReturns, Check, Socket, Ready, Exchange,
       Connected
  <2> QED
    BY <1>1, <2>1, ClosedStays
<1> QED
  BY <1>2, <1>3, <1>4, <1>5 DEF ClientStep

LEMMA NextKill == KillInv /\ [Next]_vars => KillInv'
<1> SUFFICES ASSUME KillInv, [Next]_vars PROVE SocketClosed'
  BY NextTypes DEF KillInv
<1>1. ASSUME UNCHANGED <<pc, op, ws>> PROVE SocketClosed'
  BY <1>1 DEF KillInv, SocketClosed
<1>2. ASSUME NEW c \in Clients, NEW o \in Ops, Begin(c, o) PROVE SocketClosed'
  <2>1. PICK label \in {"tunnel", "idle", "exchange", "close"} :
          Goto(c, label) /\ (label = "tunnel" => o = "connect")
    BY <1>2, TunnelUseAssumption DEF Begin, OpKinds
  <2>2. op'[c] = o /\ UNCHANGED ws /\ \A d \in Clients \ {c} : op'[d] = op[d]
    BY <1>2 DEF Begin, KillInv, TypeOK, ClientTypes
  <2> QED
    BY <2>1, <2>2, ClosedStays
<1>3. ASSUME NEW k \in 1..made, TunnelListens(k) \/ TunnelEnds(k) PROVE SocketClosed'
  BY <1>1, <1>3 DEF TunnelListens, TunnelEnds, clientVars
<1> QED
  BY <1>1, <1>2, <1>3, ClientStepCloses DEF Next, AllCallsMade, vars, clientVars

\* Only a cleanup kills programs: those with a socket to the port.
Kills(c, p) ==
    /\ pc[c] \in {"clean", "closing"} /\ pc'[c] # pc[c]
    /\ \E d \in Clients : Program[d] = p /\ ws[d] # 0 /\ Port[d] = Port[c]

LEMMA CleanupKills ==
  ASSUME TypeOK, NEW c \in Clients, ClientStep(c), NEW p \in alive \ alive'
  PROVE  Kills(c, p)
<1>1. ConnectCleans(c) \/ CloseCleans(c)
  BY DEF ClientStep, TunnelActive, Spawn, Poll, RunReturns, Check, Socket, Ready,
     Exchange, Close
<1>2. pc[c] \in {"clean", "closing"} /\ pc'[c] # pc[c] /\ Cleanup(c)
  BY <1>1 DEF ConnectCleans, CloseCleans, At, Goto, TypeOK, ClientTypes
<1>3. PICK tool \in Tools : p \in Holders(tool, Port[c])
  BY <1>2 DEF Cleanup
<1> QED
  BY <1>2, <1>3 DEF Holders, Kills

\* A program is killed by a client only for a socket to the same port that is open:
\* never the caller of close(), reconnect() or of a command for his own socket, which
\* they have closed before; whatever the ports and programs of the clients.
THEOREM KilledByPortCorrect == Spec => KilledByPort
<1>1. Init => KillInv
  BY InitTypes DEF Init, KillInv, SocketClosed
<1> DEFINE Killed(p) == \E c \in Clients, d \in Clients :
              /\ pc[c] \in {"clean", "closing"} /\ pc'[c] # pc[c]
              /\ Program[d] = p /\ ws[d] # 0 /\ Port[d] = Port[c]
              /\ d = c => pc[c] = "clean" /\ op[c] = "connect"
<1>2. ASSUME KillInv, [Next]_vars PROVE \A p \in alive \ alive' : Killed(p)
  <2>1. SUFFICES ASSUME NEW p \in alive \ alive' PROVE Killed(p)
    OBVIOUS
  <2>2. PICK c \in Clients : ClientStep(c)
    BY <1>2, <2>1 DEF Next, Begin, TunnelListens, TunnelEnds, AllCallsMade, vars
  <2>3. Kills(c, p)
    BY <1>2, <2>2, CleanupKills DEF KillInv
  <2>4. ws[c] # 0 => pc[c] = "clean" /\ op[c] = "connect"
    BY <1>2, <2>3 DEF Kills, KillInv, SocketClosed
  <2> QED
    BY <2>3, <2>4 DEF Kills
<1>3. KillInv /\ [Next]_vars => [\A p \in alive \ alive' : Killed(p)]_vars
  BY <1>2
<1> QED
  BY <1>1, <1>3, NextKill, PTL DEF Spec, KilledByPort

----------------------------------------------------------------------------
(* No tunnel is left behind.                                                *)

\* The tunnel that runs is the only one of its client: one that waits for it has it by
\* its process, and one that no longer waits has it on its port.
Standing(k) ==
    LET c == owner[k]
    IN  /\ pc[c] # "spawn"
        /\ c \in WsClients \/ pc[c] = "await" => process[c] = k
        /\ pc[c] # "await" => state[k] = "listening"
        /\ pc[c] = "idle" => op[c] \notin {"close", "abort"}
        /\ \A j \in 1..made : Runs(j) /\ owner[j] = c => j = k

Standings == \A k \in 1..made : Runs(k) /\ Alone(owner[k]) => Standing(k)

\* close() goes from its start to its end.
Closing ==
    \A c \in Clients :
        op[c] \in {"close", "abort"} => pc[c] \in {"idle", "close", "closing"}

HeldInv == TypeOK /\ Closing /\ Standings

LEMMA NextClosing == TypeOK /\ Closing /\ [Next]_vars => Closing'
<1> SUFFICES ASSUME TypeOK, Closing, [Next]_vars PROVE Closing'
  OBVIOUS
<1>1. ASSUME UNCHANGED <<pc, op>> PROVE Closing'
  BY <1>1 DEF Closing
<1>2. ASSUME NEW c \in Clients, NEW o \in Ops, Begin(c, o) PROVE Closing'
  <2>1. o \in {"close", "abort"} => pc'[c] = "close"
    BY <1>2, TunnelUseAssumption DEF Begin, Goto, OpKinds, TypeOK, ClientTypes
  <2>2. op'[c] = o /\ \A d \in Clients \ {c} : op'[d] = op[d] /\ pc'[d] = pc[d]
    BY <1>2 DEF Begin, Goto, TypeOK, ClientTypes
  <2> QED
    BY <2>1, <2>2 DEF Closing
<1>3. ASSUME NEW c \in Clients, ClientStep(c) PROVE Closing'
  <2>1. \A d \in Clients \ {c} : op'[d] = op[d] /\ pc'[d] = pc[d]
    BY <1>3 DEF ClientStep, TunnelActive, ConnectCleans, Spawn, Poll, RunReturns, Check,
       Socket, Ready, Exchange, Connected, Close, CloseCleans, Goto, clientVars, TypeOK,
       ClientTypes
  <2>2. op'[c] \in {"close", "abort"} => pc'[c] \in {"idle", "close", "closing"}
    BY <1>3 DEF ClientStep, TunnelActive, ConnectCleans, Spawn, Poll, RunReturns, Check,
       Socket, Ready, Exchange, Connected, Close, CloseCleans, Goto, At, clientVars,
       Closing, TypeOK, ClientTypes
  <2> QED
    BY <2>1, <2>2 DEF Closing
<1>4. ASSUME NEW k \in 1..made, TunnelListens(k) \/ TunnelEnds(k) PROVE Closing'
  BY <1>1, <1>4 DEF TunnelListens, TunnelEnds, clientVars
<1> QED
  BY <1>1, <1>2, <1>3, <1>4 DEF Next, AllCallsMade, vars, clientVars

\* The tunnel of a client that has a port of its own is found by that port.
LEMMA OwnListeners ==
  ASSUME TypeOK, NEW c \in Clients, Alone(c), NEW k \in 1..made
  PROVE  /\ k \in Of(Port[c]) <=> owner[k] = c
         /\ k \in Listeners(Port[c]) <=> owner[k] = c /\ state[k] = "listening"
BY DEF Alone, Of, Listeners, TypeOK, TunnelTypes, Tunnels

LEMMA HeldMeansTunnelsHeld == HeldInv => TunnelsHeld
<1> SUFFICES ASSUME HeldInv, NEW k \in 1..made, Runs(k), Alone(owner[k])
             PROVE  LET c == owner[k]
                    IN  /\ process[c] = k \/ (c \in HttpClients /\ state[k] = "listening")
                        /\ pc[c] = "idle" => op[c] \notin {"close", "abort"}
                        /\ \A j \in 1..made : Runs(j) /\ owner[j] = c => j = k
  BY DEF TunnelsHeld
<1>1. Standing(k) /\ owner[k] \in Clients
  BY DEF HeldInv, Standings, TypeOK, TunnelTypes, Tunnels
<1> QED
  BY <1>1 DEF Standing, Clients

\* A step of one client: it ends no tunnel but its own, and what of these still runs
\* afterwards has to stand, as far as it depends on the client.
LEMMA ClientHolds ==
  ASSUME HeldInv, NEW c \in Clients, alive' \subseteq alive, UNCHANGED <<made, owner>>,
         state' = state \/ \E ks : state' = Ended(ks),
         \A d \in Clients \ {c} :
            pc'[d] = pc[d] /\ op'[d] = op[d] /\ process'[d] = process[d],
         \A k \in 1..made :
            owner[k] = c /\ Alone(c) /\ Runs(k) /\ Standing(k) /\ Runs(k)'
                /\ state'[k] = state[k]
            => /\ pc'[c] # "spawn"
               /\ c \in WsClients \/ pc'[c] = "await" => process'[c] = k
               /\ pc'[c] # "await" => state[k] = "listening"
               /\ pc'[c] = "idle" => op'[c] \notin {"close", "abort"}
  PROVE  Standings'
<1> SUFFICES ASSUME NEW k \in 1..made, Runs(k)', Alone(owner[k]) PROVE Standing(k)'
  BY DEF Standings, Alone
<1>1. k \in Tunnels /\ owner[k] \in Clients /\ \A j \in 1..made : j \in Tunnels
  BY DEF HeldInv, TypeOK, TunnelTypes, Tunnels
<1>2. ASSUME NEW j \in 1..made, Runs(j)' PROVE Runs(j) /\ state'[j] = state[j]
  <2>1. CASE state' = state
    BY <1>2, <2>1 DEF Runs, Alive
  <2>2. ASSUME NEW ks, state' = Ended(ks) PROVE Runs(j) /\ state'[j] = state[j]
    BY <1>1, <1>2, <2>2, EndedIs DEF HeldInv, Runs, Alive
  <2> QED
    BY <2>1, <2>2
<1>3. Runs(k) /\ Standing(k) /\ state'[k] = state[k]
  BY <1>2 DEF HeldInv, Standings
<1>4. \A j \in 1..made' : Runs(j)' /\ owner'[j] = owner[k] => j = k
  BY <1>2, <1>3 DEF Standing
<1>5. CASE owner[k] = c
  BY <1>3, <1>4, <1>5 DEF Standing
<1>6. CASE owner[k] # c
  BY <1>1, <1>3, <1>4, <1>6 DEF Standing
<1> QED
  BY <1>5, <1>6

\* The others, when a client moves.
LEMMA MoveAlone ==
  ASSUME TypeOK, NEW c \in Clients, NEW label, Goto(c, label)
  PROVE  pc'[c] = label /\ \A d \in Clients \ {c} : pc'[d] = pc[d]
BY DEF Goto, TypeOK, ClientTypes

\* A step that moves a client, and leaves the tunnels alone.
LEMMA MoveHolds ==
  ASSUME HeldInv, NEW c \in Clients, NEW label, Goto(c, label),
         pc[c] # "await", label \notin {"spawn", "await"},
         label = "idle" => op'[c] \notin {"close", "abort"},
         \A d \in Clients \ {c} : op'[d] = op[d],
         UNCHANGED <<alive, tunnelVars, process>>
  PROVE  Standings'
<1>1. pc'[c] = label /\ \A d \in Clients \ {c} : pc'[d] = pc[d]
  BY MoveAlone DEF HeldInv
<1>2. UNCHANGED <<alive, made, owner, state, process>>
  BY DEF tunnelVars
<1>3. \A k \in 1..made : owner[k] = c /\ Standing(k) =>
        /\ c \in WsClients => process'[c] = k
        /\ state[k] = "listening"
  BY <1>2 DEF Standing
<1> QED
  BY <1>1, <1>2, <1>3, ClientHolds

LEMMA BeginHolds ==
  ASSUME HeldInv, NEW c \in Clients, NEW o \in Ops, Begin(c, o)
  PROVE  Standings'
<1>1. PICK label \in {"tunnel", "idle", "exchange", "close"} :
        Goto(c, label) /\ (label = "idle" => o = "send")
  BY TunnelUseAssumption DEF Begin, OpKinds
<1>2. op'[c] = o /\ \A d \in Clients \ {c} : op'[d] = op[d]
  BY DEF Begin, HeldInv, TypeOK, ClientTypes
<1> QED
  BY <1>1, <1>2, MoveHolds DEF Begin, At

\* A cleanup ends every tunnel of the client, unless it ends the client: each has come
\* up, so that lsof and pkill both find it.
LEMMA CleanupEnds ==
  ASSUME "none" \notin Tools, HeldInv, NEW c \in Clients, Alone(c), Cleanup(c),
         pc[c] \in {"clean", "closing"}, Program[c] \in alive, Program[c] \in alive'
  PROVE  \A k \in 1..made : owner[k] = c => ~Alive(k)'
<1>0. PICK tool \in Tools :
        \E ks \in SUBSET Listed(tool, Port[c]), ps \in SUBSET Holders(tool, Port[c]) :
            /\ Program[c] \in ps \/ ks = Listed(tool, Port[c])
            /\ state' = Ended(ks)
            /\ alive' = alive \ ps
  BY DEF Cleanup
<1>1. PICK ks \in SUBSET Listed(tool, Port[c]), ps \in SUBSET Holders(tool, Port[c]) :
        /\ Program[c] \in ps \/ ks = Listed(tool, Port[c])
        /\ state' = Ended(ks)
        /\ alive' = alive \ ps
  BY <1>0
<1>2. tool \in {"lsof", "pkill"}
  BY TunnelUseAssumption DEF ToolKinds
<1>3. ASSUME NEW k \in 1..made, owner[k] = c PROVE ~Alive(k)'
  <2>1. k \in Tunnels /\ ks = Listed(tool, Port[c])
    BY <1>1 DEF HeldInv, TypeOK, TunnelTypes, Tunnels
  <2>2. CASE ~Alive(k)
    BY <1>1, <2>1, <2>2, EndedIs DEF HeldInv, Alive
  <2>3. CASE Alive(k)
    <3>1. state[k] = "listening"
      BY <1>3, <2>3 DEF HeldInv, Standings, Runs, Standing
    <3>2. k \in ks
      BY <1>2, <1>3, <2>1, <2>3, <3>1, OwnListeners DEF HeldInv, Listed
    <3> QED
      BY <1>1, <2>1, <2>3, <3>2, EndedIs DEF HeldInv, Alive
  <2> QED
    BY <2>2, <2>3
<1> QED
  BY <1>3

LEMMA CleansHold ==
  ASSUME "none" \notin Tools, HeldInv, NEW c \in Clients,
         ConnectCleans(c) \/ CloseCleans(c)
  PROVE  Standings'
<1>1. /\ Cleanup(c) /\ pc[c] \in {"clean", "closing"} /\ Program[c] \in alive
      /\ UNCHANGED <<made, owner, process>> /\ \E label : Goto(c, label)
  BY DEF ConnectCleans, CloseCleans, At, clientVars
<1>2. \A d \in Clients \ {c} : op'[d] = op[d] /\ pc'[d] = pc[d]
  BY <1>1, MoveAlone DEF ConnectCleans, CloseCleans, clientVars, HeldInv
<1>3. ASSUME Alone(c), NEW k \in 1..made, owner[k] = c PROVE ~Runs(k)'
  BY <1>1, <1>3, CleanupEnds DEF Runs
<1>4. alive' \subseteq alive /\ \E ks : state' = Ended(ks)
  BY <1>1 DEF Cleanup
<1> QED
  BY <1>1, <1>2, <1>3, <1>4, ClientHolds

LEMMA SpawnHolds ==
  ASSUME HeldInv, NEW c \in Clients, Spawn(c)
  PROVE  Standings'
<1>1. UNCHANGED <<alive, op>> /\ pc[c] = "spawn" /\ op[c] \notin {"close", "abort"}
  BY DEF Spawn, At, HeldInv, Closing
<1>2. Alone(c) => \A k \in 1..made : owner[k] = c => ~Runs(k)
  BY <1>1 DEF HeldInv, Standings, Standing
<1>3. CASE Goto(c, "idle") /\ UNCHANGED <<tunnelVars, process>>
  BY <1>1, <1>3, MoveHolds
<1>4. CASE /\ made < MaxTunnels /\ made' = made + 1
           /\ owner' = [owner EXCEPT ![made'] = c]
           /\ state' = [state EXCEPT ![made'] = "starting"]
           /\ process' = [process EXCEPT ![c] = made']
           /\ Goto(c, "await")
  <2>1. /\ pc'[c] = "await" /\ \A d \in Clients \ {c} : pc'[d] = pc[d]
        /\ process'[c] = made' /\ \A d \in Clients \ {c} : process'[d] = process[d]
    BY <1>4, MoveAlone DEF HeldInv, TypeOK, ClientTypes
  <2>2. PICK n \in Tunnels :
          /\ n = made' /\ 1..made' = 1..made \cup {n} /\ 1..made \subseteq Tunnels
          /\ n \notin 1..made /\ owner'[n] = c /\ state'[n] = "starting"
    BY <1>4 DEF HeldInv, TypeOK, TunnelTypes, Tunnels
  <2>3. \A k \in 1..made : owner'[k] = owner[k] /\ state'[k] = state[k] /\ owner[k] \in Clients
    BY <1>4, <2>2 DEF HeldInv, TypeOK, TunnelTypes, Tunnels
  <2>4. \A k \in 1..made : Runs(k)' => Runs(k)
    BY <1>1, <2>3 DEF Runs, Alive
  <2>5. Alone(c) => Standing(n)'
    BY <1>2, <2>1, <2>2, <2>3, <2>4 DEF Standing
  <2>6. ASSUME NEW k \in 1..made, Runs(k)', Alone(owner[k]) PROVE Standing(k)'
    <3>1. Standing(k) /\ owner[k] # c
      BY <1>2, <2>4, <2>6 DEF HeldInv, Standings
    <3>2. \A j \in 1..made' : Runs(j)' /\ owner'[j] = owner[k] => j = k
      BY <2>2, <2>3, <2>4, <3>1 DEF Standing
    <3> QED
      BY <1>1, <2>1, <2>3, <3>1, <3>2 DEF Standing
  <2> QED
    BY <2>2, <2>3, <2>5, <2>6 DEF Standings, Alone
<1> QED
  BY <1>3, <1>4 DEF Spawn

\* Who sees the port in use sees his own tunnel.
LEMMA InUseMeansUp ==
  ASSUME HeldInv, NEW c \in Clients, Alone(c)
  PROVE  InUse(c) <=> \E k \in 1..made : owner[k] = c /\ state[k] = "listening"
BY OwnListeners DEF HeldInv, InUse, Listeners, Of

LEMMA PollHolds ==
  ASSUME HeldInv, NEW c \in Clients, Poll(c)
  PROVE  Standings'
<1>1. /\ UNCHANGED <<alive, made, owner, op, process>> /\ pc[c] = "await" /\ c \in WsClients
      /\ Program[c] \in alive /\ process[c] \in 1..made /\ owner[process[c]] = c
  BY DEF Poll, At, HeldInv, TypeOK, TunnelTypes, ClientTypes, OwnTunnels
<1>2. /\ state' = state \/ state' = Ended({process[c]})
      /\ \A d \in Clients \ {c} : pc'[d] = pc[d]
      /\ pc'[c] \in {"socket", "idle"} /\ op[c] \notin {"close", "abort"}
  BY <1>1, MoveAlone DEF Poll, HeldInv, Closing
<1>3. ASSUME Alone(c), NEW k \in 1..made, owner[k] = c, Runs(k), Standing(k), Runs(k)',
             state'[k] = state[k]
      PROVE  process[c] = k /\ state[k] = "listening"
  <2>1. process[c] = k
    BY <1>1, <1>3 DEF Standing
  <2>2. CASE InUse(c)
    <3>1. PICK j \in 1..made : owner[j] = c /\ state[j] = "listening"
      BY <1>3, <2>2, InUseMeansUp
    <3>2. j = k
      BY <1>1, <1>3, <3>1 DEF Runs, Alive, Standing
    <3> QED
      BY <2>1, <3>1, <3>2
  <2>3. CASE ~Alive(process[c])
    BY <1>3, <2>1, <2>3 DEF Runs
  <2>4. CASE state' = Ended({process[c]})
    BY <1>3, <2>1, <2>4, EndedIs DEF HeldInv, Runs, Alive, TypeOK, TunnelTypes, Tunnels
  <2> QED
    BY <2>2, <2>3, <2>4 DEF Poll
<1> QED
  BY <1>1, <1>2, <1>3, ClientHolds

LEMMA RunReturnsHolds ==
  ASSUME HeldInv, NEW c \in Clients, RunReturns(c)
  PROVE  Standings'
<1>1. /\ UNCHANGED <<alive, made, owner, op>> /\ pc[c] = "await"
      /\ c \in HttpClients /\ c \notin WsClients
      /\ process[c] \in 1..made /\ owner[process[c]] = c
  BY DEF RunReturns, At, HeldInv, TypeOK, TunnelTypes, ClientTypes, OwnTunnels
<1>2. /\ state' = state \/ state' = Ended({process[c]})
      /\ \A d \in Clients \ {c} : pc'[d] = pc[d] /\ process'[d] = process[d]
      /\ pc'[c] \in {"check", "idle"} /\ op[c] \notin {"close", "abort"}
  BY <1>1, MoveAlone DEF RunReturns, HeldInv, Closing, TypeOK, ClientTypes
<1>3. ASSUME NEW k \in 1..made, owner[k] = c, Runs(k), Standing(k), Runs(k)'
      PROVE  state[k] = "listening"
  <2>1. process[c] = k /\ k \in Tunnels
    BY <1>1, <1>3 DEF Standing, HeldInv, TypeOK, TunnelTypes, Tunnels
  <2>2. CASE state' = Ended({process[c]})
    BY <1>3, <2>1, <2>2, EndedIs DEF HeldInv, Runs, Alive
  <2> QED
    BY <2>1, <2>2 DEF RunReturns
<1> QED
  BY <1>1, <1>2, <1>3, ClientHolds

LEMMA CloseHolds ==
  ASSUME HeldInv, NEW c \in Clients, Close(c)
  PROVE  Standings'
<1>1. /\ UNCHANGED <<alive, made, owner, op>> /\ pc[c] = "close"
      /\ pc'[c] = "closing" /\ state' = Ended({process[c]})
      /\ \A d \in Clients \ {c} : pc'[d] = pc[d] /\ process'[d] = process[d]
  BY MoveAlone DEF Close, At, HeldInv, TypeOK, ClientTypes
<1>2. ASSUME NEW k \in 1..made, owner[k] = c, Runs(k), Standing(k), Runs(k)'
      PROVE  c \notin WsClients /\ state[k] = "listening"
  <2>1. process[c] # k
    BY <1>1, <1>2, EndedIs DEF HeldInv, Runs, Alive, TypeOK, TunnelTypes, Tunnels
  <2> QED
    BY <1>1, <1>2, <2>1 DEF Standing
<1> QED
  BY <1>1, <1>2, ClientHolds

LEMMA ClientStepHolds ==
  ASSUME "none" \notin Tools, HeldInv, NEW c \in Clients, ClientStep(c)
  PROVE  Standings'
<1>1. CASE TunnelActive(c) \/ Check(c) \/ Socket(c) \/ Ready(c) \/ Exchange(c)
  <2>1. /\ pc[c] \in {"tunnel", "check", "socket", "ready", "exchange"}
        /\ UNCHANGED <<alive, tunnelVars, process>>
        /\ \A d \in Clients \ {c} : op'[d] = op[d]
    BY <1>1 DEF TunnelActive, Check, Socket, Ready, Exchange, At, clientVars, HeldInv,
       TypeOK, ClientTypes
  <2>2. PICK label \in {"clean", "socket", "idle", "ready", "exchange", "close"} :
          Goto(c, label) /\ (label = "idle" => op' = op)
    BY <1>1 DEF TunnelActive, Check, Socket, Ready, Exchange, Connected, clientVars
  <2>3. op[c] \notin {"close", "abort"}
    BY <2>1 DEF HeldInv, Closing
  <2> QED
    BY <2>1, <2>2, <2>3, MoveHolds
<1> QED
  BY <1>1, CleansHold, SpawnHolds, PollHolds, RunReturnsHolds, CloseHolds DEF ClientStep

LEMMA TunnelStepHolds ==
  ASSUME HeldInv, NEW k \in 1..made, TunnelListens(k) \/ TunnelEnds(k)
  PROVE  Standings'
<1>1. UNCHANGED <<alive, made, owner, pc, op, process>>
  BY DEF TunnelListens, TunnelEnds, clientVars
<1>2. ASSUME NEW j \in 1..made, Runs(j)'
      PROVE  Runs(j) /\ (state'[j] = state[j] \/ state'[j] = "listening")
  <2>1. j \in Tunnels /\ k \in Tunnels
    BY DEF HeldInv, TypeOK, TunnelTypes, Tunnels
  <2>2. CASE TunnelListens(k)
    BY <1>1, <1>2, <2>1, <2>2 DEF TunnelListens, Runs, Alive, HeldInv, TypeOK, TunnelTypes
  <2>3. CASE TunnelEnds(k)
    BY <1>1, <1>2, <2>1, <2>3, EndedIs DEF TunnelEnds, Runs, Alive, HeldInv
  <2> QED
    BY <2>2, <2>3
<1>3. SUFFICES ASSUME NEW j \in 1..made, Runs(j)', Alone(owner[j]) PROVE Standing(j)'
  BY <1>1 DEF Standings, Alone
<1>4. Standing(j)
  BY <1>2, <1>3 DEF HeldInv, Standings
<1>5. \A i \in 1..made' : Runs(i)' /\ owner'[i] = owner[j] => i = j
  BY <1>1, <1>2, <1>4 DEF Standing
<1> QED
  BY <1>1, <1>2, <1>3, <1>4, <1>5 DEF Standing

LEMMA NextHolds ==
  ASSUME "none" \notin Tools, HeldInv, [Next]_vars
  PROVE  HeldInv'
<1>1. TypeOK' /\ Closing'
  BY NextTypes, NextClosing DEF HeldInv
<1>2. ASSUME UNCHANGED vars PROVE Standings'
  BY <1>2 DEF vars, tunnelVars, clientVars, HeldInv, Standings, Runs, Alive, Standing
<1>3. ASSUME NEW c \in Clients, NEW o \in Ops, Begin(c, o) PROVE Standings'
  BY <1>3, BeginHolds
<1>4. Standings'
  BY <1>2, <1>3, ClientStepHolds, TunnelStepHolds DEF Next, AllCallsMade
<1> QED
  BY <1>1, <1>4 DEF HeldInv

\* While its program runs, a client that is alone on its port has at most one ssh
\* process, one that it ends when it connects anew or closes, and none once it is
\* closed: provided that lsof or pkill is there to find it by its port.
THEOREM TunnelsHeldCorrect ==
  ASSUME "none" \notin Tools
  PROVE  Spec => []TunnelsHeld
<1>1. Init => HeldInv
  BY InitTypes DEF Init, HeldInv, Closing, Standings
<1>2. HeldInv /\ [Next]_vars => HeldInv'
  BY NextHolds
<1> QED
  BY <1>1, <1>2, HeldMeansTunnelsHeld, PTL DEF Spec
=============================================================================
