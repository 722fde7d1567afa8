------------------------------- MODULE SSHTunnel -------------------------------
(****************************************************************************)
(* The tunnels of WebSocketOverSSHClient and HTTPOverSSHClient: ssh         *)
(* processes that forward a local port, made, found again and killed by     *)
(* the port's number. Each client is used by one thread of a program; what  *)
(* goes through a tunnel once it stands is WebSocketClient's and RestCall's *)
(* matter.                                                                  *)
(****************************************************************************)
EXTENDS Naturals

CONSTANTS
    WsClients,      \* WebSocketOverSSHClients
    HttpClients,    \* HTTPOverSSHClients
    Port,           \* the local port of each client
    Program,        \* the program each client belongs to
    Tools,          \* what _cleanup_port may find installed
    Ops,            \* the methods that are called
    AutoReconnect,  \* the auto_reconnect argument
    MaxCalls,       \* bound: calls of a client
    MaxTunnels      \* bound: ssh processes started

Clients == WsClients \cup HttpClients
Tunnels == 1..MaxTunnels

OpKinds   == {"connect", "reconnect", "close", "send"}
ToolKinds == {"lsof", "pkill", "none"}

ASSUME TunnelClientsAssumption == WsClients \cap HttpClients = {} /\ Clients # {}
ASSUME TunnelMapsAssumption == DOMAIN Port = Clients /\ DOMAIN Program = Clients
ASSUME TunnelUseAssumption ==
    /\ Tools \subseteq ToolKinds /\ Ops \subseteq OpKinds
    /\ AutoReconnect \in BOOLEAN
ASSUME TunnelBoundAssumption == MaxCalls \in Nat /\ MaxTunnels \in Nat

VARIABLES
    alive,      \* the programs that run
    \* the ssh processes
    made,       \* how many were started
    owner,      \* the client that started each
    state,      \* "none", "starting", "listening" on the port, or "ended"
    \* a client
    pc,
    op,         \* the method under way; "abort" once connect() gives up by close()
    calls,
    flag,       \* _tunnel_active or _connected
    process,    \* _ssh_process, or the ssh that HTTPOverSSHClient waits for; or 0
    ws          \* the tunnel that an open _ws goes through, or 0

tunnelVars == <<made, owner, state>>
clientVars == <<op, calls, flag, process, ws>>
vars       == <<alive, tunnelVars, pc, clientVars>>

Labels == {"idle", "tunnel", "clean", "spawn", "await", "check",
           "socket", "ready", "exchange", "close", "closing"}

Init ==
    /\ alive = {Program[c] : c \in Clients}
    /\ made = 0
    /\ owner = [k \in Tunnels |-> CHOOSE c \in Clients : TRUE]
    /\ state = [k \in Tunnels |-> "none"]
    /\ pc = [c \in Clients |-> "idle"]
    /\ op = [c \in Clients |-> "close"]
    /\ calls = [c \in Clients |-> 0]
    /\ flag = [c \in Clients |-> FALSE]
    /\ process = [c \in Clients |-> 0]
    /\ ws = [c \in Clients |-> 0]

Goto(c, label) == pc' = [pc EXCEPT ![c] = label]
At(c, label)   == pc[c] = label /\ Program[c] \in alive

Alive(k)        == state[k] \in {"starting", "listening"}
Of(port)        == {k \in 1..made : Port[owner[k]] = port}
Listeners(port) == {k \in Of(port) : state[k] = "listening"}

\* _is_port_in_use: whoever listens.
InUse(c) == Listeners(Port[c]) # {}

\* TERM, and KILL after that: they end what they hit.
Ended(ks) == [k \in Tunnels |-> IF k \in ks /\ Alive(k) THEN "ended" ELSE state[k]]

-----------------------------------------------------------------------------
(* _cleanup_port. lsof lists every process with a socket of that number,    *)
(* also the programs that have one open towards it; pkill looks for the     *)
(* number in the command lines of ssh. That the list is older than the      *)
(* signals makes no difference to those on it.                              *)

Listed(tool, port) ==
    CASE tool = "lsof"  -> Listeners(port)
      [] tool = "pkill" -> {k \in Of(port) : Alive(k)}
      [] tool = "none"  -> {}
Holders(tool, port) ==
    {p \in alive : tool = "lsof" /\ \E d \in Clients :
                        Program[d] = p /\ ws[d] # 0 /\ Port[d] = port}

\* Those listed are killed one after the other, until the caller is killed.
Cleanup(c) ==
    \E tool \in Tools :
        \E ks \in SUBSET Listed(tool, Port[c]), ps \in SUBSET Holders(tool, Port[c]) :
            /\ \/ Program[c] \in ps
               \/ ks = Listed(tool, Port[c]) /\ ps = Holders(tool, Port[c])
            /\ state' = Ended(ks)
            /\ alive' = alive \ ps

-----------------------------------------------------------------------------
(* Methods.                                                                 *)

\* _ensure_connected goes by the socket, and reconnects if it may.
Begin(c, o) ==
    /\ At(c, "idle") /\ calls[c] < MaxCalls
    /\ o = "send" => c \in WsClients
    /\ op' = [op EXCEPT ![c] = o]
    /\ calls' = [calls EXCEPT ![c] = @ + 1]
    /\ Goto(c, CASE o = "connect"              -> "tunnel"
                 [] o \in {"reconnect", "close"} -> "close"
                 [] o = "send" /\ ws[c] # 0    -> "exchange"
                 [] o = "send" /\ ws[c] = 0    -> IF AutoReconnect THEN "close" ELSE "idle")
    /\ UNCHANGED <<alive, tunnelVars, flag, process, ws>>

\* Mutation: HTTPOverSSHClient goes on as the WebSocket client does.
TunnelActiveSame(c) ==
    /\ At(c, "tunnel")
    /\ Goto(c, IF flag[c] /\ InUse(c) THEN "socket" ELSE "clean")
    /\ UNCHANGED <<alive, tunnelVars, clientVars>>

\* connect(): a flag, and a port that somebody listens on.
TunnelActive(c) ==
    /\ At(c, "tunnel")
    /\ Goto(c, IF ~(flag[c] /\ InUse(c)) THEN "clean"
               ELSE IF c \in WsClients THEN "socket" ELSE "idle")
    /\ UNCHANGED <<alive, tunnelVars, clientVars>>

ConnectCleans(c) ==
    /\ At(c, "clean")
    /\ Cleanup(c)
    /\ Goto(c, "spawn")
    /\ UNCHANGED <<made, owner, clientVars>>

\* ssh or sshpass may be missing, which raises.
Spawn(c) ==
    /\ At(c, "spawn")
    /\ \/ Goto(c, "idle") /\ UNCHANGED <<tunnelVars, process>>
       \/ /\ made < MaxTunnels
          /\ made' = made + 1
          /\ owner' = [owner EXCEPT ![made'] = c]
          /\ state' = [state EXCEPT ![made'] = "starting"]
          /\ process' = [process EXCEPT ![c] = made']
          /\ Goto(c, "await")
    /\ UNCHANGED <<alive, op, calls, flag, ws>>

\* Mutation: a tunnel that is late is left to itself.
PollNoTerminate(c) ==
    /\ At(c, "await") /\ c \in WsClients
    /\ \/ /\ InUse(c)
          /\ flag' = [flag EXCEPT ![c] = TRUE]
          /\ Goto(c, "socket")
       \/ Goto(c, "idle") /\ UNCHANGED flag
    /\ UNCHANGED <<alive, tunnelVars, op, calls, process, ws>>

\* Mutation: the tunnel is waited for without end.
PollForever(c) ==
    /\ At(c, "await") /\ c \in WsClients
    /\ \/ /\ InUse(c)
          /\ flag' = [flag EXCEPT ![c] = TRUE]
          /\ Goto(c, "socket")
       \/ ~InUse(c) /\ ~Alive(process[c]) /\ Goto(c, "idle") /\ UNCHANGED flag
    /\ UNCHANGED <<alive, tunnelVars, op, calls, process, ws>>

\* connect_tunnel polls the port, then the process, and terminates what is late;
\* between the last look and that the tunnel may have come up.
Poll(c) ==
    /\ At(c, "await") /\ c \in WsClients
    /\ \/ /\ InUse(c)
          /\ flag' = [flag EXCEPT ![c] = TRUE]
          /\ Goto(c, "socket") /\ UNCHANGED state
       \/ /\ ~InUse(c) /\ ~Alive(process[c])
          /\ Goto(c, "idle") /\ UNCHANGED <<flag, state>>
       \/ /\ state' = Ended({process[c]})
          /\ Goto(c, "idle") /\ UNCHANGED flag
    /\ UNCHANGED <<alive, made, owner, op, calls, process, ws>>

\* subprocess.run of ssh -f: it returns when the tunnel stands or has failed. A
\* timeout kills the process, but not the one a tunnel that stands runs in.
RunReturns(c) ==
    /\ At(c, "await") /\ c \in HttpClients
    /\ \/ /\ state[process[c]] = "listening"
          /\ Goto(c, "check") \/ Goto(c, "idle")
          /\ UNCHANGED state
       \/ /\ state[process[c]] # "listening"
          /\ state' = Ended({process[c]}) /\ Goto(c, "idle")
    /\ process' = [process EXCEPT ![c] = 0]
    /\ UNCHANGED <<alive, made, owner, op, calls, flag, ws>>

\* A second later.
Check(c) ==
    /\ At(c, "check")
    /\ flag' = [flag EXCEPT ![c] = @ \/ InUse(c)]
    /\ Goto(c, "idle")
    /\ UNCHANGED <<alive, tunnelVars, op, calls, process, ws>>

Connected(c) == Goto(c, IF op[c] = "send" THEN "exchange" ELSE "idle")

\* An open socket is as good as connected; a new one goes through whatever listens.
Socket(c) ==
    /\ At(c, "socket")
    /\ \/ ws[c] # 0 /\ Connected(c) /\ UNCHANGED ws
       \/ /\ ws[c] = 0
          /\ \/ Goto(c, "idle") /\ UNCHANGED ws
             \/ \E k \in Listeners(Port[c]) :
                   ws' = [ws EXCEPT ![c] = k] /\ Goto(c, "ready")
    /\ UNCHANGED <<alive, tunnelVars, op, calls, flag, process>>

\* A read that fails: a connection closed by the other side is closed by the
\* library too, a timeout or a reset leaves it open.
Broken(c) == ws' = [ws EXCEPT ![c] = 0] \/ UNCHANGED ws

\* The ready message and the answer to the password.
Ready(c) ==
    /\ At(c, "ready")
    /\ \/ state[ws[c]] = "listening" /\ Connected(c) /\ UNCHANGED <<op, ws>>
       \/ /\ state[ws[c]] = "listening"
          /\ op' = [op EXCEPT ![c] = "abort"] /\ Goto(c, "close") /\ UNCHANGED ws
       \/ Broken(c) /\ Goto(c, "idle") /\ UNCHANGED op
    /\ UNCHANGED <<alive, tunnelVars, calls, flag, process>>

\* A command and its response, or none.
Exchange(c) ==
    /\ At(c, "exchange")
    /\ Goto(c, "idle")
    /\ Broken(c)
    /\ UNCHANGED <<alive, tunnelVars, op, calls, flag, process>>

\* Mutation: the tunnel is closed before the socket.
CloseTunnelFirst(c) ==
    /\ At(c, "close")
    /\ process' = [process EXCEPT ![c] = 0]
    /\ state' = Ended({process[c]})
    /\ Goto(c, "closing")
    /\ UNCHANGED <<alive, made, owner, op, calls, flag, ws>>

\* close(): the socket, then the process, waited for and killed if it must be.
Close(c) ==
    /\ At(c, "close")
    /\ ws' = [ws EXCEPT ![c] = 0]
    /\ process' = [process EXCEPT ![c] = 0]
    /\ state' = Ended({process[c]})
    /\ Goto(c, "closing")
    /\ UNCHANGED <<alive, made, owner, op, calls, flag>>

CloseCleans(c) ==
    /\ At(c, "closing")
    /\ Cleanup(c)
    /\ flag' = [flag EXCEPT ![c] = FALSE]
    /\ Goto(c, IF op[c] \in {"reconnect", "send"} THEN "tunnel" ELSE "idle")
    /\ UNCHANGED <<made, owner, op, calls, process, ws>>

-----------------------------------------------------------------------------
(* ssh: with ExitOnForwardFailure a second listener ends at once; it ends    *)
(* too when it cannot log in and when the connection to the box is lost.     *)

TunnelListens(k) ==
    /\ state[k] = "starting" /\ Listeners(Port[owner[k]]) = {}
    /\ state' = [state EXCEPT ![k] = "listening"]
    /\ UNCHANGED <<alive, made, owner, pc, clientVars>>

TunnelEnds(k) ==
    /\ Alive(k)
    /\ state' = Ended({k})
    /\ UNCHANGED <<alive, made, owner, pc, clientVars>>

-----------------------------------------------------------------------------
ClientStep(c) ==
    \/ TunnelActive(c) \/ ConnectCleans(c) \/ Spawn(c) \/ Poll(c) \/ RunReturns(c)
    \/ Check(c) \/ Socket(c) \/ Ready(c) \/ Exchange(c) \/ Close(c) \/ CloseCleans(c)

\* The bound is reached: nothing more is called.
AllCallsMade ==
    /\ \A c \in Clients :
          Program[c] \in alive => pc[c] = "idle" /\ calls[c] = MaxCalls
    /\ UNCHANGED vars

Next ==
    \/ \E c \in Clients : ClientStep(c) \/ \E o \in Ops : Begin(c, o)
    \/ \E k \in 1..made : TunnelListens(k) \/ TunnelEnds(k)
    \/ AllCallsMade

Spec == Init /\ [][Next]_vars

\* A program's threads run, and lsof and pkill, which are called without a timeout,
\* come back; ssh may take as long as it likes.
FairSpec == Spec /\ \A c \in Clients : WF_vars(ClientStep(c))

-----------------------------------------------------------------------------
(* Properties.                                                              *)

TunnelTypes ==
    /\ alive \subseteq {Program[c] : c \in Clients}
    /\ made \in 0..MaxTunnels
    /\ owner \in [Tunnels -> Clients]
    /\ state \in [Tunnels -> {"none", "starting", "listening", "ended"}]
    /\ \A k \in Tunnels : state[k] = "none" <=> k > made

ClientTypes ==
    /\ pc \in [Clients -> Labels]
    /\ op \in [Clients -> OpKinds \cup {"abort"}]
    /\ calls \in [Clients -> 0..MaxCalls]
    /\ flag \in [Clients -> BOOLEAN]
    /\ process \in [Clients -> 0..made] /\ ws \in [Clients -> 0..made]

OwnTunnels ==
    \A c \in Clients :
        /\ process[c] # 0 => owner[process[c]] = c
        /\ pc[c] = "await" => process[c] # 0
        /\ pc[c] \in {"ready", "exchange"} => ws[c] # 0
        /\ c \in HttpClients => /\ ws[c] = 0
                                /\ pc[c] \notin {"socket", "ready", "exchange"}
                                /\ process[c] # 0 => pc[c] = "await"

\* Types, and that a client refers to tunnels of its own making.
TypeOK == TunnelTypes /\ ClientTypes /\ OwnTunnels

\* Nobody else uses its port.
Alone(c) == \A d \in Clients \ {c} : Port[d] # Port[c]

Runs(k) == Alive(k) /\ Program[owner[k]] \in alive

\* A client that is alone on its port has at most one ssh process: it has it in
\* _ssh_process, or it finds it by the port when it next connects or closes; and
\* after a close() it has none. A connect() that gives up, fails or times out, early
\* or late, leaves none behind that nobody can end.
TunnelsHeld ==
    \A k \in 1..made : Runs(k) /\ Alone(owner[k]) =>
        LET c == owner[k]
        IN  /\ process[c] = k \/ (c \in HttpClients /\ state[k] = "listening")
            /\ pc[c] = "idle" => op[c] \notin {"close", "abort"}
            /\ \A j \in 1..made : Runs(j) /\ owner[j] = c => j = k

\* A program is killed only by a cleanup of a port that a client of it has a socket
\* open to: another client's, or its own if connect() is called with the socket open,
\* and then the tunnel gone. close(), reconnect() and the reconnection of a command
\* do not signal their caller for what is left of their own connection.
KilledByPort ==
    [][\A p \in alive \ alive' : \E c \in Clients, d \in Clients :
          /\ pc[c] \in {"clean", "closing"} /\ pc'[c] # pc[c]
          /\ Program[d] = p /\ ws[d] # 0 /\ Port[d] = Port[c]
          /\ d = c => pc[c] = "clean" /\ op[c] = "connect"]_vars

\* Every method returns, whatever ssh and the service do or leave undone.
MethodsReturn ==
    \A c \in Clients : pc[c] # "idle" ~> (pc[c] = "idle" \/ Program[c] \notin alive)
=============================================================================
