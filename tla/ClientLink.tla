------------------------------ MODULE ClientLink ------------------------------
(****************************************************************************)
(* What one user of a WebSocketClient over a direct connection may rely on: *)
(* each call ends once, in one of the ways ClientEnds lists, and leaves the *)
(* client reading as it says there. A client that reads as connected stays  *)
(* so until a call, or close(), notices or decides otherwise.               *)
(****************************************************************************)
EXTENDS ClientEnds

CONSTANT AutoReconnect    \* auto_reconnect of the client

VARIABLES
    link,       \* what the client shows of its connection
    task,       \* the call under way
    answer      \* how the last call ended

vars == <<link, task, answer>>

Tasks == {"connect", "reconnect", "close", "use", "listen"}

Init == link = "off" /\ task = "idle" /\ answer = "ok"

Begin ==
    /\ task = "idle"
    /\ task' \in Tasks /\ answer' = "none"
    /\ UNCHANGED link

Ends(result) == task' = "idle" /\ answer' = result

\* close(), by itself or in a reconnect().
Close ==
    /\ task \in {"close", "reconnect"}
    /\ link' = "off"
    /\ \/ task = "close" /\ Ends("ok")
       \/ task = "reconnect" /\ task' = "connect" /\ UNCHANGED answer

\* connect() of a client that reads as connected does nothing.
AlreadyConnected ==
    /\ task = "connect" /\ link # "off"
    /\ Ends("ok") /\ UNCHANGED link

\* connect(), or the reconnection before a send() or a listen(), which goes on.
Connect ==
    /\ link = "off"
    /\ task = "connect" \/ (task \in {"use", "listen"} /\ AutoReconnect)
    /\ \E end \in ConnectEnds :
          /\ link' = end[1]
          /\ \/ end[2] = "ok" /\ task # "connect" /\ UNCHANGED <<task, answer>>
             \/ ~(end[2] = "ok" /\ task # "connect") /\ Ends(end[2])

Refused ==
    /\ link = "off" /\ task \in {"use", "listen"} /\ ~AutoReconnect
    /\ Ends("unavailable") /\ UNCHANGED link

Exchange ==
    /\ task = "use" /\ link # "off"
    /\ \E end \in ExchangeEnds(link) : link' = end[1] /\ Ends(end[2])

\* listen() returns when the callback says so, nothing arrives or the service
\* hangs up.
Listen ==
    /\ task = "listen"
    /\ \/ link = "on" /\ link' \in {"on", "off"} /\ Ends("ok")
       \/ link = "dead" /\ Ends("crash") /\ UNCHANGED link

\* The network resets the connection.
Breaks == link = "on" /\ link' = "dead" /\ UNCHANGED <<task, answer>>

Next ==
    \/ Begin \/ Close \/ AlreadyConnected \/ Connect \/ Refused \/ Exchange \/ Listen
    \/ Breaks

Spec == Init /\ [][Next]_vars
=============================================================================
