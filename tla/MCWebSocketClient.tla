--------------------------- MODULE MCWebSocketClient ---------------------------
(* The methods the threads of the instances of WebSocketClient call. *)
EXTENDS WebSocketClient

AllOps     == OpKinds
SessionOps == {"send", "batch", "connect", "close"}
=============================================================================
