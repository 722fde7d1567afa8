------------------------------ MODULE ClientEnds ------------------------------
(****************************************************************************)
(* What a WebSocketClient over a direct connection shows of itself, and how *)
(* its calls end: the words that the manager, the abstract client of one    *)
(* user (ClientLink) and the detailed one share.                            *)
(****************************************************************************)

\* `connected` reads False; it reads True; it does, but a reset is unnoticed.
Links   == {"off", "on", "dead"}
Answers == {"none", "ok", "rejected", "unavailable", "denied", "timeout", "crash"}

\* connect() of a client that reads as unconnected. A timeout leaves the socket
\* open, so does an OSError of the library.
ConnectEnds ==
    {<<"on", "ok">>, <<"off", "unavailable">>, <<"off", "denied">>,
     <<"on", "timeout">>, <<"dead", "crash">>}

\* send() and send_batch(). A service that hung up is noticed, a reset is not. A
\* socket closed under the thread's feet ends the exchange one way or the other. A
\* crash over a connection that stood when the exchange began is a crash over one that
\* is reset ("dead") or closed ("off") first, which are steps of their own.
ExchangeEnds(state) ==
    CASE state = "on"   -> {<<"on", a>> : a \in {"ok", "rejected", "timeout", "unavailable"}}
                           \cup {<<"off", "unavailable">>}
      [] state = "dead" -> {<<"dead", "crash">>}
      [] state = "off"  -> {<<"off", a>> : a \in {"ok", "rejected", "timeout",
                                                  "unavailable", "crash"}}
=============================================================================
