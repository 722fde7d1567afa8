------------------------------ MODULE MCSSHTunnel ------------------------------
(****************************************************************************)
(* What TLC needs to check SSHTunnel: the ports and programs of the clients. *)
(****************************************************************************)
EXTENDS SSHTunnel

\* One program, and a port for each client.
OwnPorts   == [c \in Clients |-> c]
OneProgram == [c \in Clients |-> "program"]
=============================================================================
