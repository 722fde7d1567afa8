---------------------------- MODULE MCCallboxManager ----------------------------
(****************************************************************************)
(* What TLC needs to check CallboxManager: the services, and the order in   *)
(* which the manager takes them.                                            *)
(****************************************************************************)
EXTENDS CallboxManager

CONSTANTS enb, mme

MCOrder   == <<enb, mme>>
MCEnbOnly == <<enb>>
=============================================================================
