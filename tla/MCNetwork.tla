----------------------------- MODULE MCNetwork -----------------------------
(***************************************************************************)
(* Three clients for TLC and a server with room for two of them.           *)
(***************************************************************************)
EXTENDS Network

CONSTANTS c1, c2, c3

ThreeClients == {c1, c2, c3}
=============================================================================
