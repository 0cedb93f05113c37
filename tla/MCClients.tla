----------------------------- MODULE MCClients -----------------------------
(***************************************************************************)
(* Clients with two runs of the command, which meet before there is a      *)
(* service, while it loads, serves or ends, or when it is dead.            *)
(***************************************************************************)
EXTENDS Clients
=============================================================================
