------------------------------ MODULE MCRpcCall -------------------------------
(* Three calls of two attempts, and three troubles that hit any of them. *)
EXTENDS RpcCall
=============================================================================
