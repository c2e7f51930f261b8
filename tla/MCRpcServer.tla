------------------------------ MODULE MCRpcServer -----------------------------
(* Four connections: several handlers at a time and slots that are used again. *)
EXTENDS RpcServer
=============================================================================
