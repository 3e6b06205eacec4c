---------------------------- MODULE MCRPCServer ----------------------------
(* The instance of RPCServer for model checking.                           *)
EXTENDS RPCServerProofs
=============================================================================
