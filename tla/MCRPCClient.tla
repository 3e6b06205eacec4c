---------------------------- MODULE MCRPCClient ----------------------------
(* The instance of RPCClient for model checking: one Call and one Ping.    *)
EXTENDS RPCClientProofs
=============================================================================
