------------------------------ MODULE MCWSConn ------------------------------
(* Bytes, a masking key and payloads for model checking WSConn.            *)
EXTENDS WSConn, Bitwise

MCByte     == 0 .. 7
MCKey      == <<3, 5, 0, 7>>
MCXor      == [a \in MCByte |-> [k \in MCByte |-> a ^^ k]]
MCPayloads == {<<1, 2>>, <<3, 4, 5>>}
=============================================================================
