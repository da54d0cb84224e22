----------------------------- MODULE MCRpcCodec -----------------------------
(* Identifiers with one and two significant bytes, and payloads shorter    *)
(* and longer than the one the buffer last held.                           *)
EXTENDS RpcCodec

MCIds      == {7, 258}
MCPayloads == {<<>>, <<9>>, <<1, 2, 3>>}
=============================================================================
