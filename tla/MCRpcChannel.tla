---------------------------- MODULE MCRpcChannel ----------------------------
(***************************************************************************)
(* Calls over packets of ten bytes.  A read may end between two packets,   *)
(* in a header, at the last byte of a payload where the packet is not      *)
(* taken for complete, and at the first where it is.                       *)
(***************************************************************************)
EXTENDS RpcChannel

MCStreams == {"request", "response"}
MCCutPoints == {0, HeaderLen - 1, PayloadLen - 1, PayloadLen}
=============================================================================
