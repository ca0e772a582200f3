---------------------------- MODULE MCTcpServer ----------------------------
(***************************************************************************)
(* One loop thread or two, and two connections, which are on the same loop *)
(* or on different ones; the lowest number is used again.                  *)
(***************************************************************************)
EXTENDS TcpServer

MCLoops == 1 .. 2
MCConns == 1 .. 2
MCFds == {7, 8, 9}
=============================================================================
