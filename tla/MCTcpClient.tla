---------------------------- MODULE MCTcpClient ----------------------------
(***************************************************************************)
(* TcpClient with two descriptor numbers beside the other client's, so     *)
(* that a new socket may have the number of the last one or another.       *)
(***************************************************************************)
EXTENDS TcpClient

MCFds == {4, 5, 6}
=============================================================================
