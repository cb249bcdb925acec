---------------------------- MODULE MCTcpServer ----------------------------
(***************************************************************************)
(* TcpServer with two objects to lend and three descriptor numbers, so     *)
(* that numbers and objects are used again at once, and both run out.      *)
(***************************************************************************)
EXTENDS TcpServer

CONSTANTS c1, c2, Fd1, Fd2, Fd3

MCChildren == {c1, c2}
MCFds == {Fd1, Fd2, Fd3}
=============================================================================
