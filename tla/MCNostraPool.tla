---------------------------- MODULE MCNostraPool ----------------------------
(***************************************************************************)
(* NostraPool with a limit that the growth rate does not divide, so that   *)
(* the pool grows twice, by two and by one, and loans end in any order.    *)
(***************************************************************************)
EXTENDS NostraPool
=============================================================================
