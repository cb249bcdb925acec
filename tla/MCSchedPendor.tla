--------------------------- MODULE MCSchedPendor ---------------------------
(***************************************************************************)
(* SchedPendor with two kinds of call and an array of three: one slot      *)
(* below, at and above the one that is being run.                          *)
(***************************************************************************)
EXTENDS SchedPendor

CONSTANTS c1, c2
MCCalls == {c1, c2}
=============================================================================
