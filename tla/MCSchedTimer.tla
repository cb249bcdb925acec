---------------------------- MODULE MCSchedTimer ----------------------------
(***************************************************************************)
(* SchedTimer with three clients: the one called, one before and one       *)
(* behind it in the table; alarms set at different clicks go off at        *)
(* different ones.                                                         *)
(***************************************************************************)
EXTENDS SchedTimer

CONSTANTS p1, p2, p3
MCPupas == {p1, p2, p3}
MCIntervals == {2}
=============================================================================
