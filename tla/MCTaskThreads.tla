--------------------------- MODULE MCTaskThreads ---------------------------
(***************************************************************************)
(* Two threads, three entries and two calls to tell apart: the loop can    *)
(* give a thread a job while it has one and works on another, notify one   *)
(* that is about to wait, and run out of entries.                          *)
(***************************************************************************)
EXTENDS TaskThreads
=============================================================================
