------------------------------ MODULE WatchSet ------------------------------
(***************************************************************************)
(* What the modules that use the scheduler need to know of a pool of       *)
(* criptors (Sched::Tor_Pool): which criptors it watches, and which        *)
(* descriptors select is asked for.  The slots only order the calls.       *)
(* SelectLoopProofs shows that the pool of TorPool keeps this while it is  *)
(* not full.                                                               *)
(***************************************************************************)
NoneWatched == [on |-> {}, bits |-> {}]

Watch(w, t, fd) ==
    IF t \in w.on THEN w ELSE [on |-> w.on \cup {t}, bits |-> w.bits \cup {fd}]

Unwatch(w, t, fd) == [on |-> w.on \ {t}, bits |-> w.bits \ {fd}]

\* FD_ZERO(&rwSet) after a select that failed: nobody is taken out.
Zero(w) == [w EXCEPT !.bits = {}]
=============================================================================
