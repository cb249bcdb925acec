--------------------------- MODULE DeferredCalls ---------------------------
(***************************************************************************)
(* What CMD_PUT_PENDOR and DMD_SCHED_RUN promise (Notitia.h:59-60): a call *)
(* that was put is kept until the scheduler makes it, each put is made at  *)
(* most once, never inside another deferred call, and a put comes to       *)
(* nothing only when the scheduler has no room left.  In which order the   *)
(* calls are made is left open.                                            *)
(***************************************************************************)
CONSTANTS Calls,    \* the calls (pupa, dir, from, pius) that clients defer
          Places,   \* room for one call each
          NoCall

VARIABLES pending,  \* the call held in each place, NoCall for none
          running,  \* the call being made, NoCall for none
          dropped   \* the last put came to nothing

vars == <<pending, running, dropped>>

Init ==
    /\ pending = [k \in Places |-> NoCall]
    /\ running = NoCall
    /\ dropped = FALSE

Keep(c, k) ==
    /\ pending[k] = NoCall
    /\ pending' = [pending EXCEPT ![k] = c]
    /\ dropped' = FALSE
    /\ UNCHANGED running

Drop ==
    /\ \A k \in Places : pending[k] # NoCall
    /\ dropped' = TRUE
    /\ UNCHANGED <<pending, running>>

Make(k) ==
    /\ running = NoCall
    /\ pending[k] # NoCall
    /\ running' = pending[k]
    /\ pending' = [pending EXCEPT ![k] = NoCall]
    /\ UNCHANGED dropped

Finish ==
    /\ running # NoCall
    /\ running' = NoCall
    /\ UNCHANGED <<pending, dropped>>

Next ==
    \/ \E c \in Calls, k \in Places : Keep(c, k)
    \/ Drop
    \/ \E k \in Places : Make(k)
    \/ Finish

Spec == Init /\ [][Next]_vars
=============================================================================
