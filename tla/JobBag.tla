------------------------------- MODULE JobBag -------------------------------
(***************************************************************************)
(* What TPoll promises of the calls that its loop hands to threads: each   *)
(* is made once, as it was given, by one thread, which makes one call at a *)
(* time.  Nothing is promised of their order.                              *)
(***************************************************************************)
CONSTANTS Jobs,    \* what keeps apart the calls given
          Calls,   \* an object and the message it is to get
          NoCall,
          Threads

VARIABLES owed,    \* the calls given and not begun
          making   \* the call that each thread is in

Init ==
    /\ owed = [j \in Jobs |-> NoCall]
    /\ making = [t \in Threads |-> NoCall]

Give(j, c) ==
    /\ owed[j] = NoCall
    /\ owed' = [owed EXCEPT ![j] = c]
    /\ UNCHANGED making

Begin(t, j) ==
    /\ making[t] = NoCall
    /\ owed[j] # NoCall
    /\ making' = [making EXCEPT ![t] = owed[j]]
    /\ owed' = [owed EXCEPT ![j] = NoCall]

End(t) ==
    /\ making[t] # NoCall
    /\ making' = [making EXCEPT ![t] = NoCall]
    /\ UNCHANGED owed

Next ==
    \/ \E j \in Jobs, c \in Calls : Give(j, c)
    \/ \E t \in Threads, j \in Jobs : Begin(t, j)
    \/ \E t \in Threads : End(t)

Spec == Init /\ [][Next]_<<owed, making>>
=============================================================================
