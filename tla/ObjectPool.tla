---------------------------- MODULE ObjectPool ----------------------------
(***************************************************************************)
(* What Nostra promises the modules that borrow session objects from it:   *)
(* an object has one borrower at a time; the one that has been idle        *)
(* longest is lent first, and more are made only when none is idle; an     *)
(* object that threads still refer to when it is given back is not lent    *)
(* again before the last of them let go.                                   *)
(***************************************************************************)
EXTENDS Integers, Sequences

CONSTANTS Objs,     \* the objects that can be made
          NoObj     \* the answer when none can be had

VARIABLES idle,     \* the objects that can be lent, longest idle first
          lent,     \* the objects with a borrower
          awaited,  \* the objects given back that threads still refer to
          answer    \* what the last borrower got

vars == <<idle, lent, awaited, answer>>

Distinct(s) == \A a, b \in 1 .. Len(s) : s[a] = s[b] => a = b

Init ==
    /\ idle \in Seq(Objs)
    /\ Distinct(idle)
    /\ lent = {}
    /\ awaited = {}
    /\ answer = NoObj

LendIdle ==
    /\ idle # << >>
    /\ answer' = Head(idle)
    /\ idle' = Tail(idle)
    /\ lent' = lent \cup {answer'}
    /\ UNCHANGED awaited

LendNew ==
    /\ idle = << >>
    /\ answer' \in Objs \ (lent \cup awaited)
    /\ idle' \in Seq(Objs \ (lent \cup awaited \cup {answer'}))
    /\ Distinct(idle')
    /\ lent' = lent \cup {answer'}
    /\ UNCHANGED awaited

Refuse ==
    /\ idle = << >>
    /\ answer' = NoObj
    /\ UNCHANGED <<idle, lent, awaited>>

GiveBack(o) ==
    /\ o \in lent
    /\ lent' = lent \ {o}
    /\ \/ idle' = Append(idle, o) /\ UNCHANGED awaited
       \/ awaited' = awaited \cup {o} /\ UNCHANGED idle
    /\ UNCHANGED answer

LastLetsGo(o) ==
    /\ o \in awaited
    /\ awaited' = awaited \ {o}
    /\ idle' = Append(idle, o)
    /\ UNCHANGED <<lent, answer>>

Next ==
    \/ LendIdle \/ LendNew \/ Refuse
    \/ \E o \in Objs : GiveBack(o) \/ LastLetsGo(o)

Spec == Init /\ [][Next]_vars
=============================================================================
