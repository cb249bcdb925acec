----------------------------- MODULE LossyQueue -----------------------------
(***************************************************************************)
(* What a buffer in front of a channel promises: what it is given goes out *)
(* once at most and in the order in which it came.  It may lose data, but  *)
(* from one end of the queue, with nothing lost between what is kept.      *)
(***************************************************************************)
EXTENDS Naturals, Sequences

CONSTANTS Data, NoData

VARIABLES queue,  \* what has been accepted and has not gone out
          sent    \* what went out last

Init == queue = << >> /\ sent = NoData

Accept(d) == queue' = Append(queue, d) /\ UNCHANGED sent

Deliver ==
    /\ queue # << >>
    /\ sent' = Head(queue)
    /\ queue' = Tail(queue)

\* The oldest n are lost.
LoseOldest(n) == queue' = SubSeq(queue, n + 1, Len(queue)) /\ UNCHANGED sent

\* All but the oldest n are lost, perhaps to make room for one more.
LoseNewest(n) == queue' = SubSeq(queue, 1, n) /\ UNCHANGED sent
Replace(n, d) == queue' = Append(SubSeq(queue, 1, n), d) /\ UNCHANGED sent

Next ==
    \/ \E d \in Data : Accept(d)
    \/ Deliver
    \/ \E n \in 0 .. Len(queue) :
          \/ LoseOldest(n) \/ LoseNewest(n)
          \/ \E d \in Data : Replace(n, d)

Spec == Init /\ [][Next]_<<queue, sent>>
=============================================================================
