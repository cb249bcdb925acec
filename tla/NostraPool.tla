---------------------------- MODULE NostraPool ----------------------------
(***************************************************************************)
(* Nostra (nostra/Nostra.cpp): the pool of session objects.  A listener    *)
(* (Tcpsrvuna::new_conn_pro) or a distributor (Seque::appoint) borrows an  *)
(* object with CMD_ALLOC_IDLE, and the object gives itself back with       *)
(* CMD_FREE_IDLE when its session is over.  Threads that work for a        *)
(* session hold the object by CMD_INCR_REFS until CMD_DECR_REFS.           *)
(*                                                                         *)
(* The objects are numbered in the order they are cloned.  A list node is  *)
(* an index into the array we; the node of an object that is lent waits on *)
(* the stack filius until some object is given back.                       *)
(*                                                                         *)
(* The borrowers keep the discipline that Tcpsrvuna (the test of connfd)   *)
(* and Seque (gather) enforce: an object gives itself back once per loan.  *)
(* They send one order at a time; what two threads that count references   *)
(* at the same moment would do to the int refs is left out.                *)
(***************************************************************************)
EXTENDS Integers, Sequences, FiniteSets

CONSTANTS maxium,       \* most objects
          growth_rate,  \* how many are cloned when none is idle
          seed,         \* how many are cloned at the start, the root's included
          radical,      \* this Nostra is the root: only then the seed counts
          RefBound      \* bound on the references to one object

ASSUME MaxiumAssumption == maxium \in Nat \ {0, 1}
ASSUME GrowthAssumption == growth_rate \in Nat
ASSUME SeedAssumption == seed \in Nat \ {0} /\ radical \in BOOLEAN
ASSUME RefBoundAssumption == RefBound \in Nat

Objs == 1 .. maxium
NoObj == 0
Nodes == 0 .. maxium - 1

VARIABLES
    que,        \* the ring of nodes, the next to go first
    me,         \* the object a node stands for
    filius,     \* the stack of nodes without an object
    child_num,  \* objects cloned so far
    status,     \* of each object
    refs,       \* of each object
    indic       \* the answer to the last CMD_ALLOC_IDLE

pool == <<que, me, filius, child_num>>
vars == <<pool, status, refs, indic>>

TypeOK ==
    /\ que \in Seq(Nodes)
    /\ me \in [Nodes -> Objs \cup {NoObj}]
    /\ filius \in Seq(Nodes)
    /\ Len(filius) <= maxium
    /\ child_num \in 0 .. maxium
    /\ status \in [Objs -> {"IDLE", "BUSY", "RECLAIM"}]
    /\ refs \in [Objs -> 0 .. RefBound]
    /\ indic \in Objs \cup {NoObj}

AtMost(a, b) == IF a < b THEN a ELSE b

\* que and me after n more objects were cloned and stored, que being empty.
Queued(n) == [k \in 1 .. n |-> child_num + k - 1]
Stored(n) ==
    [d \in Nodes |-> IF d \in child_num .. child_num + n - 1 THEN d + 1 ELSE me[d]]

\* IGNITE_ALL_READY has been handled.
Init ==
    LET n == IF radical THEN AtMost(seed, maxium) - 1 ELSE 0
    IN  /\ que = [k \in 1 .. n |-> k - 1]
        /\ me = [d \in Nodes |-> IF d < n THEN d + 1 ELSE NoObj]
        /\ filius = << >>
        /\ child_num = n
        /\ status = [o \in Objs |-> "IDLE"]
        /\ refs = [o \in Objs |-> 0]
        /\ indic = NoObj

(***************************************************************************)
(* CMD_ALLOC_IDLE.                                                         *)
(***************************************************************************)
\* G_CFG::get on the ring q, whose nodes stand for the objects m.
\* (mutants of Get) the newest goes first; the node is not saved.
GetNewest(q, m) ==
    LET d == q[Len(q)]
    IN  /\ que' = SubSeq(q, 1, Len(q) - 1)
        /\ filius' = Append(filius, d)
        /\ status' = [status EXCEPT ![m[d]] = "BUSY"]
        /\ indic' = m[d]

GetDropsNode(q, m) ==
    /\ que' = Tail(q)
    /\ UNCHANGED filius
    /\ status' = [status EXCEPT ![m[Head(q)]] = "BUSY"]
    /\ indic' = m[Head(q)]

Get(q, m) ==
    /\ que' = Tail(q)
    /\ filius' = Append(filius, Head(q))
    /\ status' = [status EXCEPT ![m[Head(q)]] = "BUSY"]
    /\ indic' = m[Head(q)]

AllocIdle ==
    /\ que # << >>
    /\ Get(que, me)
    /\ UNCHANGED <<me, child_num, refs>>

HereNum == AtMost(growth_rate, maxium - child_num)

AllocGrown ==
    /\ que = << >>
    /\ HereNum > 0
    /\ Get(Queued(HereNum), Stored(HereNum))
    /\ me' = Stored(HereNum)
    /\ child_num' = child_num + HereNum
    /\ UNCHANGED refs

\* The limit is reached, or growth_rate is 0.
NoneToGive == que = << >> /\ HereNum = 0

AllocRefused ==
    /\ NoneToGive
    /\ indic' = NoObj
    /\ UNCHANGED <<pool, status, refs>>

(***************************************************************************)
(* CMD_FREE_IDLE, CMD_INCR_REFS, CMD_DECR_REFS.                            *)
(***************************************************************************)
\* The rest of G_CFG::put for an object without references.  The code returns
\* early when filius is empty, which it never is (RoomForEachLoan).
PutBack(o) ==
    /\ status' = [status EXCEPT ![o] = "IDLE"]
    /\ filius # << >>
    /\ me' = [me EXCEPT ![filius[Len(filius)]] = o]
    /\ que' = Append(que, filius[Len(filius)])
    /\ filius' = SubSeq(filius, 1, Len(filius) - 1)

CMD_FREE_IDLE(o) ==
    /\ status[o] = "BUSY"
    /\ IF refs[o] > 0
       THEN /\ status' = [status EXCEPT ![o] = "RECLAIM"]
            /\ UNCHANGED <<que, me, filius>>
       ELSE PutBack(o)
    /\ UNCHANGED <<child_num, refs, indic>>

\* The borrower starts a thread.
CMD_INCR_REFS(o) ==
    /\ status[o] = "BUSY"
    /\ refs[o] < RefBound
    /\ refs' = [refs EXCEPT ![o] = @ + 1]
    /\ UNCHANGED <<pool, status, indic>>

\* (mutant of CMD_DECR_REFS) the object is not put back.
CMD_DECR_REFS_Only(o) ==
    /\ refs[o] > 0
    /\ refs' = [refs EXCEPT ![o] = @ - 1]
    /\ UNCHANGED <<que, me, filius, status, child_num, indic>>

CMD_DECR_REFS(o) ==
    /\ refs[o] > 0
    /\ refs' = [refs EXCEPT ![o] = @ - 1]
    /\ IF refs'[o] = 0 /\ status[o] = "RECLAIM"
       THEN PutBack(o)
       ELSE UNCHANGED <<que, me, filius, status>>
    /\ UNCHANGED <<child_num, indic>>

Next ==
    \/ AllocIdle \/ AllocGrown \/ AllocRefused
    \/ \E o \in Objs : CMD_FREE_IDLE(o) \/ CMD_INCR_REFS(o) \/ CMD_DECR_REFS(o)

\* A thread that works for a session ends.
Fairness == \A o \in Objs : WF_vars(CMD_DECR_REFS(o))

Spec == Init /\ [][Next]_vars /\ Fairness

(***************************************************************************)
(* Properties.                                                             *)
(***************************************************************************)
Out == {o \in Objs : status[o] # "IDLE"}

\* Every node of we below child_num is in the ring or on the stack, once: no
\* order of loans and returns, which need not come back in the order they were
\* made, loses a node or links it twice (Nostra.cpp:83-93,116-119).
NodesAccounted ==
    /\ \A d \in Nodes : d < child_num <=>
          (\E k \in 1 .. Len(que) : que[k] = d) \/ (\E k \in 1 .. Len(filius) : filius[k] = d)
    /\ Len(que) + Len(filius) = child_num

\* The stack holds a node for each object that is out, so put finds one
\* (Nostra.cpp:110-113).
RoomForEachLoan == Len(filius) = Cardinality(Out)

\* CMD_ALLOC_IDLE says no only when all maxium objects are out or waiting to be
\* reclaimed, provided the pool may grow at all: no object is forgotten
\* (Nostra.cpp:279-290).
RefusedOnlyWhenOut == NoneToGive /\ growth_rate > 0 => Out = Objs

\* An object is lent to nobody while threads still refer to it
\* (Nostra.cpp:103-107,234-237).
LentUnreferenced ==
    [][\A o \in Objs : status[o] # "BUSY" /\ status'[o] = "BUSY" => refs[o] = 0]_vars

\* The pool keeps the promise of ObjectPool.
Pool == INSTANCE ObjectPool WITH
    idle <- [k \in 1 .. Len(que) |-> me[que[k]]],
    lent <- {o \in Objs : status[o] = "BUSY"},
    awaited <- {o \in Objs : status[o] = "RECLAIM"},
    answer <- indic
KeepsItsPromise == Pool!Spec

\* An object given back while threads refer to it comes back into the pool.
Reclaimed == \A o \in Objs : status[o] = "RECLAIM" ~> status[o] = "IDLE"
=============================================================================
