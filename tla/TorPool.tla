------------------------------ MODULE TorPool ------------------------------
(***************************************************************************)
(* Sched::Tor_Pool (src/sched/Sched.cpp:66-88,366-402): the table in which *)
(* the select scheduler keeps the descriptors (Describo::Criptor) it       *)
(* watches for one kind of readiness.  Sched holds three of them, rd_tors, *)
(* wr_tors and ex_tors.                                                    *)
(*                                                                         *)
(* A pool is a record                                                      *)
(*    cur    the first slot above which nothing was ever placed            *)
(*    house  the stack of the slots below cur that were vacated            *)
(*    pool   the criptor in each slot, NoTor for a null pointer            *)
(*    rwSet  the fd_set handed to select                                   *)
(*    index  the Criptor field (rd_index, wr_index or ex_index) by which   *)
(*           the pool remembers where it put a criptor, -1 for nowhere     *)
(* so that the specifications holding one, two or three pools share these  *)
(* operators and the lemmas about them.                                    *)
(***************************************************************************)
EXTENDS Integers, Sequences

CONSTANTS Tors,      \* the criptors, one per client object
          Fds,       \* descriptor numbers
          TOR_SIZE,  \* FD_SETSIZE
          NoTor      \* the null pointer

ASSUME TorSizeAssumption == TOR_SIZE \in Nat \ {0}
ASSUME NoTorAssumption == NoTor \notin Tors

Slots == 0 .. TOR_SIZE - 1

(***************************************************************************)
(* The operations.                                                         *)
(***************************************************************************)
EmptyPool ==
    [cur   |-> 0,
     house |-> << >>,
     pool  |-> [s \in Slots |-> NoTor],
     rwSet |-> {},
     index |-> [t \in Tors |-> -1]]

Watched(p) == {t \in Tors : p.index[t] >= 0}

\* setup would return -1: the criptor is new, no slot was vacated, and the
\* array is used up.
Refuses(p, t) == t \notin Watched(p) /\ p.house = << >> /\ p.cur = TOR_SIZE

\* Place t, whose descriptor is fd, in slot s.
Occupy(p, t, fd, s, newCur, newHouse) ==
    [cur   |-> newCur,
     house |-> newHouse,
     pool  |-> [p.pool EXCEPT ![s] = t],
     rwSet |-> p.rwSet \cup {fd},
     index |-> [p.index EXCEPT ![t] = s]]

\* A criptor that already has a slot is left as it is: the code jumps over
\* FD_SET ("goto GIVE").
Setup(p, t, fd) ==
    IF t \in Watched(p) \/ Refuses(p, t)
    THEN p
    ELSE IF p.house # << >>
         THEN Occupy(p, t, fd, p.house[Len(p.house)], p.cur,
                     SubSeq(p.house, 1, Len(p.house) - 1))
         ELSE Occupy(p, t, fd, p.cur, p.cur + 1, p.house)

\* The slot of t becomes free: the topmost one lowers cur, another one goes on
\* the stack.
Vacate(p, t) ==
    LET s   == p.index[t]
        top == p.cur - s = 1
    IN  [cur   |-> IF top THEN p.cur - 1 ELSE p.cur,
         house |-> IF top THEN p.house ELSE Append(p.house, s),
         pool  |-> [p.pool EXCEPT ![s] = NoTor],
         rwSet |-> p.rwSet,
         index |-> [p.index EXCEPT ![t] = -1]]

\* (mutant of Clear) the fd_set keeps the bit.
ClearKeepsBit(p, t, fd) ==
    IF t \notin Watched(p)
    THEN p
    ELSE [Vacate(p, t) EXCEPT !.rwSet = p.rwSet]

\* FD_CLR comes before the test that the criptor is in the pool at all.
Clear(p, t, fd) ==
    IF t \notin Watched(p)
    THEN [p EXCEPT !.rwSet = @ \ {fd}]
    ELSE [Vacate(p, t) EXCEPT !.rwSet = @ \ {fd}]

\* FD_ZERO(&rwSet) after a select that failed: the slots stay as they are.
Zero(p) == [p EXCEPT !.rwSet = {}]

(***************************************************************************)
(* What holds of every pool between two operations.                        *)
(***************************************************************************)
PoolType(p) ==
    p \in [cur   : 0 .. TOR_SIZE,
           house : Seq(Slots),
           pool  : [Slots -> Tors \cup {NoTor}],
           rwSet : SUBSET Fds,
           index : [Tors -> Slots \cup {-1}]]

\* The house holds exactly the vacant slots below cur, each of them once.
HouseIsHoles(p) ==
    /\ \A a, b \in 1 .. Len(p.house) : p.house[a] = p.house[b] => a = b
    /\ \A a \in 1 .. Len(p.house) :
          p.house[a] < p.cur /\ p.pool[p.house[a]] = NoTor
    /\ \A s \in Slots : p.pool[s] = NoTor /\ s < p.cur =>
          \E a \in 1 .. Len(p.house) : p.house[a] = s
    /\ \A s \in Slots : s >= p.cur => p.pool[s] = NoTor

\* A slot and its criptor point at each other.
IndexIsSlot(p) ==
    /\ \A s \in Slots : p.pool[s] # NoTor => p.index[p.pool[s]] = s
    /\ \A t \in Tors : p.index[t] >= 0 => p.pool[p.index[t]] = t

PoolOK(p) == PoolType(p) /\ HouseIsHoles(p) /\ IndexIsSlot(p)
=============================================================================
