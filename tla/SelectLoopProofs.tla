-------------------------- MODULE SelectLoopProofs --------------------------
(***************************************************************************)
(* The descriptor pools keep what Sched relies on, whatever the capacity   *)
(* and the numbers of criptors and descriptors; then what the select loop  *)
(* makes of it.                                                            *)
(***************************************************************************)
EXTENDS SelectLoop, SequenceTheorems, FiniteSetTheorems, TLAPS

(***************************************************************************)
(* Lemmas on the operations.                                               *)
(***************************************************************************)
\* What is left of a stack when its top is taken.
LEMMA PopSeq ==
  ASSUME NEW S, NEW z \in Seq(S), z # << >>
  PROVE  /\ Len(z) \in Nat \ {0}
         /\ z[Len(z)] \in S
         /\ SubSeq(z, 1, Len(z) - 1) \in Seq(S)
         /\ Len(SubSeq(z, 1, Len(z) - 1)) = Len(z) - 1
         /\ \A a \in 1 .. Len(z) - 1 : SubSeq(z, 1, Len(z) - 1)[a] = z[a]
<1> DEFINE n == Len(z)
           h == SubSeq(z, 1, n - 1)
<1>1. n \in Nat \ {0}
  OBVIOUS
<1>2. \A a \in 1 .. n : z[a] \in S
  OBVIOUS
<1>3. \A a \in 1 .. n - 1 : z[a] \in S
  BY <1>1, <1>2
<1> HIDE DEF n
<1>4. /\ h \in Seq(S)
      /\ Len(h) = IF 1 <= n - 1 THEN n - 1 - 1 + 1 ELSE 0
      /\ \A a \in 1 .. n - 1 - 1 + 1 : h[a] = z[1 + a - 1]
  BY <1>1, <1>3, SubSeqProperties
<1> HIDE DEF h
<1>5. Len(h) = n - 1
  BY <1>1, <1>4
<1>6. ASSUME NEW a \in 1 .. n - 1 PROVE h[a] = z[a]
  <2>1. a \in 1 .. n - 1 - 1 + 1 /\ 1 + a - 1 = a
    BY <1>1
  <2> QED
    BY <2>1, <1>4
<1> QED
  BY <1>1, <1>2, <1>4, <1>5, <1>6 DEF h, n

\* A pool starts out consistent (the constructor, Sched.cpp:79-87).
LEMMA EmptyPoolOK == PoolOK(EmptyPool)
BY TorSizeAssumption, NoTorAssumption
   DEF PoolOK, PoolType, HouseIsHoles, IndexIsSlot, EmptyPool, Slots

\* A criptor placed in a vacant slot and the slot point at each other.
LEMMA PlaceIndexOK ==
  ASSUME NEW p, PoolType(p), IndexIsSlot(p),
         NEW t \in Tors, t \notin Watched(p), NEW s \in Slots, p.pool[s] = NoTor,
         NEW q, q.pool = [p.pool EXCEPT ![s] = t], q.index = [p.index EXCEPT ![t] = s]
  PROVE  IndexIsSlot(q)
<1>1. /\ p.pool \in [Slots -> Tors \cup {NoTor}]
      /\ p.index \in [Tors -> Slots \cup {-1}]
      /\ ~(p.index[t] >= 0)
  BY DEF PoolType, Watched
<1>2. ASSUME NEW x \in Slots, q.pool[x] # NoTor
      PROVE  q.index[q.pool[x]] = x
  <2>1. CASE x = s
    BY <1>1, <2>1
  <2>2. CASE x # s
    <3>1. q.pool[x] = p.pool[x] /\ p.pool[x] \in Tors /\ p.index[p.pool[x]] = x
      BY <1>1, <1>2, <2>2 DEF IndexIsSlot
    <3>2. p.pool[x] # t
      BY <1>1, <3>1 DEF Slots
    <3> QED
      BY <1>1, <3>1, <3>2
  <2> QED
    BY <2>1, <2>2
<1>3. ASSUME NEW u \in Tors, q.index[u] >= 0
      PROVE  q.pool[q.index[u]] = u
  <2>1. CASE u = t
    BY <2>1, <1>1
  <2>2. CASE u # t
    <3>1. q.index[u] = p.index[u] /\ p.index[u] \in Slots /\ p.pool[p.index[u]] = u
      BY <1>1, <1>3, <2>2 DEF IndexIsSlot, Slots
    <3>2. p.index[u] # s
      BY <3>1, NoTorAssumption
    <3> QED
      BY <1>1, <3>1, <3>2
  <2> QED
    BY <2>1, <2>2
<1> QED
  BY <1>2, <1>3 DEF IndexIsSlot

\* Placing a criptor in the slot on top of the stack.
LEMMA ReuseOK ==
  ASSUME NEW p, PoolOK(p), NEW t \in Tors, NEW fd \in Fds,
         t \notin Watched(p), p.house # << >>
  PROVE  PoolOK(Occupy(p, t, fd, p.house[Len(p.house)], p.cur,
                       SubSeq(p.house, 1, Len(p.house) - 1)))
<1> DEFINE n == Len(p.house)
           s == p.house[n]
           h == SubSeq(p.house, 1, n - 1)
           q == Occupy(p, t, fd, s, p.cur, h)
<1>1. PoolType(p) /\ HouseIsHoles(p) /\ IndexIsSlot(p)
  BY DEF PoolOK
<1>0. p.house \in Seq(Slots)
  BY <1>1 DEF PoolType
<1>2. n \in Nat \ {0} /\ s \in Slots
  BY <1>0, PopSeq
<1>3. h \in Seq(Slots) /\ Len(h) = n - 1 /\ \A a \in 1 .. n - 1 : h[a] = p.house[a]
  BY <1>0, PopSeq
<1>4. p.pool[s] = NoTor /\ s < p.cur
  BY <1>1, <1>2 DEF HouseIsHoles
<1> HIDE DEF s, n, h
<1>5. PoolType(q)
  BY <1>1, <1>2, <1>3 DEF PoolType, Occupy
<1>6. HouseIsHoles(q)
  <2>1. \A a, b \in 1 .. Len(q.house) : q.house[a] = q.house[b] => a = b
    BY <1>1, <1>2, <1>3 DEF HouseIsHoles, Occupy, n
  <2>2. \A a \in 1 .. n - 1 : p.house[a] # s
    BY <1>1, <1>2 DEF HouseIsHoles, s, n
  <2>3. \A a \in 1 .. Len(q.house) : q.house[a] < q.cur /\ q.pool[q.house[a]] = NoTor
    BY <1>1, <1>2, <1>3, <2>2 DEF HouseIsHoles, Occupy, PoolType, n
  <2>4. ASSUME NEW x \in Slots, q.pool[x] = NoTor, x < q.cur
        PROVE  \E a \in 1 .. Len(q.house) : q.house[a] = x
    <3>1. x # s /\ p.pool[x] = NoTor
      BY <2>4, <1>1, <1>2, NoTorAssumption DEF PoolType, Occupy
    <3>2. PICK a \in 1 .. n : p.house[a] = x
      BY <3>1, <2>4, <1>1 DEF HouseIsHoles, Occupy, n
    <3>3. a # n
      BY <3>1, <3>2 DEF s
    <3> QED
      BY <3>2, <3>3, <1>2, <1>3 DEF Occupy
  <2>5. \A x \in Slots : x >= q.cur => q.pool[x] = NoTor
    BY <1>1, <1>2, <1>4 DEF HouseIsHoles, Occupy, PoolType, Slots
  <2> QED
    BY <2>1, <2>3, <2>4, <2>5 DEF HouseIsHoles
<1>7. IndexIsSlot(q)
  <2>1. q.pool = [p.pool EXCEPT ![s] = t] /\ q.index = [p.index EXCEPT ![t] = s]
    BY DEF Occupy
  <2> QED
    BY <1>1, <1>2, <1>4, <2>1, PlaceIndexOK
<1> QED
  BY <1>5, <1>6, <1>7 DEF PoolOK, s, n, h

\* Placing a criptor in the first slot that was never used.
LEMMA GrowOK ==
  ASSUME NEW p, PoolOK(p), NEW t \in Tors, NEW fd \in Fds,
         t \notin Watched(p), p.house = << >>, p.cur # TOR_SIZE
  PROVE  PoolOK(Occupy(p, t, fd, p.cur, p.cur + 1, p.house))
<1> DEFINE q == Occupy(p, t, fd, p.cur, p.cur + 1, p.house)
<1>1. PoolType(p) /\ HouseIsHoles(p) /\ IndexIsSlot(p)
  BY DEF PoolOK
<1>2. p.cur \in Slots /\ p.cur + 1 \in 0 .. TOR_SIZE
  BY <1>1, TorSizeAssumption DEF PoolType, Slots
<1>3. p.pool[p.cur] = NoTor
  BY <1>1, <1>2 DEF HouseIsHoles, Slots
<1>4. PoolType(q)
  BY <1>1, <1>2 DEF PoolType, Occupy
<1>5. HouseIsHoles(q)
  <2>1. /\ q.pool = [p.pool EXCEPT ![p.cur] = t] /\ q.cur = p.cur + 1
        /\ q.house = << >> /\ Len(q.house) = 0
        /\ p.pool \in [Slots -> Tors \cup {NoTor}]
    BY <1>1 DEF Occupy, PoolType
  <2> HIDE DEF q
  <2>2. \A x \in Slots : x < p.cur => p.pool[x] # NoTor
    <3>1. Len(p.house) = 0
      OBVIOUS
    <3> QED
      BY <3>1, <1>1 DEF HouseIsHoles
  <2>3. \A x \in Slots : q.pool[x] = NoTor => x >= q.cur
    <3>1. SUFFICES ASSUME NEW x \in Slots, q.pool[x] = NoTor
                   PROVE  x >= q.cur
      OBVIOUS
    <3>2. x # p.cur
      BY <2>1, <1>2, <3>1, NoTorAssumption
    <3>3. p.pool[x] = NoTor
      BY <2>1, <1>2, <3>1, <3>2
    <3>4. ~(x < p.cur)
      BY <2>2, <3>3
    <3> QED
      BY <2>1, <1>2, <3>2, <3>4 DEF Slots
  <2>4. \A x \in Slots : x >= q.cur => q.pool[x] = NoTor
    BY <2>1, <1>1, <1>2 DEF HouseIsHoles, Slots
  <2> QED
    BY <2>1, <2>3, <2>4, <1>2 DEF HouseIsHoles, Slots
<1>6. IndexIsSlot(q)
  <2>1. q.pool = [p.pool EXCEPT ![p.cur] = t] /\ q.index = [p.index EXCEPT ![t] = p.cur]
    BY DEF Occupy
  <2>2. PoolType(p) /\ IndexIsSlot(p) /\ p.cur \in Slots
    BY <1>1, <1>2
  <2> DEFINE c == p.cur
  <2> HIDE DEF q, c
  <2>3. /\ c \in Slots /\ p.pool[c] = NoTor
        /\ q.pool = [p.pool EXCEPT ![c] = t] /\ q.index = [p.index EXCEPT ![t] = c]
    BY <1>3, <2>1, <2>2 DEF c
  <2> QED
    BY <2>2, <2>3, PlaceIndexOK
<1> QED
  BY <1>4, <1>5, <1>6 DEF PoolOK

\* FD_SET*: setup keeps the pool consistent (Sched.cpp:366-386).
LEMMA SetupOK ==
  ASSUME NEW p, PoolOK(p), NEW t \in Tors, NEW fd \in Fds
  PROVE  PoolOK(Setup(p, t, fd))
<1>1. CASE t \in Watched(p) \/ Refuses(p, t)
  BY <1>1 DEF Setup
<1>2. CASE ~(t \in Watched(p) \/ Refuses(p, t)) /\ p.house # << >>
  BY <1>2, ReuseOK DEF Setup
<1>3. CASE ~(t \in Watched(p) \/ Refuses(p, t)) /\ p.house = << >>
  BY <1>3, GrowOK DEF Setup, Refuses
<1> QED
  BY <1>1, <1>2, <1>3

\* Giving a slot back keeps the pool consistent (Sched.cpp:393-401).
LEMMA VacateOK ==
  ASSUME NEW p, PoolOK(p), NEW t \in Watched(p)
  PROVE  PoolOK(Vacate(p, t))
<1> DEFINE s == p.index[t]
           q == Vacate(p, t)
<1>1. PoolType(p) /\ HouseIsHoles(p) /\ IndexIsSlot(p)
  BY DEF PoolOK
<1>2. t \in Tors /\ s \in Slots /\ p.pool[s] = t
  BY <1>1 DEF PoolType, IndexIsSlot, Watched, Slots
<1>3. p.pool[s] # NoTor /\ s < p.cur
  BY <1>1, <1>2, NoTorAssumption DEF HouseIsHoles, PoolType, Slots
<1>4. \A a \in 1 .. Len(p.house) : p.house[a] # s
  BY <1>1, <1>3 DEF HouseIsHoles
<1>5. IndexIsSlot(q)
  <2>1. /\ q.pool = [p.pool EXCEPT ![s] = NoTor] /\ q.index = [p.index EXCEPT ![t] = -1]
        /\ p.pool \in [Slots -> Tors \cup {NoTor}] /\ p.index \in [Tors -> Slots \cup {-1}]
    BY <1>1 DEF Vacate, PoolType
  <2> HIDE DEF q, s
  <2>2. \A x \in Slots : q.pool[x] # NoTor => q.index[q.pool[x]] = x
    <3>1. SUFFICES ASSUME NEW x \in Slots, q.pool[x] # NoTor
                   PROVE  q.index[q.pool[x]] = x
      OBVIOUS
    <3>2. x # s /\ q.pool[x] = p.pool[x] /\ p.pool[x] \in Tors
      BY <2>1, <3>1, <1>2
    <3>3. p.index[p.pool[x]] = x
      BY <3>1, <3>2, <1>1 DEF IndexIsSlot
    <3>4. p.pool[x] # t
      BY <3>2, <3>3 DEF s
    <3> QED
      BY <2>1, <3>2, <3>3, <3>4
  <2>3. \A u \in Tors : q.index[u] >= 0 => q.pool[q.index[u]] = u
    <3>1. SUFFICES ASSUME NEW u \in Tors, q.index[u] >= 0
                   PROVE  q.pool[q.index[u]] = u
      OBVIOUS
    <3>2. u # t /\ q.index[u] = p.index[u] /\ p.index[u] \in Slots
      BY <2>1, <3>1, <1>2
    <3>3. p.pool[p.index[u]] = u
      BY <3>1, <3>2, <1>1 DEF IndexIsSlot
    <3>4. p.index[u] # s
      BY <3>2, <3>3, <1>2
    <3> QED
      BY <2>1, <3>2, <3>3, <3>4
  <2> QED
    BY <2>2, <2>3 DEF IndexIsSlot
<1>6. CASE p.cur - s = 1
  <2>1. q = [cur |-> p.cur - 1, house |-> p.house,
             pool |-> [p.pool EXCEPT ![s] = NoTor],
             rwSet |-> p.rwSet, index |-> [p.index EXCEPT ![t] = -1]]
    BY <1>6 DEF Vacate
  <2>2. PoolType(q)
    <3>1. p.cur - 1 \in 0 .. TOR_SIZE
      BY <1>1, <1>2, <1>3, TorSizeAssumption DEF PoolType, Slots
    <3> HIDE DEF s
    <3> QED
      BY <2>1, <3>1, <1>1, <1>2 DEF PoolType
  <2>3. HouseIsHoles(q)
    <3>1. /\ q.pool = [p.pool EXCEPT ![s] = NoTor] /\ q.cur = p.cur - 1
          /\ q.house = p.house /\ p.pool \in [Slots -> Tors \cup {NoTor}]
          /\ p.house \in Seq(Slots) /\ p.cur \in 0 .. TOR_SIZE
      BY <2>1, <1>1 DEF PoolType
    <3>2. s = p.cur - 1
      BY <1>2, <1>6, <3>1 DEF Slots
    <3> HIDE DEF q, s
    <3>3. \A a, b \in 1 .. Len(q.house) : q.house[a] = q.house[b] => a = b
      BY <3>1, <1>1 DEF HouseIsHoles
    <3>4. ASSUME NEW a \in 1 .. Len(q.house)
          PROVE  q.house[a] < q.cur /\ q.pool[q.house[a]] = NoTor
      <4>1. p.house[a] \in Slots /\ p.house[a] < p.cur /\ p.pool[p.house[a]] = NoTor
            /\ p.house[a] # s
        BY <3>1, <1>1, <1>4 DEF HouseIsHoles
      <4> QED
        BY <4>1, <3>1, <3>2, <1>2 DEF Slots
    <3>5. ASSUME NEW x \in Slots, q.pool[x] = NoTor, x < q.cur
          PROVE  \E a \in 1 .. Len(q.house) : q.house[a] = x
      <4>1. x # s /\ x < p.cur
        BY <3>1, <3>2, <3>5 DEF Slots
      <4>2. p.pool[x] = NoTor
        BY <4>1, <3>1, <3>5
      <4> QED
        BY <4>1, <4>2, <3>1, <1>1 DEF HouseIsHoles
    <3>6. ASSUME NEW x \in Slots, x >= q.cur
          PROVE  q.pool[x] = NoTor
      <4>1. x = s \/ x >= p.cur
        BY <3>1, <3>2, <3>6 DEF Slots
      <4> QED
        BY <4>1, <3>1, <1>1 DEF HouseIsHoles
    <3> QED
      BY <3>3, <3>4, <3>5, <3>6 DEF HouseIsHoles
  <2> QED
    BY <2>2, <2>3, <1>5 DEF PoolOK
<1>7. CASE p.cur - s # 1
  <2> DEFINE n == Len(p.house)
             h == Append(p.house, s)
  <2>1. q = [cur |-> p.cur, house |-> h,
             pool |-> [p.pool EXCEPT ![s] = NoTor],
             rwSet |-> p.rwSet, index |-> [p.index EXCEPT ![t] = -1]]
    BY <1>7 DEF Vacate
  <2>2. /\ n \in Nat /\ h \in Seq(Slots) /\ Len(h) = n + 1
        /\ h[n + 1] = s
        /\ \A a \in 1 .. n : h[a] = p.house[a]
    BY <1>1, <1>2 DEF PoolType
  <2> HIDE DEF h
  <2>3. PoolType(q)
    BY <2>1, <2>2, <1>1, <1>2 DEF PoolType, Slots
  <2>4. HouseIsHoles(q)
    <3>1. \A a, b \in 1 .. n + 1 : h[a] = h[b] => a = b
      BY <2>2, <1>1, <1>4 DEF HouseIsHoles
    <3>2. \A a \in 1 .. n + 1 : h[a] < p.cur /\ q.pool[h[a]] = NoTor
      BY <2>1, <2>2, <1>1, <1>2, <1>3 DEF HouseIsHoles, PoolType
    <3>3. ASSUME NEW x \in Slots, q.pool[x] = NoTor, x < p.cur
          PROVE  \E a \in 1 .. n + 1 : h[a] = x
      <4>1. q.pool = [p.pool EXCEPT ![s] = NoTor] /\ DOMAIN p.pool = Slots
        BY <2>1, <1>1 DEF PoolType
      <4> HIDE DEF q, n
      <4>2. CASE x = s
        <5>1. n + 1 \in 1 .. n + 1
          BY <2>2
        <5> QED
          BY <5>1, <4>2, <2>2
      <4>3. CASE x # s
        <5>1. p.pool[x] = NoTor
          BY <4>1, <4>3, <3>3
        <5>2. PICK a \in 1 .. Len(p.house) : p.house[a] = x
          BY <5>1, <3>3, <1>1 DEF HouseIsHoles
        <5>3. a \in 1 .. n /\ a \in 1 .. n + 1
          BY <2>2, <5>2 DEF n
        <5> QED
          BY <5>2, <5>3, <2>2
      <4> QED
        BY <4>2, <4>3
    <3>4. \A x \in Slots : x >= p.cur => q.pool[x] = NoTor
      BY <2>1, <1>1, <1>2 DEF HouseIsHoles, PoolType
    <3>5. q.house = h /\ q.cur = p.cur /\ Len(q.house) = n + 1
      BY <2>1, <2>2
    <3> HIDE DEF q, n
    <3> QED
      BY <3>1, <3>2, <3>3, <3>4, <3>5 DEF HouseIsHoles
  <2> QED
    BY <2>3, <2>4, <1>5 DEF PoolOK
<1> QED
  BY <1>6, <1>7

\* The fd_set is no part of the bookkeeping of the slots.
LEMMA BitsAreFree ==
  ASSUME NEW p, PoolOK(p), NEW bits \in SUBSET Fds
  PROVE  PoolOK([p EXCEPT !.rwSet = bits])
BY DEF PoolOK, PoolType, HouseIsHoles, IndexIsSlot

\* FD_CLR*: clear keeps the pool consistent (Sched.cpp:388-402).
LEMMA ClearOK ==
  ASSUME NEW p, PoolOK(p), NEW t \in Tors, NEW fd \in Fds
  PROVE  PoolOK(Clear(p, t, fd))
<1>1. CASE t \notin Watched(p)
  <2>1. p.rwSet \ {fd} \in SUBSET Fds
    BY DEF PoolOK, PoolType
  <2> QED
    BY <1>1, <2>1, BitsAreFree DEF Clear
<1>2. CASE t \in Watched(p)
  <2>1. PoolOK(Vacate(p, t))
    BY <1>2, VacateOK
  <2>2. Vacate(p, t).rwSet \ {fd} \in SUBSET Fds
    BY <2>1 DEF PoolOK, PoolType
  <2> QED
    BY <1>2, <2>1, <2>2, BitsAreFree DEF Clear
<1> QED
  BY <1>1, <1>2

\* What the operations do to the set of watched criptors and to the fd_set.
LEMMA SetupEffect ==
  ASSUME NEW p, PoolOK(p), NEW t \in Tors, NEW fd \in Fds
  PROVE  \/ /\ t \notin Watched(p) /\ ~Refuses(p, t)
            /\ Watched(Setup(p, t, fd)) = Watched(p) \cup {t}
            /\ Setup(p, t, fd).rwSet = p.rwSet \cup {fd}
         \/ Setup(p, t, fd) = p
<1> DEFINE q == Setup(p, t, fd)
<1>1. CASE t \in Watched(p) \/ Refuses(p, t)
  BY <1>1 DEF Setup
<1>2. CASE ~(t \in Watched(p) \/ Refuses(p, t))
  <2>1. PICK s \in Slots : /\ q.index = [p.index EXCEPT ![t] = s]
                           /\ q.rwSet = p.rwSet \cup {fd}
    <3>1. CASE p.house # << >>
      <4>1. p.house[Len(p.house)] \in Slots
        <5>1. p.house \in Seq(Slots)
          BY DEF PoolOK, PoolType
        <5> QED
          BY <5>1, <3>1, PopSeq
      <4> QED
        BY <1>2, <3>1, <4>1 DEF Setup, Occupy
    <3>2. CASE p.house = << >>
      <4>1. p.cur \in Slots
        BY <1>2, <3>2, TorSizeAssumption DEF Refuses, PoolOK, PoolType, Slots
      <4> QED
        BY <1>2, <3>2, <4>1 DEF Setup, Occupy
    <3> QED
      BY <3>1, <3>2
  <2>2. p.index \in [Tors -> Slots \cup {-1}]
    BY DEF PoolOK, PoolType
  <2> HIDE DEF q
  <2>3. Watched(q) = Watched(p) \cup {t}
    BY <2>1, <2>2 DEF Watched, Slots
  <2> QED
    BY <1>2, <2>1, <2>3 DEF q
<1> QED
  BY <1>1, <1>2

LEMMA ClearEffect ==
  ASSUME NEW p, PoolOK(p), NEW t \in Tors, NEW fd \in Fds
  PROVE  /\ Watched(Clear(p, t, fd)) = Watched(p) \ {t}
         /\ Clear(p, t, fd).rwSet = p.rwSet \ {fd}
<1>1. p.index \in [Tors -> Slots \cup {-1}]
  BY DEF PoolOK, PoolType
<1>2. CASE t \notin Watched(p)
  BY <1>2 DEF Clear, Watched, PoolOK, PoolType
<1>3. CASE t \in Watched(p)
  <2> DEFINE q == Clear(p, t, fd)
  <2>1. q.index = [p.index EXCEPT ![t] = -1] /\ q.rwSet = p.rwSet \ {fd}
    BY <1>3 DEF Clear, Vacate
  <2> HIDE DEF q
  <2>2. Watched(q) = Watched(p) \ {t}
    BY <1>1, <2>1 DEF Watched, Slots
  <2> QED
    BY <2>1, <2>2 DEF q
<1> QED
  BY <1>2, <1>3

\* A pool that is not full is the set of watched criptors and descriptors that
\* WatchSet makes of it: the criptors' slots, and the stack of vacated ones, are
\* of no consequence to the modules that call FD_SET* and FD_CLR*
\* (Sched.cpp:366-402).
Abstract(p) == [on |-> Watched(p), bits |-> p.rwSet]

Set == INSTANCE WatchSet

THEOREM KeepsWatchSet ==
  ASSUME NEW p, PoolOK(p), NEW t \in Tors, NEW fd \in Fds
  PROVE  /\ Abstract(EmptyPool) = Set!NoneWatched
         /\ ~Refuses(p, t) => Abstract(Setup(p, t, fd)) = Set!Watch(Abstract(p), t, fd)
         /\ Abstract(Clear(p, t, fd)) = Set!Unwatch(Abstract(p), t, fd)
         /\ Abstract(Zero(p)) = Set!Zero(Abstract(p))
<1>1. Abstract(EmptyPool) = Set!NoneWatched
  <2>1. Watched(EmptyPool) = {} /\ EmptyPool.rwSet = {}
    BY DEF EmptyPool, Watched
  <2> QED
    BY <2>1 DEF Abstract, Set!NoneWatched
<1>2. ASSUME ~Refuses(p, t)
      PROVE  Abstract(Setup(p, t, fd)) = Set!Watch(Abstract(p), t, fd)
  <2>1. CASE t \in Watched(p)
    BY <2>1 DEF Setup, Abstract, Set!Watch
  <2>2. CASE t \notin Watched(p)
    <3>1. /\ Watched(Setup(p, t, fd)) = Watched(p) \cup {t}
          /\ Setup(p, t, fd).rwSet = p.rwSet \cup {fd}
      <4>1. Setup(p, t, fd) # p
        <5>1. p.index \in [Tors -> Slots \cup {-1}] /\ p.cur \in 0 .. TOR_SIZE
          BY DEF PoolOK, PoolType
        <5>2. CASE p.house # << >>
          <6>1. p.house[Len(p.house)] \in Slots
            <7>1. p.house \in Seq(Slots)
              BY DEF PoolOK, PoolType
            <7> QED
              BY <7>1, <5>2, PopSeq
          <6>2. Setup(p, t, fd).index[t] = p.house[Len(p.house)]
            BY <2>2, <1>2, <5>1, <5>2 DEF Setup, Occupy
          <6> QED
            BY <6>1, <6>2, <2>2, <5>1 DEF Watched, Slots
        <5>3. CASE p.house = << >>
          <6>1. Setup(p, t, fd).index[t] = p.cur
            BY <2>2, <1>2, <5>1, <5>3 DEF Setup, Occupy
          <6> QED
            BY <6>1, <2>2, <5>1 DEF Watched
        <5> QED
          BY <5>2, <5>3
      <4> QED
        BY <4>1, SetupEffect
    <3> QED
      BY <3>1, <2>2 DEF Abstract, Set!Watch
  <2> QED
    BY <2>1, <2>2
<1>3. Abstract(Clear(p, t, fd)) = Set!Unwatch(Abstract(p), t, fd)
  <2>1. /\ Watched(Clear(p, t, fd)) = Watched(p) \ {t}
        /\ Clear(p, t, fd).rwSet = p.rwSet \ {fd}
    BY ClearEffect
  <2> QED
    BY <2>1 DEF Abstract, Set!Unwatch
<1>4. Abstract(Zero(p)) = Set!Zero(Abstract(p))
  <2>1. Zero(p).index = p.index /\ Zero(p).rwSet = {}
    BY DEF PoolOK, PoolType, Zero
  <2>2. Watched(Zero(p)) = Watched(p)
    BY <2>1 DEF Watched
  <2> QED
    BY <2>1, <2>2 DEF Abstract, Set!Zero
<1> QED
  BY <1>1, <1>2, <1>3, <1>4

\* A pool refuses a criptor only when TOR_SIZE others are in it: no sequence of
\* calls leaks a slot (Sched.cpp:375-381).
LEMMA RefusalMeansFull ==
  ASSUME NEW p, PoolOK(p), NEW t \in Tors, Refuses(p, t)
  PROVE  IsFiniteSet(Watched(p)) /\ Cardinality(Watched(p)) = TOR_SIZE
<1>1. PoolType(p) /\ HouseIsHoles(p) /\ IndexIsSlot(p)
  BY DEF PoolOK
<1>2. \A s \in Slots : p.pool[s] \in Watched(p) /\ p.index[p.pool[s]] = s
  <2>1. Len(p.house) = 0 /\ p.cur = TOR_SIZE
    BY DEF Refuses
  <2>2. \A s \in Slots : p.pool[s] # NoTor
    BY <1>1, <2>1, TorSizeAssumption DEF HouseIsHoles, Slots
  <2>3. \A s \in Slots : p.pool[s] \in Tors /\ p.index[p.pool[s]] = s
    BY <1>1, <2>2 DEF PoolType, IndexIsSlot
  <2> QED
    BY <2>3 DEF Watched, Slots
<1>3. \A u \in Watched(p) : p.index[u] \in Slots /\ p.pool[p.index[u]] = u
  BY <1>1 DEF PoolType, IndexIsSlot, Watched, Slots
<1> DEFINE f == [s \in Slots |-> p.pool[s]]
<1>4. f \in Bijection(Slots, Watched(p))
  <2>1. f \in Injection(Slots, Watched(p))
    <3>1. f \in [Slots -> Watched(p)]
      BY <1>2
    <3>2. \A a, b \in Slots : f[a] = f[b] => a = b
      BY <1>2
    <3> QED
      BY <3>1, <3>2 DEF Injection, IsInjective
  <2>2. f \in Surjection(Slots, Watched(p))
    BY <1>2, <1>3 DEF Surjection
  <2> QED
    BY <2>1, <2>2 DEF Bijection
<1>5. IsFiniteSet(Slots) /\ Cardinality(Slots) = TOR_SIZE
  <2>1. 0 \in Int /\ TOR_SIZE - 1 \in Int
    BY TorSizeAssumption
  <2>2. /\ IsFiniteSet(0 .. TOR_SIZE - 1)
        /\ Cardinality(0 .. TOR_SIZE - 1) =
              IF 0 > TOR_SIZE - 1 THEN 0 ELSE (TOR_SIZE - 1) - 0 + 1
    BY <2>1, FS_Interval
  <2> QED
    BY <2>2, TorSizeAssumption DEF Slots
<1>6. ExistsBijection(Slots, Watched(p))
  BY <1>4 DEF ExistsBijection
<1> QED
  BY <1>5, <1>6, FS_Bijection

(***************************************************************************)
(* The select loop keeps its pool consistent and calls only criptors that  *)
(* are watched, for every number of clients and every capacity.            *)
(***************************************************************************)
\* Two open descriptors have different numbers: the kernel sees to it.
DistinctFds == \A t, u \in live : scanfd[t] = scanfd[u] => t = u

\* While isset walks, callee is set exactly when a call is out, and the slot
\* counter then still points into the array.
CallBookkeeping ==
    /\ at = "facio" <=> callee # NoTor
    /\ at = "facio" => i \in Slots

\* During a walk, an open criptor whose number is in the fd_set either was
\* found ready by select or has been touched since.
StaleBits ==
    at # "run" => \A t \in live \ touched : scanfd[t] \in pset => t \in ready

IInv ==
    /\ TypeOK
    /\ PoolConsistent
    /\ WatchExact
    /\ DistinctFds
    /\ CallBookkeeping
    /\ StaleBits

\* An empty pool watches nothing, and no walk is under way.
LEMMA InitIInv == Init => IInv
<1> SUFFICES ASSUME Init PROVE IInv
  OBVIOUS
<1>1. PoolOK(EmptyPool)
  BY EmptyPoolOK
<1>2. Watched(EmptyPool) = {}
  BY DEF Watched, EmptyPool
<1>3. PICK fd \in Fds : scanfd = [t \in Tors |-> fd]
  BY DEF Init
<1>4. TypeOK
  <2>1. PoolType(tors)
    BY <1>1 DEF Init, PoolOK
  <2>2. scanfd \in [Tors -> Fds] /\ 0 \in 0 .. TOR_SIZE /\ 0 \in Int
    BY <1>3, TorSizeAssumption
  <2>3. /\ live = {} /\ at = "run" /\ pset = {} /\ nready = 0 /\ i = 0
        /\ callee = NoTor /\ ready = {} /\ touched = {} /\ served = {}
        /\ stray = FALSE
    BY DEF Init
  <2> QED
    BY <2>1, <2>2, <2>3 DEF TypeOK
<1>5. WatchExact
  BY <1>2 DEF Init, WatchExact, EmptyPool
<1> QED
  BY <1>1, <1>4, <1>5 DEF Init, IInv, PoolConsistent, DistinctFds, CallBookkeeping, StaleBits

\* Every step of the loop and of its clients keeps the invariant.
LEMMA StepIInv == IInv /\ [Next]_vars => IInv'
<1> SUFFICES ASSUME IInv, [Next]_vars PROVE IInv'
  OBVIOUS
<1> USE DEF ClientsRun, loop, history
<1>0. /\ TypeOK /\ PoolOK(tors) /\ WatchExact /\ DistinctFds
      /\ CallBookkeeping /\ StaleBits
  BY DEF IInv, PoolConsistent
<1>1. ASSUME NEW t \in Tors, NEW fd \in Fds, Open(t, fd) PROVE IInv'
  <2>1. TypeOK'
    BY <1>0, <1>1 DEF TypeOK, Open, Touch
  <2>2. WatchExact'
    BY <1>0, <1>1 DEF WatchExact, Open, TypeOK
  <2>3. DistinctFds'
    BY <1>0, <1>1 DEF DistinctFds, Open, TypeOK
  <2>4. StaleBits'
    BY <1>0, <1>1 DEF StaleBits, Open, Touch, TypeOK
  <2> QED
    BY <2>1, <2>2, <2>3, <2>4, <1>0, <1>1
    DEF IInv, PoolConsistent, CallBookkeeping, Open
<1>2. ASSUME NEW t \in Tors, FD_SET(t) PROVE IInv'
  <2>1. scanfd[t] \in Fds /\ t \in live /\ tors' = Setup(tors, t, scanfd[t])
    BY <1>0, <1>2 DEF FD_SET, TypeOK
  <2>2. PoolOK(tors)'
    BY <2>1, <1>0, SetupOK
  <2>3. \/ /\ Watched(tors') = Watched(tors) \cup {t}
           /\ tors'.rwSet = tors.rwSet \cup {scanfd[t]}
        \/ tors' = tors
    BY <2>1, <1>0, SetupEffect
  <2>4. WatchExact'
    BY <2>1, <2>3, <1>0, <1>2 DEF WatchExact, FD_SET
  <2>5. TypeOK'
    BY <2>2, <1>0, <1>2 DEF TypeOK, FD_SET, PoolOK
  <2> QED
    BY <2>2, <2>4, <2>5, <1>0, <1>2
    DEF IInv, PoolConsistent, DistinctFds, CallBookkeeping, StaleBits, FD_SET
<1>3. ASSUME NEW t \in Tors, FD_CLR(t) PROVE IInv'
  <2>1. scanfd[t] \in Fds /\ t \in live /\ tors' = Clear(tors, t, scanfd[t])
    BY <1>0, <1>3 DEF FD_CLR, TypeOK
  <2>2. PoolOK(tors)'
    BY <2>1, <1>0, ClearOK
  <2>3. /\ Watched(tors') = Watched(tors) \ {t}
        /\ tors'.rwSet = tors.rwSet \ {scanfd[t]}
    BY <2>1, <1>0, ClearEffect
  <2>4. WatchExact'
    <3>1. \A u \in Watched(tors) : scanfd[u] = scanfd[t] => u = t
      BY <2>1, <1>0 DEF WatchExact, DistinctFds
    <3> QED
      BY <2>3, <3>1, <1>0, <1>3 DEF WatchExact, FD_CLR
  <2>5. TypeOK'
    BY <2>2, <1>0, <1>3 DEF TypeOK, FD_CLR, PoolOK, Touch
  <2>6. StaleBits'
    BY <1>0, <1>3 DEF StaleBits, FD_CLR, Touch, TypeOK
  <2> QED
    BY <2>2, <2>4, <2>5, <2>6, <1>0, <1>3
    DEF IInv, PoolConsistent, DistinctFds, CallBookkeeping, FD_CLR
<1>4. ASSUME NEW t \in Tors, Close(t) PROVE IInv'
  BY <1>0, <1>4
  DEF IInv, PoolConsistent, TypeOK, WatchExact, DistinctFds, CallBookkeeping, StaleBits, Close
<1>5. CASE Select
  <2>1. PICK set \in SUBSET tors.rwSet, others \in 0 .. OtherReady :
           /\ pset' = set
           /\ nready' = Cardinality(set) + others
           /\ ready' = {t \in Watched(tors) : scanfd[t] \in set}
    BY <1>5 DEF Select
  <2>2. nready' \in Int
    <3>1. set \in SUBSET Fds
      BY <1>0 DEF TypeOK, PoolType
    <3>2. Cardinality(set) \in Nat
      BY <3>1, FdsAssumption, FS_Subset, FS_CardinalityType
    <3> QED
      BY <2>1, <3>2, OtherReadyAssumption
  <2>3. TypeOK'
    BY <2>1, <2>2, <1>0, <1>5 DEF TypeOK, PoolType, Select, Watched
  <2>4. StaleBits'
    <3>1. \A t \in live : scanfd[t] \in set => t \in Watched(tors)
      BY <2>1, <1>0 DEF WatchExact, DistinctFds
    <3> QED
      BY <2>1, <3>1, <1>5 DEF StaleBits, Select
  <2> QED
    BY <2>3, <2>4, <1>0, <1>5
    DEF IInv, PoolConsistent, WatchExact, DistinctFds, CallBookkeeping, Select
<1>6. CASE Skip
  <2>1. i' \in 0 .. TOR_SIZE
    BY <1>0, <1>6, TorSizeAssumption DEF Skip, Walking, TypeOK, PoolType
  <2> QED
    BY <2>1, <1>0, <1>6
    DEF IInv, PoolConsistent, TypeOK, WatchExact, DistinctFds, CallBookkeeping, StaleBits,
        Skip, Walking
<1>7. CASE Call
  <2>1. i \in Slots
    BY <1>0, <1>7, TorSizeAssumption DEF Call, Walking, TypeOK, PoolType, Slots
  <2>2. callee' \in Tors /\ callee' # NoTor
    BY <2>1, <1>0, <1>7, NoTorAssumption DEF Call, IsSet, TypeOK, PoolType
  <2>3. TypeOK'
    BY <2>2, <1>0, <1>7 DEF TypeOK, Call
  <2> QED
    BY <2>1, <2>2, <2>3, <1>0, <1>7
    DEF IInv, PoolConsistent, WatchExact, DistinctFds, CallBookkeeping, StaleBits, Call, Walking
<1>8. CASE Return
  <2>1. i' \in 0 .. TOR_SIZE /\ nready' \in Int
    BY <1>0, <1>8, TorSizeAssumption DEF Return, CallBookkeeping, TypeOK, Slots
  <2> QED
    BY <2>1, <1>0, <1>8
    DEF IInv, PoolConsistent, TypeOK, WatchExact, DistinctFds, CallBookkeeping, StaleBits, Return
<1>9. CASE Done
  <2>1. 0 \in 0 .. TOR_SIZE /\ 0 \in Int
    BY TorSizeAssumption
  <2>2. /\ tors' = tors /\ scanfd' = scanfd /\ live' = live /\ callee' = callee
        /\ at' = "run" /\ pset' = {} /\ nready' = 0 /\ i' = 0
        /\ ready' = {} /\ touched' = {} /\ served' = {} /\ stray' = FALSE
    BY <1>9 DEF Done
  <2>3. TypeOK'
    BY <2>1, <2>2, <1>0 DEF TypeOK
  <2> QED
    BY <2>3, <1>0, <1>9
    DEF IInv, PoolConsistent, WatchExact, DistinctFds, CallBookkeeping, StaleBits, Done
<1>10. CASE UNCHANGED vars
  BY <1>0, <1>10
  DEF IInv, PoolConsistent, TypeOK, WatchExact, DistinctFds, CallBookkeeping, StaleBits, vars
<1> QED
  BY <1>1, <1>2, <1>3, <1>4, <1>5, <1>6, <1>7, <1>8, <1>9, <1>10 DEF Next

LEMMA SpecIInv == Spec => []IInv
BY InitIInv, StepIInv, PTL DEF Spec

(***************************************************************************)
(* Theorems.                                                               *)
(***************************************************************************)
\* Every variable keeps its type: in particular cur never passes FD_SETSIZE
\* and the walk never leaves the array.
THEOREM TypeCorrect == Spec => []TypeOK
BY SpecIInv, PTL DEF IInv

\* Slots, stack and index fields stay consistent through every order of
\* FD_SET* and FD_CLR*, from within callbacks or not (Sched.cpp:366-402).
THEOREM PoolStaysConsistent == Spec => []PoolConsistent
BY SpecIInv, PTL DEF IInv

\* The fd_set holds the descriptors of the watched criptors and no other, and
\* all of them are open.
THEOREM WatchStaysExact == Spec => []WatchExact
BY SpecIInv, PTL DEF IInv

\* A descriptor is refused only when TOR_SIZE others are watched.
THEOREM NoSlotLeaks == Spec => []RefusedOnlyWhenFull
<1>1. IInv => RefusedOnlyWhenFull
  BY RefusalMeansFull DEF IInv, PoolConsistent, RefusedOnlyWhenFull
<1> QED
  BY <1>1, SpecIInv, PTL

\* A readiness call reaches only a criptor that is watched and open; one that
\* select did not find ready was opened or cleared since: an old fd_set misleads
\* isset only through a descriptor number that changed hands.
THEOREM OnlyTheDueAreCalled == Spec => CallsAreDue
<1> DEFINE A == callee' # callee /\ callee' # NoTor
                  => /\ callee' \in Watched(tors) \cap live
                     /\ callee' \in ready \cup touched
<1>1. IInv /\ [Next]_vars => [A]_vars
  <2> SUFFICES ASSUME IInv, [Next]_vars, callee' # callee, callee' # NoTor
               PROVE  /\ callee' \in Watched(tors) \cap live
                      /\ callee' \in ready \cup touched
    BY DEF vars
  <2>1. Call
    BY DEF Next, Open, FD_SET, FD_CLR, Close, Select, Skip, Return, Done, vars, loop
  <2>2. i \in Slots
    BY <2>1, TorSizeAssumption DEF Call, Walking, IInv, TypeOK, PoolType, Slots
  <2>3. callee' = tors.pool[i] /\ tors.index[tors.pool[i]] = i /\ tors.pool[i] \in Tors
    BY <2>1, <2>2 DEF Call, IsSet, IInv, PoolConsistent, PoolOK, PoolType, IndexIsSlot
  <2>4. callee' \in Watched(tors) \cap live
    BY <2>2, <2>3 DEF Watched, Slots, IInv, WatchExact
  <2>5. callee' \in ready \cup touched
    BY <2>1, <2>3, <2>4 DEF Call, Walking, IsSet, IInv, StaleBits
  <2> QED
    BY <2>4, <2>5
<1> QED
  BY <1>1, SpecIInv, PTL DEF Spec, CallsAreDue
(***************************************************************************)
(* Whoever is ready and left alone is served.                              *)
(***************************************************************************)
\* The slots before it have been passed by the walk.
Front == IF at = "facio" THEN i + 1 ELSE i

\* A criptor that was found ready and not touched is watched with the number
\* that is in the fd_set.
ReadyStay ==
    at # "run" => \A t \in ready \ touched : t \in Watched(tors) /\ scanfd[t] \in pset

\* Served are some of those found ready, each of them once: its slot is behind
\* the front, and the slots of the others are still to come.
FrontDivides ==
    /\ served \subseteq ready
    /\ at # "run" =>
          /\ \A t \in ready \ (served \cup touched) : tors.index[t] >= Front
          /\ \A t \in served \ touched : tors.index[t] < Front

\* As long as each turn went to one that was found ready, the counter covers
\* those that wait for theirs.
CountSuffices ==
    /\ IsFiniteSet(ready)
    /\ at = "isset" /\ ~stray => Cardinality(ready \ served) <= nready
    /\ at = "facio" /\ ~stray => Cardinality(ready \ served) + 1 <= nready

\* Between two walks there is nothing to remember.
Rest ==
    at = "run" => i = 0 /\ ready = {} /\ touched = {} /\ served = {} /\ ~stray

WalkInv == Rest /\ ReadyStay /\ FrontDivides /\ CountSuffices

LEMMA InitWalkInv == Init => WalkInv
BY FS_EmptySet DEF Init, WalkInv, Rest, ReadyStay, FrontDivides, CountSuffices

\* Setup and clear leave the slots of the other criptors alone.
LEMMA SetupKeepsIndex ==
  ASSUME NEW p, PoolOK(p), NEW t \in Tors, NEW fd \in Fds
  PROVE  \A u \in Watched(p) : Setup(p, t, fd).index[u] = p.index[u]
<1>1. p.index \in [Tors -> Slots \cup {-1}]
  BY DEF PoolOK, PoolType
<1>2. CASE t \in Watched(p) \/ Refuses(p, t)
  BY <1>2 DEF Setup
<1>3. CASE ~(t \in Watched(p) \/ Refuses(p, t))
  <2>1. ASSUME NEW c, NEW h, NEW s
        PROVE  \A u \in Watched(p) : Occupy(p, t, fd, s, c, h).index[u] = p.index[u]
    BY <1>1, <1>3 DEF Occupy, Watched
  <2> QED
    BY <1>3, <2>1 DEF Setup
<1> QED
  BY <1>2, <1>3

LEMMA ClearKeepsIndex ==
  ASSUME NEW p, PoolOK(p), NEW t \in Tors, NEW fd \in Fds
  PROVE  \A u \in Tors \ {t} : Clear(p, t, fd).index[u] = p.index[u]
<1>1. p.index \in [Tors -> Slots \cup {-1}]
  BY DEF PoolOK, PoolType
<1>2. CASE t \notin Watched(p)
  BY <1>2 DEF Clear, PoolOK, PoolType
<1>3. CASE t \in Watched(p)
  <2>1. Clear(p, t, fd).index = [p.index EXCEPT ![t] = -1]
    BY <1>3 DEF Clear, Vacate
  <2> QED
    BY <1>1, <2>1
<1> QED
  BY <1>2, <1>3

\* select counts a ready criptor at least once: their numbers differ.
LEMMA CountCoversReady ==
  ASSUME IInv, NEW set \in SUBSET tors.rwSet,
         NEW R, R = {t \in Watched(tors) : scanfd[t] \in set}
  PROVE  /\ IsFiniteSet(R) /\ Cardinality(R) \in Nat
         /\ Cardinality(set) \in Nat /\ Cardinality(R) <= Cardinality(set)
<1> DEFINE f == [t \in R |-> scanfd[t]]
<1>1. set \in SUBSET Fds /\ R \subseteq live
  BY DEF IInv, TypeOK, PoolType, WatchExact
<1>2. IsFiniteSet(set)
  BY <1>1, FdsAssumption, FS_Subset
<1>3. f \in Injection(R, set)
  <2>1. f \in [R -> set]
    OBVIOUS
  <2>2. \A a, b \in R : f[a] = f[b] => a = b
    BY <1>1 DEF IInv, DistinctFds
  <2> QED
    BY <2>1, <2>2 DEF Injection, IsInjective
<1>4. IsFiniteSet(R) /\ Cardinality(R) <= Cardinality(set)
  BY <1>2, <1>3, FS_Injection
<1> QED
  BY <1>2, <1>4, FS_CardinalityType

\* Every step of the loop and of its clients keeps the invariant of the walk.
LEMMA StepWalkInv == IInv /\ WalkInv /\ [Next]_vars => WalkInv'
<1> SUFFICES ASSUME IInv, WalkInv, [Next]_vars PROVE WalkInv'
  OBVIOUS
<1> USE DEF ClientsRun, loop, history
<1>0. /\ TypeOK /\ PoolOK(tors) /\ WatchExact /\ DistinctFds
      /\ CallBookkeeping /\ StaleBits
  BY DEF IInv, PoolConsistent
<1>t. /\ scanfd \in [Tors -> Fds] /\ ready \in SUBSET Tors /\ i \in Int /\ nready \in Int
      /\ tors.index \in [Tors -> Slots \cup {-1}] /\ Slots \subseteq Int
      /\ tors.pool \in [Slots -> Tors \cup {NoTor}]
  BY <1>0, TorSizeAssumption DEF TypeOK, PoolType, Slots
<1>w. Rest /\ ReadyStay /\ FrontDivides /\ CountSuffices
  BY DEF WalkInv
<1>1. ASSUME NEW t \in Tors, NEW fd \in Fds, Open(t, fd) PROVE WalkInv'
  <2>1. ReadyStay'
    <3> SUFFICES ASSUME at # "run", NEW u \in ready \ touched'
                 PROVE  u \in Watched(tors) /\ scanfd'[u] \in pset
      BY <1>1 DEF ReadyStay, Open
    <3>1. u \in ready \ touched /\ u # t
      BY <1>1 DEF Open, Touch
    <3> QED
      BY <3>1, <1>1, <1>w, <1>t DEF ReadyStay, Open
  <2>2. FrontDivides'
    BY <1>1, <1>w DEF FrontDivides, Front, Open, Touch
  <2>3. CountSuffices'
    BY <1>1, <1>w DEF CountSuffices, Open
  <2>4. Rest'
    BY <1>1, <1>w DEF Rest, Open, Touch
  <2> QED
    BY <2>1, <2>2, <2>3, <2>4 DEF WalkInv
<1>2. ASSUME NEW t \in Tors, FD_SET(t) PROVE WalkInv'
  <2>1. scanfd[t] \in Fds /\ tors' = Setup(tors, t, scanfd[t])
    BY <1>0, <1>2 DEF FD_SET, TypeOK
  <2>2. Watched(tors) \subseteq Watched(tors')
    BY <2>1, <1>0, SetupEffect
  <2>3. \A u \in Watched(tors) : tors'.index[u] = tors.index[u]
    BY <2>1, <1>0, SetupKeepsIndex
  <2>4. ReadyStay'
    BY <2>2, <1>2, <1>w DEF ReadyStay, FD_SET
  <2>5. FrontDivides'
    <3>1. at # "run" => ready \ touched \subseteq Watched(tors)
      BY <1>w DEF ReadyStay
    <3> QED
      BY <3>1, <2>3, <1>2, <1>w DEF FrontDivides, Front, FD_SET
  <2>6. CountSuffices'
    BY <1>2, <1>w DEF CountSuffices, FD_SET
  <2>7. Rest'
    BY <1>2, <1>w DEF Rest, FD_SET
  <2> QED
    BY <2>4, <2>5, <2>6, <2>7 DEF WalkInv
<1>3. ASSUME NEW t \in Tors, FD_CLR(t) PROVE WalkInv'
  <2>1. scanfd[t] \in Fds /\ tors' = Clear(tors, t, scanfd[t])
    BY <1>0, <1>3 DEF FD_CLR, TypeOK
  <2>2. Watched(tors') = Watched(tors) \ {t}
    BY <2>1, <1>0, ClearEffect
  <2>3. \A u \in Tors \ {t} : tors'.index[u] = tors.index[u]
    BY <2>1, <1>0, ClearKeepsIndex
  <2>4. at # "run" => ready \ touched' = (ready \ touched) \ {t}
    BY <1>3 DEF FD_CLR, Touch
  <2>5. ReadyStay'
    BY <2>2, <2>4, <1>3, <1>w DEF ReadyStay, FD_CLR
  <2>6. FrontDivides'
    <3>1. at # "run" => touched' = touched \cup {t}
      BY <1>3 DEF FD_CLR, Touch
    <3> QED
      BY <3>1, <2>3, <1>t, <1>3, <1>w DEF FrontDivides, Front, FD_CLR
  <2>7. CountSuffices'
    BY <1>3, <1>w DEF CountSuffices, FD_CLR
  <2>8. Rest'
    BY <1>3, <1>w DEF Rest, FD_CLR, Touch
  <2> QED
    BY <2>5, <2>6, <2>7, <2>8 DEF WalkInv
<1>4. ASSUME NEW t \in Tors, Close(t) PROVE WalkInv'
  BY <1>4, <1>w DEF WalkInv, Rest, ReadyStay, FrontDivides, Front, CountSuffices, Close
<1>5. CASE Select
  <2>1. PICK set \in SUBSET tors.rwSet, others \in 0 .. OtherReady :
           /\ pset' = set
           /\ nready' = Cardinality(set) + others
           /\ ready' = {t \in Watched(tors) : scanfd[t] \in set}
    BY <1>5 DEF Select
  <2>2. /\ at = "run" /\ at' = "isset" /\ i' = i
        /\ UNCHANGED <<tors, scanfd, touched, served, stray>>
    BY <1>5 DEF Select
  <2>3. served = {} /\ touched = {} /\ i = 0
    BY <2>2, <1>w DEF Rest
  <2>4. /\ IsFiniteSet(ready') /\ Cardinality(ready') \in Nat
        /\ Cardinality(set) \in Nat /\ Cardinality(ready') <= Cardinality(set)
    BY <2>1, CountCoversReady
  <2>5. others \in Nat
    BY OtherReadyAssumption
  <2>6. ReadyStay'
    BY <2>1, <2>2 DEF ReadyStay
  <2>7. FrontDivides'
    <3>1. \A t \in ready' : tors.index[t] >= 0
      BY <2>1 DEF Watched
    <3> QED
      BY <2>2, <2>3, <3>1 DEF FrontDivides, Front
  <2>8. CountSuffices'
    <3>1. Cardinality(ready') <= nready'
      BY <2>1, <2>4, <2>5
    <3>2. ready' \ served' = ready'
      BY <2>2, <2>3
    <3> QED
      BY <2>2, <2>4, <3>1, <3>2 DEF CountSuffices
  <2> QED
    BY <2>2, <2>6, <2>7, <2>8 DEF WalkInv, Rest
<1>6. CASE Skip
  <2>1. /\ at = "isset" /\ at' = "isset" /\ i' = i + 1 /\ i \in Slots
        /\ UNCHANGED <<tors, scanfd, pset, nready, history>>
    BY <1>0, <1>6, TorSizeAssumption DEF Skip, Walking, TypeOK, PoolType, Slots
  <2>2. ASSUME NEW t \in ready \ (served \cup touched)
        PROVE  tors.index[t] # i
    <3>1. t \in Watched(tors) /\ scanfd[t] \in pset
      BY <2>1, <1>w DEF ReadyStay
    <3>2. tors.pool[tors.index[t]] = t /\ t # NoTor
      BY <3>1, <1>0, NoTorAssumption DEF PoolOK, IndexIsSlot, Watched
    <3> QED
      BY <3>1, <3>2, <1>6 DEF Skip, IsSet
  <2>3. FrontDivides'
    <3>1. \A t \in ready : tors.index[t] \in Int
      BY <1>t
    <3>2. \A t \in ready \ (served \cup touched) : tors.index[t] >= i + 1
      BY <2>1, <2>2, <3>1, <1>t, <1>w DEF FrontDivides, Front
    <3>3. served \subseteq ready /\ \A t \in served \ touched : tors.index[t] < i + 1
      BY <2>1, <3>1, <1>t, <1>w DEF FrontDivides, Front
    <3> QED
      BY <2>1, <3>2, <3>3 DEF FrontDivides, Front
  <2> QED
    BY <2>1, <2>3, <1>w DEF WalkInv, Rest, ReadyStay, CountSuffices
<1>7. CASE Call
  <2>1. /\ at = "isset" /\ at' = "facio" /\ i \in Slots /\ nready > 0
        /\ callee' = tors.pool[i] /\ callee' # NoTor /\ scanfd[callee'] \in pset
        /\ served' = served \cup ({callee'} \ touched)
        /\ stray' = (stray \/ callee' \in touched)
        /\ UNCHANGED <<tors, scanfd, live, pset, nready, i, ready, touched>>
    BY <1>0, <1>7, TorSizeAssumption DEF Call, Walking, IsSet, TypeOK, PoolType, Slots
  <2>2. callee' \in Tors /\ tors.index[callee'] = i /\ callee' \in Watched(tors)
    <3>1. tors.pool[i] \in Tors /\ tors.index[tors.pool[i]] = i
      BY <2>1, <1>0, <1>t DEF PoolOK, IndexIsSlot
    <3> QED
      BY <3>1, <2>1 DEF Watched, Slots
  <2>3. callee' \in ready \cup touched
    BY <2>1, <2>2, <1>0 DEF WatchExact, StaleBits
  <2>4. \A t \in ready \ touched : t # callee' => tors.index[t] # i
    <3>1. \A t \in ready \ touched : tors.pool[tors.index[t]] = t
      BY <2>1, <1>0, <1>w DEF ReadyStay, Watched, PoolOK, IndexIsSlot
    <3> QED
      BY <2>1, <3>1
  <2>5. FrontDivides'
    <3>1. \A t \in ready : tors.index[t] \in Int
      BY <1>t
    <3>2. served' \subseteq ready
      BY <2>1, <2>3, <1>w DEF FrontDivides
    <3>3. \A t \in ready \ (served' \cup touched) : tors.index[t] >= i + 1
      <4>1. \A t \in ready \ (served' \cup touched) : tors.index[t] >= i /\ tors.index[t] # i
        BY <2>1, <2>4, <1>w DEF FrontDivides, Front
      <4> QED
        BY <4>1, <3>1, <1>t
    <3>4. \A t \in served' \ touched : tors.index[t] < i + 1
      <4>1. \A t \in served' \ touched : tors.index[t] = i \/ tors.index[t] < i
        BY <2>1, <2>2, <1>w DEF FrontDivides, Front
      <4>2. \A t \in served' \ touched : tors.index[t] \in Int
        BY <3>1, <3>2
      <4> QED
        BY <4>1, <4>2, <1>t
    <3> QED
      BY <2>1, <3>2, <3>3, <3>4 DEF FrontDivides, Front
  <2>6. CountSuffices'
    <3> SUFFICES ASSUME ~stray'
                 PROVE  Cardinality(ready \ served') + 1 <= nready
      BY <2>1, <1>w DEF CountSuffices
    <3>1. ~stray /\ callee' \notin touched
      BY <2>1
    <3>2. callee' \in ready \ served
      BY <3>1, <2>1, <2>2, <2>3, <1>t, <1>w DEF FrontDivides, Front
    <3>3. ready \ served' = (ready \ served) \ {callee'}
      BY <3>1, <2>1
    <3>4. IsFiniteSet(ready \ served)
      BY <1>w, FS_Subset DEF CountSuffices
    <3>5. /\ Cardinality((ready \ served) \ {callee'}) = Cardinality(ready \ served) - 1
          /\ Cardinality(ready \ served) \in Nat
      BY <3>2, <3>4, FS_RemoveElement, FS_CardinalityType
    <3>6. Cardinality(ready \ served) <= nready
      BY <3>1, <2>1, <1>w DEF CountSuffices
    <3>7. Cardinality(ready \ served') = Cardinality(ready \ served) - 1
      BY <3>3, <3>5
    <3> QED
      BY <3>5, <3>6, <3>7, <1>t
  <2>7. ReadyStay' /\ Rest'
    BY <2>1, <1>w DEF ReadyStay, Rest
  <2> QED
    BY <2>5, <2>6, <2>7 DEF WalkInv
<1>8. CASE Return
  <2>1. /\ at = "facio" /\ at' = "isset" /\ i' = i + 1 /\ nready' = nready - 1
        /\ UNCHANGED <<tors, scanfd, pset, history>>
    BY <1>8 DEF Return
  <2>2. FrontDivides' /\ ReadyStay' /\ Rest'
    BY <2>1, <1>w DEF FrontDivides, Front, ReadyStay, Rest
  <2>3. CountSuffices'
    <3>1. IsFiniteSet(ready \ served)
      BY <1>w, FS_Subset DEF CountSuffices
    <3>2. Cardinality(ready \ served) \in Nat
      BY <3>1, FS_CardinalityType
    <3> QED
      BY <2>1, <3>2, <1>t, <1>w DEF CountSuffices
  <2> QED
    BY <2>2, <2>3 DEF WalkInv
<1>9. CASE Done
  BY <1>9, FS_EmptySet DEF WalkInv, Rest, ReadyStay, FrontDivides, CountSuffices, Done
<1>10. CASE UNCHANGED vars
  BY <1>10, <1>w DEF WalkInv, Rest, ReadyStay, FrontDivides, Front, CountSuffices, vars
<1> QED
  BY <1>1, <1>2, <1>3, <1>4, <1>5, <1>6, <1>7, <1>8, <1>9, <1>10 DEF Next

LEMMA SpecWalkInv == Spec => [](IInv /\ WalkInv)
BY InitIInv, StepIInv, InitWalkInv, StepWalkInv, PTL DEF Spec

\* When a walk ends, every criptor that select found ready, and that was neither
\* opened nor cleared since, was called, whatever the calls did, unless a
\* criptor that was touched took a turn: either the walk came to the end of the
\* array, or the counter ran out, and then it has run out of ready criptors too.
THEOREM TheReadyAreServed == Spec => ReadyIsServed
<1> DEFINE A == at = "isset" /\ at' = "run" => ready \subseteq served \cup touched \/ stray
<1>1. IInv /\ WalkInv /\ [Next]_vars => [A]_vars
  <2> SUFFICES ASSUME IInv, WalkInv, [Next]_vars, at = "isset", at' = "run", ~stray
               PROVE  ready \subseteq served \cup touched
    BY DEF vars
  <2>1. ~(i < tors.cur /\ nready > 0)
    BY DEF Next, Open, FD_SET, FD_CLR, Close, Select, Skip, Call, Return, Done, vars, loop
  <2>2. /\ i \in Int /\ nready \in Int /\ tors.cur \in Int
        /\ tors.index \in [Tors -> Slots \cup {-1}] /\ ready \in SUBSET Tors
    BY TorSizeAssumption DEF IInv, TypeOK, PoolType
  <2>3. CASE nready <= 0
    <3>1. IsFiniteSet(ready \ served) /\ Cardinality(ready \ served) <= nready
      BY FS_Subset DEF WalkInv, CountSuffices
    <3>2. Cardinality(ready \ served) \in Nat
      BY <3>1, FS_CardinalityType
    <3>3. Cardinality(ready \ served) = 0
      BY <3>1, <3>2, <2>2, <2>3
    <3> QED
      BY <3>1, <3>3, FS_EmptySet
  <2>4. CASE i >= tors.cur
    <3> SUFFICES ASSUME NEW t \in ready \ (served \cup touched) PROVE FALSE
      OBVIOUS
    <3>1. tors.index[t] >= i /\ t \in Watched(tors)
      BY DEF WalkInv, FrontDivides, Front, ReadyStay
    <3>2. tors.index[t] \in Slots /\ tors.pool[tors.index[t]] = t
      BY <3>1, <2>2 DEF Watched, IInv, PoolConsistent, PoolOK, IndexIsSlot, Slots
    <3>3. tors.index[t] >= tors.cur
      BY <3>1, <3>2, <2>2, <2>4 DEF Slots
    <3>4. tors.pool[tors.index[t]] = NoTor
      BY <3>2, <3>3 DEF IInv, PoolConsistent, PoolOK, HouseIsHoles
    <3> QED
      BY <3>2, <3>4, <2>2, NoTorAssumption
  <2> QED
    BY <2>1, <2>2, <2>3, <2>4
<1> QED
  BY <1>1, SpecWalkInv, PTL DEF Spec, ReadyIsServed
=============================================================================
