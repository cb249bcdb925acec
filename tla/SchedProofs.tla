---------------------------- MODULE SchedProofs ----------------------------
(***************************************************************************)
(* Proofs about the deferred calls and the timers of the scheduler, which  *)
(* share no variable.                                                      *)
(***************************************************************************)
EXTENDS SchedPendor, SchedTimer, SequenceTheorems, TLAPS

(***************************************************************************)
(* SchedPendor: run_pendors and CMD_PUT_PENDOR implement DeferredCalls, a  *)
(* turn serves whatever was within its reach, and no call put from outside *)
(* the deferred calls gets out of reach.                                   *)
(***************************************************************************)
\* A call is out exactly while the loop is in one.
Calling == at = "facio" <=> running # NoCall

\* What the turn has yet to serve lies below the counter and is still there.
DueAhead ==
    /\ due \subseteq Held
    /\ at = "events" => due = {}
    /\ at = "pendors" => \A s \in due : s <= i
    /\ at = "facio" => i \in Slots /\ \A s \in due : s < i

IInv == TypeOK /\ Calling /\ DueAhead

LEMMA InitIInv == Init => IInv
BY PendorSizeAssumption, NoCallAssumption
DEF Init, IInv, TypeOK, Calling, DueAhead, Held, Slots

\* Every step of the loop and of the clients keeps the invariant.
LEMMA StepIInv == IInv /\ [Next]_vars => IInv'
<1> SUFFICES ASSUME IInv, [Next]_vars PROVE IInv'
  OBVIOUS
<1> USE PendorSizeAssumption, NoCallAssumption DEF IInv, TypeOK, Calling, DueAhead, Held, Slots
<1>1. ASSUME NEW c \in Calls, Store(c) PROVE IInv'
  <2>1. PICK s \in Slots :
            /\ s \notin Held
            /\ pendors' = [pendors EXCEPT ![s] = c]
            /\ pendor_top' = IF s > pendor_top THEN s ELSE pendor_top
            /\ nested' = IF at = "facio" THEN nested \cup {s} ELSE nested
    BY <1>1 DEF Store, FirstFree
  <2>2. UNCHANGED <<at, i, running, due>> /\ dropped' = FALSE
    BY <1>1 DEF Store
  <2>3. TypeOK'
    BY <2>1, <2>2
  <2>4. Held' = Held \cup {s}
    BY <2>1
  <2> QED
    BY <2>2, <2>3, <2>4
<1>2. ASSUME NEW c \in Calls, StoreNothing(c) PROVE IInv'
  BY <1>2 DEF StoreNothing, ClientsRun
<1>3. CASE Enter
  BY <1>3 DEF Enter
<1>5. CASE Run
  BY <1>5 DEF Run
<1>6. CASE Return
  BY <1>6 DEF Return
<1>7. CASE Leave
  BY <1>7 DEF Leave
<1>8. CASE UNCHANGED vars
  BY <1>8 DEF vars
<1> QED
  BY <1>1, <1>2, <1>3, <1>5, <1>6, <1>7, <1>8 DEF Next

LEMMA SpecIInv == Spec => []IInv
BY InitIInv, StepIInv, PTL DEF Spec

\* The variables keep their types: neither a put nor the walk leaves the array.
THEOREM TypeCorrect == Spec => []TypeOK
BY SpecIInv, PTL DEF IInv

\* No call is lost, made twice or overwritten, and a put is dropped only when
\* all slots are taken: every step is a step of DeferredCalls, or none.
THEOREM ImplementsDeferredCalls == Spec => KeepsItsPromise
<1>1. Init => Deferred!Init
  BY DEF Init, Deferred!Init
<1>2. IInv /\ [Next]_vars => [Deferred!Next]_(Deferred!vars)
  <2> SUFFICES ASSUME IInv, [Next]_vars PROVE [Deferred!Next]_(Deferred!vars)
    OBVIOUS
  <2>1. ASSUME NEW c \in Calls, Store(c) PROVE Deferred!Next
    <3>1. PICK s \in Slots : FirstFree(s) /\ pendors' = [pendors EXCEPT ![s] = c]
      BY <2>1 DEF Store
    <3>2. Deferred!Keep(c, s)
      BY <2>1, <3>1 DEF Store, FirstFree, Held, Deferred!Keep
    <3> QED
      BY <3>2 DEF Deferred!Next
  <2>2. ASSUME NEW c \in Calls, StoreNothing(c) PROVE Deferred!Next
    BY <2>2 DEF StoreNothing, Held, Deferred!Next, Deferred!Drop
  <2>3. CASE Run
    <3>1. i \in Slots
      BY <2>3, PendorSizeAssumption DEF Run, IInv, TypeOK, Slots
    <3>2. Deferred!Make(i)
      BY <2>3 DEF Run, IInv, Calling, Deferred!Make
    <3> QED
      BY <3>1, <3>2 DEF Deferred!Next
  <2>4. CASE Return
    BY <2>4 DEF Return, IInv, Calling, Deferred!Next, Deferred!Finish
  <2>5. CASE Enter \/ Leave \/ UNCHANGED vars
    BY <2>5 DEF Enter, Leave, vars, Deferred!vars
  <2> QED
    BY <2>1, <2>2, <2>3, <2>4, <2>5 DEF Next
<1> QED
  BY <1>1, <1>2, SpecIInv, PTL DEF Spec, KeepsItsPromise, Deferred!Spec

\* When run_pendors returns, every call that was within pendor_top when it was
\* entered has been made.
THEOREM TurnsServeAll == Spec => TurnServesAll
<1> DEFINE A == at = "pendors" /\ at' = "events" => due = {}
<1>1. IInv /\ [Next]_vars => [A]_vars
  <2> SUFFICES ASSUME IInv, [Next]_vars, at = "pendors", at' = "events" PROVE due = {}
    BY DEF vars
  <2>1. Leave
    BY DEF Next, Store, StoreNothing, Enter, Run, Return, vars
  <2> QED
    BY <2>1, PendorSizeAssumption DEF Leave, IInv, TypeOK, DueAhead, Held, Slots
<1> QED
  BY <1>1, SpecIInv, PTL DEF Spec, TurnServesAll

(***************************************************************************)
(* What is within reach.                                                   *)
(***************************************************************************)
\* A call put from outside lies within pendor_top, or within the counter once
\* the walk has begun to lower it.
Reach ==
    /\ at = "events" => \A s \in Held \ nested : s <= pendor_top
    /\ at = "pendors" => \A s \in Held \ nested : s <= i
    /\ at = "facio" => i \in Slots /\ \A s \in Held \ nested : s < i

\* No call lies above pendor_top between two turns, but those that deferred
\* calls put (Sched.cpp:328,454,474).
THEOREM NoneOutOfReach == Spec => []TopCoversHeld
<1>1. Init => Reach
  BY DEF Init, Reach, Held
<1>2. IInv /\ Reach /\ [Next]_vars => Reach'
  <2> SUFFICES ASSUME IInv, Reach, [Next]_vars PROVE Reach'
    OBVIOUS
  <2> USE PendorSizeAssumption DEF IInv, TypeOK, Reach, Held, Slots
  <2>1. ASSUME NEW c \in Calls, Store(c) PROVE Reach'
    <3>1. PICK s \in Slots :
              /\ s \notin Held
              /\ pendors' = [pendors EXCEPT ![s] = c]
              /\ pendor_top' = IF s > pendor_top THEN s ELSE pendor_top
              /\ nested' = IF at = "facio" THEN nested \cup {s} ELSE nested
      BY <2>1 DEF Store, FirstFree
    <3>2. at \in {"events", "facio"} /\ UNCHANGED <<at, i>>
      BY <2>1 DEF Store, ClientsRun
    <3>3. ASSUME NEW r \in Held' \ nested', r # s PROVE r \in Held \ nested
      BY <3>1, <3>3
    <3>4. CASE at = "events"
      <4>1. ASSUME NEW r \in Held' \ nested' PROVE r <= pendor_top'
        BY <3>1, <3>3, <3>4, <4>1
      <4> QED
        BY <3>2, <3>4, <4>1
    <3>5. CASE at = "facio"
      <4>1. s \in nested'
        BY <3>1, <3>5
      <4>2. ASSUME NEW r \in Held' \ nested' PROVE r < i
        BY <3>3, <3>5, <4>1, <4>2
      <4> QED
        BY <3>2, <3>5, <4>2
    <3> QED
      BY <3>2, <3>4, <3>5
  <2>2. ASSUME NEW c \in Calls, StoreNothing(c) PROVE Reach'
    BY <2>2 DEF StoreNothing
  <2>3. CASE Enter
    BY <2>3 DEF Enter
  <2>5. CASE Run
    BY <2>5 DEF Run
  <2>6. CASE Return
    BY <2>6 DEF Return
  <2>7. CASE Leave
    BY <2>7 DEF Leave
  <2>8. CASE UNCHANGED vars
    BY <2>8 DEF vars
  <2> QED
    BY <2>1, <2>2, <2>3, <2>5, <2>6, <2>7, <2>8 DEF Next
<1>3. Reach => TopCoversHeld
  BY DEF Reach, TopCoversHeld
<1> QED
  BY <1>1, <1>2, <1>3, SpecIInv, PTL DEF Spec

(***************************************************************************)
(* What is within reach is full.                                           *)
(***************************************************************************)
Dense ==
    \A s \in Slots :
        /\ s <= pendor_top => s \in Held
        /\ at = "pendors" /\ s <= i => s \in Held
        /\ at = "facio" /\ s < i => s \in Held

\* run_pendors meets no empty slot: the test of Sched.cpp:447 always succeeds.
THEOREM NoneIsEmpty == Spec => []NoHoles
<1>1. Init => Dense
  BY DEF Init, Dense, Slots
<1>2. IInv /\ Dense /\ [Next]_vars => Dense'
  <2> SUFFICES ASSUME IInv, Dense, [Next]_vars, NEW r \in Slots
               PROVE /\ r <= pendor_top' => r \in Held'
                     /\ at' = "pendors" /\ r <= i' => r \in Held'
                     /\ at' = "facio" /\ r < i' => r \in Held'
    BY DEF Dense
  <2> USE PendorSizeAssumption, NoCallAssumption DEF IInv, TypeOK, Dense, Held, Slots
  <2>1. ASSUME NEW c \in Calls, Store(c)
        PROVE /\ r <= pendor_top' => r \in Held'
              /\ at' = "facio" /\ r < i' => r \in Held'
              /\ at' # "pendors"
    <3>1. PICK s \in Slots :
              /\ FirstFree(s)
              /\ pendors' = [pendors EXCEPT ![s] = c]
              /\ pendor_top' = IF s > pendor_top THEN s ELSE pendor_top
      BY <2>1 DEF Store
    <3>2. at \in {"events", "facio"} /\ UNCHANGED <<at, i>>
      BY <2>1 DEF Store, ClientsRun
    <3>3. r \in Held' <=> r \in Held \/ r = s
      BY <3>1
    <3>4. r <= s => r \in Held'
      BY <3>1, <3>3 DEF FirstFree
    <3> QED
      BY <3>1, <3>2, <3>3, <3>4
  <2>2. ASSUME NEW c \in Calls, StoreNothing(c) PROVE UNCHANGED <<pendors, pendor_top, at, i>>
    BY <2>2 DEF StoreNothing
  <2>3. CASE Enter
    BY <2>3 DEF Enter
  <2>4. CASE Run
    BY <2>4 DEF Run
  <2>5. CASE Return
    BY <2>5 DEF Return
  <2>6. CASE Leave
    BY <2>6 DEF Leave
  <2>7. CASE UNCHANGED vars
    BY <2>7 DEF vars
  <2> QED
    BY <2>1, <2>2, <2>3, <2>4, <2>5, <2>6, <2>7 DEF Next
<1>3. IInv /\ Dense => NoHoles
  BY DEF Dense, NoHoles
<1> QED
  BY <1>1, <1>2, <1>3, SpecIInv, PTL DEF Spec
-----------------------------------------------------------------------------
(***************************************************************************)
(* SchedTimer: the entries of the table and the handles of the clients     *)
(* agree, whatever timers the calls of sort set and clear; and an alarm    *)
(* that does not repeat goes off once.                                     *)
(*                                                                         *)
(* TimerInv: as long as no one-shot alarm's call has meddled with timers,  *)
(* an entry tells what its client asked for last, and only the entry at    *)
(* the counter is of an alarm that has gone off and is not marked yet.     *)
(***************************************************************************)
\* The table t has one entry for each client of h and for no other.
Agree(h, t) ==
    /\ h = {t[k].pupa : k \in 1 .. Len(t)}
    /\ \A k, l \in 1 .. Len(t) : t[k].pupa = t[l].pupa => k = l

\* An entry tells what its client asked for last; a one-shot alarm that has gone
\* off is marked when its call returns.
EntryTrue(k) ==
    LET e == timer_infor[k]
    IN IF e.status = 2
       THEN asked[e.pupa] = 1 /\ fired[e.pupa] > 0
       ELSE /\ asked[e.pupa] = e.status
            /\ e.status = 1 /\ fired[e.pupa] > 0 => once /\ k = pos

\* The call of a one-shot alarm is that of the entry at the counter.
CallIsHere ==
    once => /\ pos <= Len(timer_infor) /\ timer_infor[pos].status = 1
            /\ fired[timer_infor[pos].pupa] > 0

OneShots ==
    /\ \A k \in 1 .. Len(timer_infor) : EntryTrue(k)
    /\ CallIsHere
    /\ \A p \in Pupas : asked[p] = 1 => fired[p] <= 1 /\ p \in handle

TimerInv ==
    /\ TimerTypeOK
    /\ Agree(handle, timer_infor)
    /\ once => stage = "facio"
    /\ meddled \/ OneShots

LEMMA EntryFields ==
  ASSUME NEW t \in Seq(Entry), NEW k \in 1 .. Len(t)
  PROVE  /\ t[k] \in Entry /\ t[k].pupa \in Pupas /\ t[k].status \in {0, 1, 2, 3}
         /\ t[k].age \in 0 .. MaxAge
<1>1. t[k] \in Entry
  OBVIOUS
<1> QED
  BY <1>1 DEF Entry

LEMMA AgreeMeans ==
  /\ timer_infor \in Seq(Entry) /\ Agree(handle, timer_infor) => HandleAgrees
<1> SUFFICES ASSUME timer_infor \in Seq(Entry), Agree(handle, timer_infor) PROVE HandleAgrees
  OBVIOUS
<1> QED
  BY DEF Agree, HandleAgrees, Positions

(***************************************************************************)
(* DMD_SET_*: the entry at m is the client's, whether it had one or not.   *)
(***************************************************************************)
SetAt(m, p, kind) ==
    /\ m \in 1 .. Len(timer_infor')
    /\ timer_infor' \in Seq(Entry)
    /\ Len(timer_infor) <= Len(timer_infor')
    /\ timer_infor'[m].pupa = p /\ timer_infor'[m].status = kind
    /\ \A k \in 1 .. Len(timer_infor') : k # m =>
          /\ k \in 1 .. Len(timer_infor) /\ timer_infor'[k] = timer_infor[k]
          /\ timer_infor[k].pupa # p
    /\ \A k \in 1 .. Len(timer_infor) : timer_infor[k].pupa # p => k # m
    /\ meddled' \in BOOLEAN /\ (meddled => meddled')
    /\ once /\ ~meddled' /\ pos <= Len(timer_infor) => m # pos

LEMMA SetEffect ==
  ASSUME TimerInv, NEW p \in Pupas, NEW kind \in {0, 1, 3},
         NEW interval \in Intervals \cup {0}, Set(p, kind, interval)
  PROVE  \E m : SetAt(m, p, kind)
<1> DEFINE e == [pupa |-> p, status |-> kind, interval |-> interval, age |-> 0]
           t == timer_infor
<1>1. e \in Entry /\ e.pupa = p /\ e.status = kind
  BY IntervalsAssumption DEF Entry
<1>2. t \in Seq(Entry) /\ meddled \in BOOLEAN /\ pos \in Nat \ {0}
  BY DEF TimerInv, TimerTypeOK
<1>3. \A k, l \in 1 .. Len(t) : t[k].pupa = t[l].pupa => k = l
  BY DEF TimerInv, Agree
<1>4. Add(e) \/ Rearm(e)
  BY DEF Set
<1> HIDE DEF e
<1>5. CASE Add(e)
  <2>1. (\A k \in 1 .. Len(t) : t[k].pupa # p) /\ timer_infor' = Append(t, e)
        /\ meddled' = meddled
    BY <1>1, <1>5 DEF Add, Positions
  <2>2. /\ timer_infor' \in Seq(Entry) /\ Len(timer_infor') = Len(t) + 1
        /\ \A k \in 1 .. Len(t) : timer_infor'[k] = t[k]
        /\ timer_infor'[Len(t) + 1] = e
    BY <1>1, <1>2, <2>1, AppendProperties
  <2>3. SetAt(Len(t) + 1, p, kind)
    BY <1>1, <1>2, <2>1, <2>2 DEF SetAt
  <2> QED
    BY <2>3
<1>6. CASE Rearm(e)
  <2>1. PICK m \in 1 .. Len(t) : t[m].pupa = p /\ timer_infor' = [t EXCEPT ![m] = e]
    BY <1>1, <1>6 DEF Rearm, Positions
  <2>2. meddled' = (meddled \/ (stage = "facio" /\ once))
    BY <1>6 DEF Rearm, Meddles
  <2>3. /\ timer_infor' \in Seq(Entry) /\ Len(timer_infor') = Len(t)
        /\ timer_infor'[m] = e
        /\ \A k \in 1 .. Len(t) : k # m => timer_infor'[k] = t[k]
    BY <1>1, <1>2, <2>1
  <2>4. once => meddled'
    BY <2>2 DEF TimerInv
  <2>5. \A k \in 1 .. Len(t) : k # m => t[k].pupa # p
    BY <1>3, <2>1
  <2>6. meddled' \in BOOLEAN /\ (meddled => meddled')
    BY <2>2
  <2>7. m \in 1 .. Len(timer_infor')
    BY <2>3
  <2>8. SetAt(m, p, kind)
    BY <1>1, <1>2, <2>1, <2>3, <2>4, <2>5, <2>6, <2>7 DEF SetAt
  <2> QED
    BY <2>8
<1> QED
  BY <1>4, <1>5, <1>6

LEMMA SetKeeps ==
  ASSUME TimerInv, NEW p \in Pupas, NEW kind \in {0, 1, 3},
         NEW interval \in Intervals \cup {0}, Set(p, kind, interval)
  PROVE  TimerInv'
<1>0. PICK m : SetAt(m, p, kind)
  BY SetEffect
<1>1. /\ m \in 1 .. Len(timer_infor')
      /\ timer_infor' \in Seq(Entry)
      /\ Len(timer_infor) <= Len(timer_infor')
      /\ timer_infor'[m].pupa = p /\ timer_infor'[m].status = kind
      /\ \A k \in 1 .. Len(timer_infor') : k # m =>
            /\ k \in 1 .. Len(timer_infor) /\ timer_infor'[k] = timer_infor[k]
            /\ timer_infor[k].pupa # p
      /\ \A k \in 1 .. Len(timer_infor) : timer_infor[k].pupa # p => k # m
      /\ meddled' \in BOOLEAN /\ (meddled => meddled')
      /\ once /\ ~meddled' /\ pos <= Len(timer_infor) => m # pos
  BY <1>0 DEF SetAt
<1>2. /\ handle' = handle \cup {p}
      /\ asked' = [asked EXCEPT ![p] = kind]
      /\ fired' = [fired EXCEPT ![p] = 0]
      /\ stage' = stage /\ pos' = pos /\ callee' = callee /\ once' = once
  BY DEF Set
<1>3. TimerTypeOK
  BY DEF TimerInv
<1>4. TimerTypeOK'
  BY <1>1, <1>2, <1>3 DEF TimerTypeOK
<1>5. timer_infor \in Seq(Entry) /\ asked \in [Pupas -> {-1, 0, 1, 3}] /\ fired \in [Pupas -> 0 .. 2]
      /\ pos \in Nat \ {0}
  BY <1>3 DEF TimerTypeOK
<1>6. Agree(handle', timer_infor')
  <2>1. \A k \in 1 .. Len(timer_infor) : timer_infor[k].pupa # p =>
            k \in 1 .. Len(timer_infor') /\ timer_infor'[k] = timer_infor[k]
    <3>1. \A k \in 1 .. Len(timer_infor) : k \in 1 .. Len(timer_infor')
      BY <1>1, <1>5
    <3> QED
      BY <1>1, <3>1
  <2>2. handle = {timer_infor[k].pupa : k \in 1 .. Len(timer_infor)}
    BY DEF TimerInv, Agree
  <2>3. handle' = {timer_infor'[k].pupa : k \in 1 .. Len(timer_infor')}
    BY <1>1, <1>2, <2>1, <2>2
  <2>4. \A k, l \in 1 .. Len(timer_infor) : timer_infor[k].pupa = timer_infor[l].pupa => k = l
    BY DEF TimerInv, Agree
  <2>5. \A k, l \in 1 .. Len(timer_infor') :
            timer_infor'[k].pupa = timer_infor'[l].pupa => k = l
    BY <1>1, <2>4
  <2> QED
    BY <2>3, <2>5 DEF Agree
<1>7. meddled' \/ OneShots'
  <2> SUFFICES ASSUME ~meddled' PROVE OneShots'
    BY <1>1
  <2>1. OneShots
    BY <1>1 DEF TimerInv
  <2>2. ASSUME NEW k \in 1 .. Len(timer_infor')
        PROVE  EntryTrue(k)'
    <3>1. CASE k = m
      BY <1>1, <1>2, <1>5, <3>1 DEF EntryTrue
    <3>2. CASE k # m
      <4>1. timer_infor[k].pupa \in Pupas /\ k \in 1 .. Len(timer_infor)
        BY <1>1, <1>5, <3>2, EntryFields
      <4>2. EntryTrue(k)
        BY <2>1, <4>1 DEF OneShots
      <4>3. /\ timer_infor'[k] = timer_infor[k] /\ timer_infor[k].pupa # p
        BY <1>1, <3>2
      <4>4. /\ asked'[timer_infor[k].pupa] = asked[timer_infor[k].pupa]
            /\ fired'[timer_infor[k].pupa] = fired[timer_infor[k].pupa]
        BY <1>2, <1>5, <4>1, <4>3
      <4> QED
        BY <1>2, <4>2, <4>3, <4>4 DEF EntryTrue
    <3> QED
      BY <3>1, <3>2
  <2>3. CallIsHere'
    BY <1>1, <1>2, <1>5, <2>1 DEF OneShots, CallIsHere
  <2>4. \A q \in Pupas : asked'[q] = 1 => fired'[q] <= 1 /\ q \in handle'
    BY <1>2, <1>5, <2>1 DEF OneShots
  <2> QED
    BY <2>2, <2>3, <2>4 DEF OneShots
<1> QED
  BY <1>2, <1>4, <1>6, <1>7 DEF TimerInv

(***************************************************************************)
(* DMD_CLR_TIMER: the entries behind move forward.                         *)
(***************************************************************************)
Without(t, k) == SubSeq(t, 1, k - 1) \o SubSeq(t, k + 1, Len(t))

LEMMA RemoveEffect ==
  ASSUME NEW t \in Seq(Entry), NEW k \in 1 .. Len(t)
  PROVE  /\ Without(t, k) \in Seq(Entry) /\ Len(Without(t, k)) = Len(t) - 1
         /\ \A j \in 1 .. Len(Without(t, k)) :
               /\ j < k => j \in 1 .. Len(t) /\ Without(t, k)[j] = t[j]
               /\ j >= k => j + 1 \in 1 .. Len(t) /\ Without(t, k)[j] = t[j + 1]
<1> DEFINE n == Len(t)
           a == SubSeq(t, 1, k - 1)
           b == SubSeq(t, k + 1, n)
           u == Without(t, k)
<1>1. n \in Nat /\ k \in Int /\ 1 <= k /\ k <= n
  OBVIOUS
<1>2. \A j \in 1 .. n : t[j] \in Entry
  OBVIOUS
<1>3. u = a \o b
  BY DEF Without
<1> HIDE DEF n, u
<1>4. /\ a \in Seq(Entry) /\ Len(a) = IF 1 <= k - 1 THEN (k - 1) - 1 + 1 ELSE 0
      /\ \A j \in 1 .. (k - 1) - 1 + 1 : a[j] = t[1 + j - 1]
  <2>1. \A j \in 1 .. k - 1 : t[j] \in Entry
    BY <1>1, <1>2
  <2> QED
    BY <1>1, <2>1, SubSeqProperties
<1>5. /\ b \in Seq(Entry) /\ Len(b) = IF k + 1 <= n THEN n - (k + 1) + 1 ELSE 0
      /\ \A j \in 1 .. n - (k + 1) + 1 : b[j] = t[(k + 1) + j - 1]
  <2>1. \A j \in k + 1 .. n : t[j] \in Entry
    BY <1>1, <1>2
  <2> QED
    BY <1>1, <2>1, SubSeqProperties
<1> HIDE DEF a, b
<1>6. Len(a) = k - 1 /\ Len(b) = n - k
  BY <1>1, <1>4, <1>5
<1>7. /\ u \in Seq(Entry) /\ Len(u) = Len(a) + Len(b)
      /\ \A j \in 1 .. Len(a) + Len(b) : u[j] = IF j <= Len(a) THEN a[j] ELSE b[j - Len(a)]
  <2>1. /\ a \o b \in Seq(Entry) /\ Len(a \o b) = Len(a) + Len(b)
        /\ \A j \in 1 .. Len(a) + Len(b) :
              (a \o b)[j] = IF j <= Len(a) THEN a[j] ELSE b[j - Len(a)]
    BY <1>4, <1>5, ConcatProperties
  <2> QED
    BY <1>3, <2>1
<1>8. Len(u) = n - 1
  BY <1>1, <1>6, <1>7
<1>9. ASSUME NEW j \in 1 .. Len(u), j < k
      PROVE  j \in 1 .. n /\ u[j] = t[j]
  <2>1. /\ j \in 1 .. Len(a) + Len(b) /\ j <= Len(a)
        /\ j \in 1 .. (k - 1) - 1 + 1 /\ 1 + j - 1 = j /\ j \in 1 .. n
    BY <1>1, <1>6, <1>7, <1>9
  <2> QED
    BY <1>4, <1>7, <2>1
<1>10. ASSUME NEW j \in 1 .. Len(u), j >= k
       PROVE  j + 1 \in 1 .. n /\ u[j] = t[j + 1]
  <2>1. /\ j \in 1 .. Len(a) + Len(b) /\ ~(j <= Len(a))
        /\ j - Len(a) \in 1 .. n - (k + 1) + 1
        /\ (k + 1) + (j - Len(a)) - 1 = j + 1 /\ j + 1 \in 1 .. n
    BY <1>1, <1>6, <1>7, <1>10
  <2> QED
    BY <1>5, <1>7, <2>1
<1> QED
  BY <1>7, <1>8, <1>9, <1>10 DEF n, u

LEMMA ClearKeeps ==
  ASSUME TimerInv, NEW p \in Pupas, Clear(p)
  PROVE  TimerInv'
<1> DEFINE t == timer_infor
           u == timer_infor'
<1>1. PICK m \in 1 .. Len(t) : t[m].pupa = p /\ Remove(m)
  BY DEF Clear, Positions
<1>2. /\ handle' = handle \ {p} /\ meddled' = (meddled \/ (stage = "facio" /\ once))
      /\ asked' = [asked EXCEPT ![p] = -1]
      /\ fired' = [fired EXCEPT ![p] = 0]
      /\ stage' = stage /\ pos' = pos /\ callee' = callee /\ once' = once
  BY DEF Clear, Meddles
<1>3. /\ TimerTypeOK /\ t \in Seq(Entry)
      /\ asked \in [Pupas -> {-1, 0, 1, 3}] /\ fired \in [Pupas -> 0 .. 2]
  BY DEF TimerInv, TimerTypeOK
<1>4. u = Without(t, m)
  BY <1>1 DEF Remove, Without
<1> HIDE DEF t, u
<1>5. /\ u \in Seq(Entry) /\ Len(u) = Len(t) - 1
      /\ \A j \in 1 .. Len(u) :
            /\ j < m => j \in 1 .. Len(t) /\ u[j] = t[j]
            /\ j >= m => j + 1 \in 1 .. Len(t) /\ u[j] = t[j + 1]
  BY <1>3, <1>4, RemoveEffect
<1> DEFINE Was(j) == IF j < m THEN j ELSE j + 1
<1>6. /\ \A j \in 1 .. Len(u) : Was(j) \in 1 .. Len(t) /\ Was(j) # m /\ u[j] = t[Was(j)]
      /\ \A j, l \in 1 .. Len(u) : Was(j) = Was(l) => j = l
  BY <1>5
<1>7. \A l \in 1 .. Len(t) : l # m => \E j \in 1 .. Len(u) : Was(j) = l
  <2> SUFFICES ASSUME NEW l \in 1 .. Len(t), l # m
               PROVE  \E j \in 1 .. Len(u) : Was(j) = l
    OBVIOUS
  <2>1. CASE l < m
    <3>1. l \in 1 .. Len(u) /\ Was(l) = l
      BY <1>3, <1>5, <2>1
    <3> QED
      BY <3>1
  <2>2. CASE l > m
    <3>1. l - 1 \in 1 .. Len(u) /\ Was(l - 1) = l
      BY <1>3, <1>5, <2>2
    <3> QED
      BY <3>1
  <2> QED
    BY <2>1, <2>2
<1> HIDE DEF Was
<1>8. \A k, l \in 1 .. Len(t) : t[k].pupa = t[l].pupa => k = l
  BY DEF TimerInv, Agree, t
<1>9. \A l \in 1 .. Len(t) : t[l].pupa = p <=> l = m
  BY <1>1, <1>8
<1>10. Agree(handle', u)
  <2>1. handle = {t[k].pupa : k \in 1 .. Len(t)}
    BY DEF TimerInv, Agree, t
  <2>2. handle \ {p} = {u[j].pupa : j \in 1 .. Len(u)}
    <3>1. ASSUME NEW x \in handle \ {p}
          PROVE  \E j \in 1 .. Len(u) : x = u[j].pupa
      <4>1. PICK l \in 1 .. Len(t) : x = t[l].pupa /\ l # m
        BY <1>9, <2>1
      <4>2. PICK j \in 1 .. Len(u) : Was(j) = l
        BY <1>7, <4>1
      <4> QED
        BY <1>6, <4>1, <4>2
    <3>2. ASSUME NEW j \in 1 .. Len(u)
          PROVE  u[j].pupa \in handle \ {p}
      <4>1. Was(j) \in 1 .. Len(t) /\ Was(j) # m /\ u[j] = t[Was(j)]
        BY <1>6
      <4> QED
        BY <1>9, <2>1, <4>1
    <3> QED
      BY <3>1, <3>2
  <2>3. \A j, l \in 1 .. Len(u) : u[j].pupa = u[l].pupa => j = l
    BY <1>6, <1>8
  <2> QED
    BY <1>2, <2>2, <2>3 DEF Agree
<1>11. meddled' \/ OneShots'
  <2> SUFFICES ASSUME ~meddled' PROVE OneShots'
    BY <1>2
  <2>1. OneShots /\ ~once
    BY <1>2 DEF TimerInv
  <2>2. ASSUME NEW k \in 1 .. Len(timer_infor')
        PROVE  EntryTrue(k)'
    <3>1. /\ k \in 1 .. Len(u) /\ Was(k) \in 1 .. Len(t)
          /\ u[k] = t[Was(k)] /\ t[Was(k)].pupa # p
      BY <1>6, <1>9 DEF u
    <3>2. t[Was(k)].pupa \in Pupas
      BY <1>3, <3>1, EntryFields
    <3>3. EntryTrue(Was(k))
      BY <2>1, <3>1 DEF OneShots, t
    <3>4. /\ asked'[t[Was(k)].pupa] = asked[t[Was(k)].pupa]
          /\ fired'[t[Was(k)].pupa] = fired[t[Was(k)].pupa]
      BY <1>2, <1>3, <3>1, <3>2
    <3> QED
      BY <1>2, <2>1, <3>1, <3>3, <3>4 DEF EntryTrue, t, u
  <2>3. CallIsHere'
    BY <1>2, <2>1 DEF CallIsHere
  <2>4. \A q \in Pupas : asked'[q] = 1 => fired'[q] <= 1 /\ q \in handle'
    BY <1>2, <1>3, <2>1 DEF OneShots
  <2> QED
    BY <2>2, <2>3, <2>4 DEF OneShots
<1>12. TimerTypeOK'
  BY <1>2, <1>3, <1>5 DEF TimerTypeOK, u
<1> QED
  BY <1>2, <1>10, <1>11, <1>12 DEF TimerInv, u

(***************************************************************************)
(* sort.                                                                   *)
(***************************************************************************)
\* The table with the entries written over, each for the client it was for
SameClients(t, u) ==
    /\ u \in Seq(Entry) /\ Len(u) = Len(t)
    /\ \A k \in 1 .. Len(t) : u[k].pupa = t[k].pupa

LEMMA SameClientsAgree ==
  ASSUME NEW h, NEW t \in Seq(Entry), NEW u, Agree(h, t), SameClients(t, u)
  PROVE  Agree(h, u)
BY DEF Agree, SameClients

LEMMA OlderEntry ==
  ASSUME NEW e \in Entry
  PROVE  /\ Older(e) \in Entry
         /\ Older(e).pupa = e.pupa /\ Older(e).status = e.status
<1>1. CASE e.status \in {1, 3} /\ e.age < MaxAge
  <2>1. Older(e) = [e EXCEPT !.age = e.age + 1]
    BY <1>1 DEF Older
  <2>2. e.age + 1 \in 0 .. MaxAge
    BY <1>1, IntervalsAssumption DEF Entry
  <2> QED
    BY <2>1, <2>2 DEF Entry
<1>2. CASE ~(e.status \in {1, 3} /\ e.age < MaxAge)
  BY <1>2 DEF Older
<1> QED
  BY <1>1, <1>2

LEMMA ClickKeeps ==
  ASSUME TimerInv, Click
  PROVE  TimerInv'
<1> DEFINE t == timer_infor
           u == timer_infor'
<1>1. TimerTypeOK /\ t \in Seq(Entry)
  BY DEF TimerInv, TimerTypeOK
<1>2. /\ stage = "events" /\ stage' = "sort" /\ pos' = 1
      /\ u = [k \in 1 .. Len(t) |-> Older(t[k])]
      /\ handle' = handle /\ callee' = callee /\ once' = once
      /\ asked' = asked /\ fired' = fired /\ meddled' = meddled
  BY DEF Click
<1>3. \A k \in 1 .. Len(t) :
        Older(t[k]) \in Entry /\ Older(t[k]).pupa = t[k].pupa /\ Older(t[k]).status = t[k].status
  BY <1>1, OlderEntry
<1>4. /\ SameClients(t, u)
      /\ \A k \in 1 .. Len(t) : u[k].status = t[k].status
  <2> HIDE DEF t, u
  <2>1. \A k \in 1 .. Len(t) : u[k] = Older(t[k])
    BY <1>2
  <2>2. u \in [1 .. Len(t) -> Entry]
    BY <1>2, <1>3
  <2>3. u \in Seq(Entry) /\ Len(u) = Len(t)
    BY <1>1, <2>2
  <2> QED
    BY <1>3, <2>1, <2>3 DEF SameClients
<1>5. TimerTypeOK'
  BY <1>1, <1>2, <1>4 DEF TimerTypeOK, SameClients
<1>6. Agree(handle', u)
  BY <1>1, <1>2, <1>4, SameClientsAgree DEF TimerInv
<1>7. ~once
  BY <1>2 DEF TimerInv
<1>8. meddled' \/ OneShots'
  <2> SUFFICES ASSUME OneShots PROVE OneShots'
    BY <1>2 DEF TimerInv
  <2>1. ASSUME NEW k \in 1 .. Len(timer_infor') PROVE EntryTrue(k)'
    <3>1. k \in 1 .. Len(timer_infor)
      BY <1>4 DEF SameClients
    <3>2. EntryTrue(k) /\ u[k].status = t[k].status /\ u[k].pupa = t[k].pupa
      BY <1>4, <3>1 DEF OneShots, SameClients
    <3> QED
      BY <1>2, <1>7, <3>2 DEF EntryTrue
  <2> QED
    BY <1>2, <1>7, <2>1 DEF OneShots, CallIsHere
<1> QED
  BY <1>2, <1>5, <1>6, <1>7, <1>8 DEF TimerInv

LEMMA PassKeeps ==
  ASSUME TimerInv, Pass \/ Done
  PROVE  TimerInv'
<1>1. /\ stage = "sort" /\ stage' \in {"sort", "events"}
      /\ UNCHANGED <<timer_infor, handle, callee, once, asked, fired, meddled>>
  BY DEF Pass, Walking, Done
<1>2. TimerTypeOK /\ pos \in Nat \ {0} /\ ~once
  BY <1>1 DEF TimerInv, TimerTypeOK
<1>3. pos' \in Nat \ {0}
  BY <1>2 DEF Pass, Done
<1>4. TimerTypeOK'
  BY <1>1, <1>2, <1>3 DEF TimerTypeOK
<1>5. OneShots => OneShots'
  BY <1>1, <1>2 DEF OneShots, CallIsHere, EntryTrue
<1> QED
  BY <1>1, <1>2, <1>4, <1>5 DEF TimerInv

LEMMA CallKeeps ==
  ASSUME TimerInv, Call
  PROVE  TimerInv'
<1> DEFINE t == timer_infor
           e == t[pos]
<1>1. /\ TimerTypeOK /\ t \in Seq(Entry) /\ pos \in Nat \ {0}
      /\ asked \in [Pupas -> {-1, 0, 1, 3}] /\ fired \in [Pupas -> 0 .. 2]
  BY DEF TimerInv, TimerTypeOK
<1>2. /\ stage = "sort" /\ pos <= Len(t) /\ stage' = "facio"
      /\ callee' = e.pupa /\ once' = (e.status = 1)
      /\ fired' = [fired EXCEPT ![e.pupa] =
                      IF e.status = 1 /\ fired[e.pupa] < 2 THEN fired[e.pupa] + 1 ELSE fired[e.pupa]]
      /\ timer_infor' = timer_infor /\ handle' = handle /\ pos' = pos
      /\ asked' = asked /\ meddled' = meddled
  BY DEF Call, Walking, Here
<1>3. pos \in 1 .. Len(t) /\ e \in Entry /\ e.pupa \in Pupas /\ e.status \in {0, 1, 2, 3}
  <2>1. pos \in 1 .. Len(t)
    BY <1>1, <1>2
  <2> QED
    BY <1>1, <2>1, EntryFields
<1>4. ~once
  BY <1>2 DEF TimerInv
<1>5. fired' \in [Pupas -> 0 .. 2]
  <2> HIDE DEF e
  <2>1. fired[e.pupa] \in 0 .. 2
    BY <1>1, <1>3
  <2>2. (IF e.status = 1 /\ fired[e.pupa] < 2 THEN fired[e.pupa] + 1 ELSE fired[e.pupa]) \in 0 .. 2
    BY <2>1
  <2> QED
    BY <1>1, <1>2, <2>2
<1>6. TimerTypeOK'
  BY <1>1, <1>2, <1>3, <1>5 DEF TimerTypeOK
<1>7. OneShots => OneShots'
  <2> SUFFICES ASSUME OneShots PROVE OneShots'
    OBVIOUS
  <2>1. \A k, l \in 1 .. Len(t) : t[k].pupa = t[l].pupa => k = l
    BY DEF TimerInv, Agree
  <2>2. EntryTrue(pos) /\ asked[e.pupa] = 1 => fired[e.pupa] <= 1
    BY <1>3 DEF OneShots
  <2>3. e.status = 1 => asked[e.pupa] = 1 /\ fired[e.pupa] = 0
    BY <1>1, <1>3, <1>4, <2>2 DEF OneShots, EntryTrue
  <2>4. e.status = 1 => fired'[e.pupa] = 1
    BY <1>1, <1>2, <1>3, <2>3
  <2>5. e.status # 1 => fired' = fired
    BY <1>1, <1>2, <1>3
  <2>6. \A p \in Pupas : p # e.pupa => fired'[p] = fired[p]
    BY <1>1, <1>2, <1>3
  <2>7. ASSUME NEW k \in 1 .. Len(timer_infor') PROVE EntryTrue(k)'
    <3>1. k \in 1 .. Len(t) /\ EntryTrue(k)
      BY <1>2, <2>7 DEF OneShots
    <3>2. CASE k = pos
      <4>1. CASE e.status = 1
        <5>1. once' /\ asked'[e.pupa] = 1
          BY <1>2, <2>3, <4>1
        <5> QED
          BY <1>2, <3>2, <4>1, <5>1 DEF EntryTrue
      <4>2. CASE e.status # 1
        BY <1>2, <1>4, <2>5, <3>1, <3>2, <4>2 DEF EntryTrue
      <4> QED
        BY <4>1, <4>2
    <3>3. CASE k # pos
      <4>1. t[k].pupa # e.pupa /\ t[k].pupa \in Pupas
        BY <1>1, <1>3, <2>1, <3>1, <3>3, EntryFields
      <4>2. fired'[t[k].pupa] = fired[t[k].pupa]
        BY <2>6, <4>1
      <4> QED
        BY <1>2, <1>4, <3>1, <4>2 DEF EntryTrue
    <3> QED
      BY <3>2, <3>3
  <2>8. CallIsHere'
    <3>1. once' => e.status = 1
      BY <1>2
    <3>2. e.status = 1 => fired'[e.pupa] > 0
      BY <2>4
    <3> QED
      BY <1>2, <3>1, <3>2 DEF CallIsHere
  <2>9. ASSUME NEW p \in Pupas, asked'[p] = 1
        PROVE  fired'[p] <= 1 /\ p \in handle'
    <3>1. fired[p] <= 1 /\ p \in handle
      BY <1>2, <2>9 DEF OneShots
    <3> QED
      BY <1>2, <2>4, <2>5, <2>6, <3>1
  <2> QED
    BY <2>7, <2>8, <2>9 DEF OneShots
<1> QED
  BY <1>2, <1>6, <1>7 DEF TimerInv

LEMMA ReturnedKeeps ==
  ASSUME TimerInv, Returned
  PROVE  TimerInv'
<1> DEFINE t == timer_infor
           u == timer_infor'
<1>1. /\ TimerTypeOK /\ t \in Seq(Entry) /\ pos \in Nat \ {0}
  BY DEF TimerInv, TimerTypeOK
<1>2. /\ stage' = "sort" /\ callee' = NoPupa /\ u = Marked(t) /\ pos' = pos + 1
      /\ once' = FALSE /\ handle' = handle /\ asked' = asked /\ fired' = fired
      /\ meddled' = meddled
  BY DEF Returned
<1>0. pos' \in Nat \ {0} /\ once' \in BOOLEAN
  <2>1. pos' \in Nat \ {0}
    BY <1>1, <1>2
  <2>2. once' \in BOOLEAN
    BY <1>2, Zenon
  <2> QED
    BY <2>1, <2>2
<1>3. CASE once /\ pos <= Len(t)
  <2>1. pos \in 1 .. Len(t) /\ u = [t EXCEPT ![pos].status = 2]
    BY <1>1, <1>2, <1>3 DEF Marked
  <2>2. t[pos] \in Entry /\ u = [t EXCEPT ![pos] = [t[pos] EXCEPT !.status = 2]]
    BY <1>1, <2>1
  <2>3. [t[pos] EXCEPT !.status = 2] \in Entry
        /\ [t[pos] EXCEPT !.status = 2].pupa = t[pos].pupa
        /\ [t[pos] EXCEPT !.status = 2].status = 2
    BY <2>2 DEF Entry
  <2>4. /\ u \in Seq(Entry) /\ Len(u) = Len(t)
        /\ \A k \in 1 .. Len(t) : k # pos => u[k] = t[k]
        /\ u[pos].pupa = t[pos].pupa /\ u[pos].status = 2
    BY <1>1, <2>1, <2>2, <2>3
  <2> HIDE DEF u
  <2>5. SameClients(t, u)
    BY <2>4 DEF SameClients
  <2>6. OneShots => OneShots'
    <3> SUFFICES ASSUME OneShots PROVE OneShots'
      OBVIOUS
    <3>1. ASSUME NEW k \in 1 .. Len(timer_infor') PROVE EntryTrue(k)'
      <4>1. k \in 1 .. Len(t) /\ EntryTrue(k)
        BY <2>4 DEF OneShots, u
      <4>2. CASE k = pos
        <5>1. t[pos].status = 1 /\ fired[t[pos].pupa] > 0
          BY <1>3 DEF OneShots, CallIsHere
        <5>2. asked[t[pos].pupa] = 1
          BY <4>1, <4>2, <5>1 DEF EntryTrue
        <5> QED
          BY <1>2, <2>4, <4>2, <5>1, <5>2 DEF EntryTrue, u
      <4>3. CASE k # pos
        <5>1. u[k] = t[k]
          BY <2>4, <4>1, <4>3
        <5> QED
          BY <1>2, <4>1, <4>3, <5>1 DEF EntryTrue, u
      <4> QED
        BY <4>2, <4>3
    <3> QED
      BY <1>2, <3>1 DEF OneShots, CallIsHere
  <2>7. Agree(handle', u)
    BY <1>1, <1>2, <2>5, SameClientsAgree DEF TimerInv
  <2>8. TimerTypeOK'
    BY <1>0, <1>1, <1>2, <2>4 DEF TimerTypeOK, u
  <2> QED
    BY <1>2, <2>6, <2>7, <2>8 DEF TimerInv, u
<1>4. CASE ~(once /\ pos <= Len(t))
  <2>1. u = t
    BY <1>2, <1>4 DEF Marked
  <2>2. OneShots => ~once
    BY <1>4 DEF OneShots, CallIsHere
  <2>3. OneShots => OneShots'
    BY <1>2, <2>1, <2>2 DEF OneShots, CallIsHere, EntryTrue
  <2>4. TimerTypeOK'
    BY <1>0, <1>1, <1>2, <2>1 DEF TimerTypeOK
  <2> QED
    BY <1>2, <2>1, <2>3, <2>4 DEF TimerInv
<1> QED
  BY <1>3, <1>4

LEMMA TimerInductive == TimerSpec => []TimerInv
<1>1. TimerInit => TimerInv
  <2> SUFFICES ASSUME TimerInit PROVE TimerInv
    OBVIOUS
  <2>1. timer_infor = << >> /\ Len(timer_infor) = 0 /\ handle = {}
    BY DEF TimerInit
  <2>2. Agree(handle, timer_infor)
    BY <2>1 DEF Agree
  <2>3. TimerTypeOK
    <3>0. once \in BOOLEAN /\ meddled \in BOOLEAN
      BY Zenon DEF TimerInit
    <3>1. timer_infor \in Seq(Entry) /\ pos \in Nat \ {0}
      BY <2>1 DEF TimerInit
    <3>2. asked \in [Pupas -> {-1, 0, 1, 3}] /\ fired \in [Pupas -> 0 .. 2]
      BY DEF TimerInit
    <3> QED
      BY <3>0, <3>1, <3>2 DEF TimerInit, TimerTypeOK
  <2>4. OneShots
    BY <2>1 DEF TimerInit, OneShots, CallIsHere
  <2> QED
    BY <2>2, <2>3, <2>4 DEF TimerInit, TimerInv
<1>2. TimerInv /\ [TimerNext]_timer_vars => TimerInv'
  <2> SUFFICES ASSUME TimerInv, [TimerNext]_timer_vars PROVE TimerInv'
    OBVIOUS
  <2>1. ASSUME NEW p \in Pupas, NEW kind \in {0, 1, 3}, NEW interval \in Intervals \cup {0},
               Set(p, kind, interval)
        PROVE  TimerInv'
    BY <2>1, SetKeeps
  <2>2. CASE SetTimer
    BY <2>1, <2>2 DEF SetTimer
  <2>3. CASE SetAlarm
    BY <2>1, <2>3 DEF SetAlarm
  <2>4. ASSUME NEW p \in Pupas, Clear(p) PROVE TimerInv'
    BY <2>4, ClearKeeps
  <2>5. CASE Click \/ Pass \/ Call \/ Returned \/ Done
    BY <2>5, ClickKeeps, PassKeeps, CallKeeps, ReturnedKeeps
  <2>6. CASE UNCHANGED timer_vars
    BY <2>6 DEF timer_vars, TimerInv, TimerTypeOK, OneShots, CallIsHere, EntryTrue
  <2> QED
    BY <2>2, <2>3, <2>4, <2>5, <2>6 DEF TimerNext
<1> QED
  BY <1>1, <1>2, PTL DEF TimerSpec

\* The timer table and the walk's variables keep their types.
THEOREM TimerTypeCorrect == TimerSpec => []TimerTypeOK
BY TimerInductive, PTL DEF TimerInv

\* At any time, in the middle of a walk too, each client that holds a handle has
\* one entry in the table, and nobody else has any.
THEOREM HandlesAgree == TimerSpec => []HandleAgrees
<1>1. TimerInv => HandleAgrees
  BY AgreeMeans DEF TimerInv, TimerTypeOK
<1> QED
  BY <1>1, TimerInductive, PTL

\* An alarm that does not repeat goes off once, as long as no such alarm's call
\* touches the timers of those that have one: its mark then hits its own entry.
THEOREM OneShotsGoOffOnce == TimerSpec => []OneShotOnce
<1>1. TimerInv => OneShotOnce
  BY DEF TimerInv, OneShots, OneShotOnce
<1> QED
  BY <1>1, TimerInductive, PTL

\* Until then, too, an entry with the status that silences it for good is that
\* of an alarm that has gone off (Sched.cpp:100).
THEOREM OnlyTheFiredAreSilent == TimerSpec => [](meddled \/ DoneMeansFired)
<1>1. TimerInv => meddled \/ DoneMeansFired
  BY DEF TimerInv, OneShots, EntryTrue, DoneMeansFired
<1> QED
  BY <1>1, TimerInductive, PTL

\* The safety half of NoTimerStarves and OneShotFires: what a client has asked
\* for and not had yet is in the table, until a one-shot alarm's call meddles.
NoneIsLost ==
    meddled \/ \A p \in Pupas : asked[p] # -1 =>
        \E k \in Positions(p) :
            timer_infor[k].status = asked[p] \/ (asked[p] = 1 /\ fired[p] > 0)

AskedHoldsHandle == \A p \in Pupas : asked[p] # -1 => p \in handle

THEOREM NoTimerIsLost == TimerSpec => []NoneIsLost
<1>1. TimerInit => AskedHoldsHandle
  BY DEF TimerInit, AskedHoldsHandle
<1>2. TimerInv /\ AskedHoldsHandle /\ [TimerNext]_timer_vars => AskedHoldsHandle'
  <2> SUFFICES ASSUME TimerInv, AskedHoldsHandle, [TimerNext]_timer_vars
               PROVE  AskedHoldsHandle'
    OBVIOUS
  <2>1. asked \in [Pupas -> {-1, 0, 1, 3}]
    BY DEF TimerInv, TimerTypeOK
  <2>2. ASSUME NEW p \in Pupas, NEW kind, NEW interval, Set(p, kind, interval)
        PROVE  AskedHoldsHandle'
    BY <2>1, <2>2 DEF Set, AskedHoldsHandle
  <2>3. ASSUME NEW p \in Pupas, Clear(p) PROVE AskedHoldsHandle'
    BY <2>1, <2>3 DEF Clear, AskedHoldsHandle
  <2>4. CASE UNCHANGED <<asked, handle>>
    BY <2>4 DEF AskedHoldsHandle
  <2>5. Click \/ Pass \/ Call \/ Returned \/ Done \/ UNCHANGED timer_vars
        => UNCHANGED <<asked, handle>>
    BY DEF Click, Pass, Call, Returned, Done, timer_vars
  <2> QED
    BY <2>2, <2>3, <2>4, <2>5 DEF TimerNext, SetTimer, SetAlarm
<1>3. TimerInv /\ AskedHoldsHandle => NoneIsLost
  <2> SUFFICES ASSUME TimerInv, AskedHoldsHandle, OneShots, NEW p \in Pupas, asked[p] # -1
               PROVE  \E k \in Positions(p) :
                         timer_infor[k].status = asked[p] \/ (asked[p] = 1 /\ fired[p] > 0)
    BY DEF TimerInv, NoneIsLost
  <2>1. PICK k \in 1 .. Len(timer_infor) : timer_infor[k].pupa = p
    BY DEF AskedHoldsHandle, TimerInv, Agree
  <2>2. timer_infor[k].status = asked[p] \/ (asked[p] = 1 /\ fired[p] > 0)
    BY <2>1 DEF OneShots, EntryTrue
  <2> QED
    BY <2>1, <2>2 DEF Positions
<1> QED
  BY <1>1, <1>2, <1>3, TimerInductive, PTL DEF TimerSpec
=============================================================================
