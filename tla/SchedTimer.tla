----------------------------- MODULE SchedTimer -----------------------------
(***************************************************************************)
(* The timers of the select scheduler: the table timer_infor, filled and   *)
(* emptied by DMD_SET_TIMER, DMD_SET_ALARM and DMD_CLR_TIMER               *)
(* (Sched.cpp:235-305) and walked by sort (559-600) whenever a turn of the *)
(* event loop ends in a click (552).                                       *)
(*                                                                         *)
(* The table is an array whose first null pupa ends it, and which doubles  *)
(* when it is full; here it is a sequence.  Time passes in clicks: an      *)
(* interval is a number of them, and age counts those since the entry was  *)
(* set, up to the longest interval.                                        *)
(*                                                                         *)
(* A TIMER call is a facio into the module tree, where clients set and     *)
(* clear timers: their own (Tcpsrvuna.cpp:431-434 ends the session, which  *)
(* clears the alarm that called it, 980) and those of others.              *)
(***************************************************************************)
EXTENDS Integers, Sequences

CONSTANTS Pupas,      \* the clients
          NoPupa,
          Intervals,  \* the intervals of alarms, in clicks
          MaxAge      \* none is longer

ASSUME IntervalsAssumption ==
    MaxAge \in Nat /\ Intervals \subseteq 1 .. MaxAge /\ Intervals # {}
ASSUME NoPupaAssumption == NoPupa \notin Pupas

\* status 0: called at every click; 1: an alarm, called once; 3: an alarm that
\* repeats; 2: an alarm that was called.
Entry == [pupa : Pupas, status : {0, 1, 2, 3},
          interval : Intervals \cup {0}, age : 0 .. MaxAge]

VARIABLES
    timer_infor,  \* the table
    handle,       \* the clients whose clr_timer_pius.indic is set
    stage,        \* where the loop is: "events", "sort", or in a "facio"
    pos,          \* sort's counter i, from 1
    callee,       \* the client whose TIMER call is out
    once,         \* sort is in the switch branch of status 1
    asked,        \* history: the kind each client asked for last, -1 for none
    fired,        \* history: how often its one-shot alarm went off, up to 2
    meddled       \* history: the call of a one-shot alarm has cleared a timer
                  \* or set one anew

timer_vars == <<timer_infor, handle, stage, pos, callee, once, asked, fired, meddled>>

TimerTypeOK ==
    /\ timer_infor \in Seq(Entry)
    /\ handle \in SUBSET Pupas
    /\ stage \in {"events", "sort", "facio"}
    /\ pos \in Nat \ {0}
    /\ callee \in Pupas \cup {NoPupa}
    /\ once \in BOOLEAN
    /\ asked \in [Pupas -> {-1, 0, 1, 3}]
    /\ fired \in [Pupas -> 0 .. 2]
    /\ meddled \in BOOLEAN

TimerInit ==
    /\ timer_infor = << >>
    /\ handle = {}
    /\ stage = "events"
    /\ pos = 1
    /\ callee = NoPupa
    /\ once = FALSE
    /\ asked = [p \in Pupas |-> -1]
    /\ fired = [p \in Pupas |-> 0]
    /\ meddled = FALSE

Positions(p) == {k \in 1 .. Len(timer_infor) : timer_infor[k].pupa = p}

(***************************************************************************)
(* DMD_SET_TIMER, DMD_SET_ALARM, DMD_CLR_TIMER: from a client, who is told *)
(* by TIMER_HANDLE, in the same call, what to clear the timer with.        *)
(***************************************************************************)
ClientsCall == stage \in {"events", "facio"}

Meddles == meddled' = (meddled \/ (stage = "facio" /\ once))

\* A client without an entry takes the one at the end.
Add(e) ==
    /\ ClientsCall
    /\ Positions(e.pupa) = {}
    /\ timer_infor' = Append(timer_infor, e)
    /\ UNCHANGED meddled

\* (mutant of Rearm) the table is searched for a null entry only.
RearmAppends(e) ==
    /\ ClientsCall
    /\ Positions(e.pupa) # {}
    /\ timer_infor' = Append(timer_infor, e)
    /\ Meddles

\* A client that has one gets it anew.
Rearm(e) ==
    /\ ClientsCall
    /\ \E k \in Positions(e.pupa) : timer_infor' = [timer_infor EXCEPT ![k] = e]
    /\ Meddles

Set(p, kind, interval) ==
    /\ LET e == [pupa |-> p, status |-> kind, interval |-> interval, age |-> 0]
       IN Add(e) \/ Rearm(e)
    /\ handle' = handle \cup {p}
    /\ asked' = [asked EXCEPT ![p] = kind]
    /\ fired' = [fired EXCEPT ![p] = 0]
    /\ UNCHANGED <<stage, pos, callee, once>>

\* The entries behind the one that is cleared move forward.
Remove(k) ==
    timer_infor' = SubSeq(timer_infor, 1, k - 1) \o SubSeq(timer_infor, k + 1, Len(timer_infor))

\* A client without a handle is ignored.
Clear(p) ==
    /\ ClientsCall
    /\ p \in handle
    /\ \E k \in Positions(p) : Remove(k)
    /\ Meddles
    /\ handle' = handle \ {p}
    /\ asked' = [asked EXCEPT ![p] = -1]
    /\ fired' = [fired EXCEPT ![p] = 0]
    /\ UNCHANGED <<stage, pos, callee, once>>

(***************************************************************************)
(* sort.                                                                   *)
(***************************************************************************)
\* since is looked at only where it matters.
Older(e) ==
    IF e.status \in {1, 3} /\ e.age < MaxAge THEN [e EXCEPT !.age = @ + 1] ELSE e

\* now is read once: an entry set during this walk has not aged.
Click ==
    /\ stage = "events"
    /\ stage' = "sort"
    /\ pos' = 1
    /\ timer_infor' = [k \in 1 .. Len(timer_infor) |-> Older(timer_infor[k])]
    /\ UNCHANGED <<handle, callee, once, asked, fired, meddled>>

\* (mutant of Due) alarms that do not repeat are forgotten.
DueRepeating(e) ==
    \/ e.status = 0
    \/ e.status = 3 /\ e.age >= e.interval

Due(e) ==
    \/ e.status = 0
    \/ e.status \in {1, 3} /\ e.age >= e.interval

Here == timer_infor[pos]
Walking == stage = "sort" /\ pos <= Len(timer_infor)

Pass ==
    /\ Walking
    /\ ~Due(Here)
    /\ pos' = pos + 1
    /\ UNCHANGED <<timer_infor, handle, stage, callee, once, asked, fired, meddled>>

Call ==
    /\ Walking
    /\ Due(Here)
    /\ stage' = "facio"
    /\ callee' = Here.pupa
    /\ once' = (Here.status = 1)
    /\ fired' = [fired EXCEPT ![callee'] = IF once' /\ @ < 2 THEN @ + 1 ELSE @]
    /\ UNCHANGED <<timer_infor, handle, pos, asked, meddled>>

\* (mutant of Marked) every alarm is marked, the one that repeats too.
MarkedAll(table) ==
    IF pos <= Len(table) /\ table[pos].status # 0
    THEN [table EXCEPT ![pos].status = 2]
    ELSE table

\* (mutant of Marked) no alarm is.
MarkedNever(table) == table

\* "timer_infor[i].status = 2" after the call of an alarm that does not
\* repeat: whichever entry is at i by now.  Behind the last one that is a null
\* entry, whose status the next DMD_SET_* sets anyway.
Marked(table) ==
    IF once /\ pos <= Len(table) THEN [table EXCEPT ![pos].status = 2] ELSE table

Returned ==
    /\ stage = "facio"
    /\ stage' = "sort"
    /\ callee' = NoPupa
    /\ timer_infor' = Marked(timer_infor)
    /\ pos' = pos + 1
    /\ once' = FALSE
    /\ UNCHANGED <<handle, asked, fired, meddled>>

Done ==
    /\ stage = "sort"
    /\ pos > Len(timer_infor)
    /\ stage' = "events"
    /\ pos' = 1
    /\ UNCHANGED <<timer_infor, handle, callee, once, asked, fired, meddled>>

SetTimer == \E p \in Pupas : Set(p, 0, 0)

SetAlarm ==
    \E p \in Pupas, kind \in {1, 3}, interval \in Intervals : Set(p, kind, interval)

TimerNext ==
    \/ SetTimer \/ SetAlarm
    \/ \E p \in Pupas : Clear(p)
    \/ Click \/ Pass \/ Call \/ Returned \/ Done

\* select waits for a bounded time and a turn that found nothing ready clicks;
\* sort is a function call, and so is each facio.
TimerFairness == WF_timer_vars(Click) /\ WF_timer_vars(Pass \/ Call \/ Returned \/ Done)

TimerSpec == TimerInit /\ [][TimerNext]_timer_vars /\ TimerFairness

JustSet(p) == \E k \in Positions(p) : timer_infor[k].age = 0

(***************************************************************************)
(* Properties.                                                             *)
(***************************************************************************)
\* A client has at most one entry, and has one exactly when it holds the handle
\* to clear it with: no TIMER call reaches a client that could not stop it, or
\* that was deleted after it cleared its timer (Sched.cpp:263-282,287-304).
HandleAgrees ==
    /\ handle = {timer_infor[k].pupa : k \in 1 .. Len(timer_infor)}
    /\ \A p \in Pupas, k, l \in 1 .. Len(timer_infor) :
          k \in Positions(p) /\ l \in Positions(p) => k = l

\* What follows holds as long as the call of a one-shot alarm clears no timer
\* and sets none anew: "status = 2" then goes to the entry that was called.

\* No client that asked to be called at every click, or over and over, is
\* passed by for ever: an entry that a call's DMD_CLR_TIMER shifts under the
\* counter is nearer the front at the next click (Sched.cpp:292-298,570).  An
\* alarm that is set anew starts anew.
NoTimerStarves ==
    \A p \in Pupas :
        []<>\/ callee = p
            \/ asked[p] \notin {0, 3}
            \/ asked[p] = 3 /\ JustSet(p)
            \/ meddled

\* An alarm that does not repeat goes off once (Sched.cpp:99 "only notified
\* once", 585 "one notification per timeout only").
OneShotOnce == \A p \in Pupas : asked[p] = 1 => fired[p] <= 1 \/ meddled

\* It does go off, unless it is cleared or time and again set anew
\* (Sched.cpp:582-584).
OneShotFires ==
    \A p \in Pupas : []<>(asked[p] # 1 \/ fired[p] > 0 \/ JustSet(p) \/ meddled)

\* Only an alarm that has gone off has the status that silences it for good
\* (Sched.cpp:100 "already notified, will not be notified again").
DoneMeansFired ==
    \A k \in 1 .. Len(timer_infor) :
        timer_infor[k].status = 2 =>
            asked[timer_infor[k].pupa] = 1 /\ fired[timer_infor[k].pupa] > 0

=============================================================================
