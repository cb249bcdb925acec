---------------------------- MODULE SchedPendor ----------------------------
(***************************************************************************)
(* The deferred calls of the scheduler: the array pendors, filled by       *)
(* CMD_PUT_PENDOR (Sched.cpp:317-332) and emptied by run_pendors           *)
(* (Sched.cpp:436-459) at the top of every turn of the event loop.  TPoll  *)
(* has the same two pieces of code (TPoll.cpp:1302-1317,1417-1440).        *)
(*                                                                         *)
(* A client (Ponder::put_sch, PacTran::put_sch) puts a call while the loop *)
(* walks the ready descriptors or the timers, and a deferred call, being a *)
(* facio into the module tree, may put another one.                        *)
(***************************************************************************)
EXTENDS Integers

CONSTANTS Calls,         \* the calls (pupa, dir, from, pius)
          NoCall,        \* pupa = 0
          pendor_size    \* length of the array

ASSUME PendorSizeAssumption == pendor_size \in Nat \ {0}
ASSUME NoCallAssumption == NoCall \notin Calls

Slots == 0 .. pendor_size - 1

VARIABLES
    pendors,      \* the array
    pendor_top,   \* the highest slot run_pendors need look at, -1 for none
    at,           \* where the loop is: "events", "pendors", in a "facio"
    i,            \* run_pendors' slot counter
    running,      \* the call being made
    dropped,      \* history: the last put found no free slot
    due,          \* history: the slots run_pendors has yet to empty
    nested        \* history: the slots filled from inside a deferred call

vars == <<pendors, pendor_top, at, i, running, dropped, due, nested>>

TypeOK ==
    /\ pendors \in [Slots -> Calls \cup {NoCall}]
    /\ pendor_top \in Slots \cup {-1}
    /\ at \in {"events", "pendors", "facio"}
    /\ i \in Slots \cup {-1}
    /\ running \in Calls \cup {NoCall}
    /\ dropped \in BOOLEAN
    /\ due \in SUBSET Slots
    /\ nested \in SUBSET Slots

Init ==
    /\ pendors = [s \in Slots |-> NoCall]
    /\ pendor_top = -1
    /\ at = "events"
    /\ i = -1
    /\ running = NoCall
    /\ dropped = FALSE
    /\ due = {}
    /\ nested = {}

Held == {s \in Slots : pendors[s] # NoCall}

ClientsRun == at \in {"events", "facio"}

\* (mutant of FirstFree) the test of pupa == 0 is left out.
AnySlot(s) == s \in Slots /\ (\A r \in Slots : s <= r)
\* The first free slot.
FirstFree(s) == s \in Slots \ Held /\ \A r \in Slots \ Held : s <= r

(***************************************************************************)
(* CMD_PUT_PENDOR.                                                         *)
(***************************************************************************)
Store(c) ==
    /\ ClientsRun
    /\ \E s \in Slots :
          /\ FirstFree(s)
          /\ pendors' = [pendors EXCEPT ![s] = c]
          /\ pendor_top' = IF s > pendor_top THEN s ELSE pendor_top
          /\ nested' = IF at = "facio" THEN nested \cup {s} ELSE nested
    /\ dropped' = FALSE
    /\ UNCHANGED <<at, i, running, due>>

\* No slot is free: the handler returns true all the same.
StoreNothing(c) ==
    /\ ClientsRun
    /\ Held = Slots
    /\ dropped' = TRUE
    /\ UNCHANGED <<pendors, pendor_top, at, i, running, due, nested>>

(***************************************************************************)
(* run_pendors.                                                            *)
(***************************************************************************)
\* (mutant of Enter) slot 0 alone does not count.
EnterAboveZero ==
    /\ at = "events"
    /\ pendor_top > 0
    /\ at' = "pendors"
    /\ i' = pendor_top
    /\ due' = Held \cap 0 .. pendor_top
    /\ UNCHANGED <<pendors, pendor_top, running, dropped, nested>>

Enter ==
    /\ at = "events"
    /\ pendor_top > -1
    /\ at' = "pendors"
    /\ i' = pendor_top
    /\ due' = Held \cap 0 .. pendor_top
    /\ UNCHANGED <<pendors, pendor_top, running, dropped, nested>>

\* The slot is emptied before the call.  The code passes over an empty slot,
\* but it never meets one (NoHoles).
Run ==
    /\ at = "pendors"
    /\ i > -1
    /\ pendors[i] # NoCall
    /\ running' = pendors[i]
    /\ pendors' = [pendors EXCEPT ![i] = NoCall]
    /\ pendor_top' = i - 1
    /\ at' = "facio"
    /\ due' = due \ {i}
    /\ nested' = nested \ {i}
    /\ UNCHANGED <<i, dropped>>

ReturnStops ==
    /\ at = "facio"
    /\ at' = "pendors"
    /\ i' = -1
    /\ running' = NoCall
    /\ UNCHANGED <<pendors, pendor_top, dropped, due, nested>>

Return ==
    /\ at = "facio"
    /\ at' = "pendors"
    /\ i' = i - 1
    /\ running' = NoCall
    /\ UNCHANGED <<pendors, pendor_top, dropped, due, nested>>

Leave ==
    /\ at = "pendors"
    /\ i = -1
    /\ at' = "events"
    /\ UNCHANGED <<pendors, pendor_top, i, running, dropped, due, nested>>

Next ==
    \/ \E c \in Calls : Store(c) \/ StoreNothing(c)
    \/ Enter \/ Run \/ Return \/ Leave

\* select waits for a bounded time, so the loop comes round; run_pendors is a
\* function call, and so is each facio.
Fairness == WF_vars(Enter \/ Run \/ Return \/ Leave)

Spec == Init /\ [][Next]_vars /\ Fairness

(***************************************************************************)
(* Properties.                                                             *)
(***************************************************************************)
\* The array keeps the promise of DeferredCalls: calls are neither lost,
\* duplicated nor overwritten by puts made while run_pendors walks, and a put
\* is dropped only when every slot is taken (Sched.cpp:320-331,453-456).
Deferred == INSTANCE DeferredCalls WITH Places <- Slots, pending <- pendors
KeepsItsPromise == Deferred!Spec

\* A turn of the loop makes every call that was within pendor_top when the
\* turn began, whatever those calls put meanwhile (Sched.cpp:441-456).
TurnServesAll ==
    [][at = "pendors" /\ at' = "events" => due = {}]_vars

\* Between two turns no call that was put from outside the deferred calls lies
\* above pendor_top, out of reach of the next turn, whatever the deferred calls
\* put meanwhile (Sched.cpp:328,454,474).
TopCoversHeld ==
    at = "events" => \A s \in Held \ nested : s <= pendor_top

\* The slots within pendor_top, and those the counter has yet to visit, are all
\* taken: puts fill the first free slot and the walk empties the highest, so no
\* turn spends time on an empty slot (Sched.cpp:320-328,442,447).
NoHoles ==
    \A s \in Slots :
        /\ at \in {"events", "facio"} /\ s <= pendor_top => s \in Held
        /\ at = "pendors" /\ s <= i => s \in Held

\* Such a call is made.
OuterCallsAreMade == \A s \in Slots : s \in Held \ nested ~> s \notin Held

\* Every call that was put is made: a client counts on it ("wait tpoll (sched)
\* to call this->facio()", PacTran.cpp:293).
EveryCallIsMade == \A s \in Slots : s \in Held ~> s \notin Held
=============================================================================
