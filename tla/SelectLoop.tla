----------------------------- MODULE SelectLoop -----------------------------
(***************************************************************************)
(* One descriptor pool of the select scheduler under its event loop:       *)
(* Sched::sponte's FD_SET*/FD_CLR* handlers, the select call of Sched::run *)
(* and Tor_Pool::isset, which walks the pool with the fd_set select        *)
(* returned and calls pupa->facio of every ready criptor.                  *)
(*                                                                         *)
(* The calls are synchronous: while a facio runs, the client that runs in  *)
(* it (any client: a facio fans out over the module tree) may set, clear,  *)
(* close and open descriptors, and isset then goes on with the fd_set and  *)
(* the counter it had.                                                     *)
(*                                                                         *)
(* The clients keep the contract of Describo.h:27-30: a criptor changes    *)
(* only after it was cleared.  TcpClient models a client that does not.    *)
(***************************************************************************)
EXTENDS TorPool, FiniteSets

CONSTANT OtherReady  \* bound on the bits the other two fd_sets add to nready

ASSUME OtherReadyAssumption == OtherReady \in Nat
\* An fd_set is a bitmap of FD_SETSIZE bits.
ASSUME FdsAssumption == IsFiniteSet(Fds)

VARIABLES
    tors,     \* the pool
    scanfd,   \* the Criptor field of each client, stale once closed
    live,     \* the criptors whose descriptor is open
    at,       \* where the loop is: "run", "isset", or in a client's "facio"
    pset,     \* isset's argument: the fd_set as select returned it
    nready,   \* isset's reference argument
    i,        \* isset's slot counter
    callee,   \* the criptor whose pupa->facio runs, NoTor outside "facio"
    ready,    \* history: the criptors that were ready when select returned
    touched,  \* history: the criptors opened or cleared since then
    served,   \* history: the criptors called before they were touched
    stray     \* history: some criptor was called after it was touched

history == <<ready, touched, served, stray>>
loop == <<at, pset, nready, i, callee>>
vars == <<tors, scanfd, live, loop, history>>

TypeOK ==
    /\ PoolType(tors)
    /\ scanfd \in [Tors -> Fds]
    /\ live \in SUBSET Tors
    /\ at \in {"run", "isset", "facio"}
    /\ pset \in SUBSET Fds
    /\ nready \in Int
    /\ i \in 0 .. TOR_SIZE
    /\ callee \in Tors \cup {NoTor}
    /\ ready \in SUBSET Tors
    /\ touched \in SUBSET Tors
    /\ served \in SUBSET Tors
    /\ stray \in BOOLEAN

Init ==
    /\ tors = EmptyPool
    /\ \E fd \in Fds : scanfd = [t \in Tors |-> fd]
    /\ live = {}
    /\ at = "run"
    /\ pset = {}
    /\ nready = 0
    /\ i = 0
    /\ callee = NoTor
    /\ ready = {}
    /\ touched = {}
    /\ served = {}
    /\ stray = FALSE

(***************************************************************************)
(* The clients, from the timers and the deferred calls ("run") or from     *)
(* within a readiness call ("facio").                                      *)
(***************************************************************************)
ClientsRun == at \in {"run", "facio"}

\* What happens between two walks is no part of the history of either.
Touch(t) == touched' = IF at = "facio" THEN touched \cup {t} ELSE touched

\* socket/accept gave t a descriptor number that nobody has open.
Open(t, fd) ==
    /\ ClientsRun
    /\ t \notin live
    /\ \A u \in live : scanfd[u] # fd
    /\ scanfd' = [scanfd EXCEPT ![t] = fd]
    /\ live' = live \cup {t}
    /\ Touch(t)
    /\ UNCHANGED <<tors, loop, ready, served, stray>>

FD_SET(t) ==
    /\ ClientsRun
    /\ t \in live
    /\ tors' = Setup(tors, t, scanfd[t])
    /\ UNCHANGED <<scanfd, live, loop, history>>

FD_CLR(t) ==
    /\ ClientsRun
    /\ t \in live
    /\ tors' = Clear(tors, t, scanfd[t])
    /\ Touch(t)
    /\ UNCHANGED <<scanfd, live, loop, ready, served, stray>>

Close(t) ==
    /\ ClientsRun
    /\ t \in live \ Watched(tors)
    /\ live' = live \ {t}
    /\ UNCHANGED <<tors, scanfd, loop, history>>

(***************************************************************************)
(* The loop.                                                               *)
(***************************************************************************)
\* rset = rd_tors.rwSet; nready = select(...): some watched descriptors are
\* ready, and select counts those of all three sets.  The walk is entered
\* only when the count is positive.
Select ==
    /\ at = "run"
    /\ \E set \in SUBSET tors.rwSet, others \in 0 .. OtherReady :
          /\ Cardinality(set) + others > 0
          /\ pset' = set
          /\ nready' = Cardinality(set) + others
          /\ ready' = {t \in Watched(tors) : scanfd[t] \in set}
    /\ at' = "isset"
    /\ UNCHANGED <<tors, scanfd, live, i, callee, touched, served, stray>>

Walking == at = "isset" /\ i < tors.cur /\ nready > 0

\* (mutant of IsSet) the fd_set is not consulted.
IsSetAnyone == tors.pool[i] # NoTor

\* (*pidle) && FD_ISSET((*pidle)->scanfd, pset)
IsSet == tors.pool[i] # NoTor /\ scanfd[tors.pool[i]] \in pset

\* (mutant of Skip) nready-- outside the if.
SkipCounts ==
    /\ Walking
    /\ ~IsSet
    /\ i' = i + 1
    /\ nready' = nready - 1
    /\ UNCHANGED <<tors, scanfd, live, at, pset, callee, history>>

Skip ==
    /\ Walking
    /\ ~IsSet
    /\ i' = i + 1
    /\ UNCHANGED <<tors, scanfd, live, at, pset, nready, callee, history>>

Call ==
    /\ Walking
    /\ IsSet
    /\ at' = "facio"
    /\ callee' = tors.pool[i]
    /\ served' = served \cup ({callee'} \ touched)
    /\ stray' = (stray \/ callee' \in touched)
    /\ UNCHANGED <<tors, scanfd, live, pset, nready, i, ready, touched>>

Return ==
    /\ at = "facio"
    /\ at' = "isset"
    /\ callee' = NoTor
    /\ nready' = nready - 1
    /\ i' = i + 1
    /\ UNCHANGED <<tors, scanfd, live, pset, history>>

\* isset returns, its locals are gone, and the loop comes round to the next
\* select.
Done ==
    /\ at = "isset"
    /\ ~(i < tors.cur /\ nready > 0)
    /\ at' = "run"
    /\ pset' = {}
    /\ nready' = 0
    /\ i' = 0
    /\ ready' = {}
    /\ touched' = {}
    /\ served' = {}
    /\ stray' = FALSE
    /\ UNCHANGED <<tors, scanfd, live, callee>>

Next ==
    \/ \E t \in Tors, fd \in Fds : Open(t, fd)
    \/ \E t \in Tors : FD_SET(t) \/ FD_CLR(t) \/ Close(t)
    \/ Select
    \/ Skip \/ Call \/ Return \/ Done

\* The walk is one function call, and a facio returns to it.
Fairness == WF_vars(Skip \/ Call \/ Return \/ Done)

Spec == Init /\ [][Next]_vars /\ Fairness

(***************************************************************************)
(* Properties.                                                             *)
(***************************************************************************)
\* The slots, the stack of vacated slots and the index fields of the criptors
\* stay consistent through every order of FD_SET* and FD_CLR*, those made
\* inside isset's walk included (Sched.cpp:366-402).
PoolConsistent == PoolOK(tors)

\* select is asked for the descriptors of the criptors in the pool and for no
\* other, none of which is closed: the set bits and the slots never part
\* (FD_SET and FD_CLR at Sched.cpp:383,390).
WatchExact ==
    /\ tors.rwSet = {scanfd[t] : t \in Watched(tors)}
    /\ Watched(tors) \subseteq live

\* FD_SET* is refused, and the descriptor left unwatched with a CRIT log line,
\* only when TOR_SIZE criptors are watched: clearing leaks no slot
\* (Sched.cpp:375-381,393-400).
RefusedOnlyWhenFull ==
    \A t \in Tors : Refuses(tors, t) => Cardinality(Watched(tors)) = TOR_SIZE

\* A readiness call never reaches a criptor that was cleared, even when it was
\* cleared by a call made earlier in the same walk; and one that is called
\* although select did not find it ready was opened or cleared since select
\* returned: isset tests a descriptor number against an old fd_set, and only a
\* number that changed hands misleads it (Sched.cpp:412-415).
CallsAreDue ==
    [][callee' # callee /\ callee' # NoTor
       => /\ callee' \in Watched(tors) \cap live
          /\ callee' \in ready \cup touched]_vars

\* When the walk is over, whoever was ready and left alone was called, unless
\* a criptor that was touched took a turn: nready is then used up early
\* (Sched.cpp:410,416).
ReadyIsServed ==
    [][at = "isset" /\ at' = "run" => ready \subseteq served \cup touched \/ stray]_vars
=============================================================================
