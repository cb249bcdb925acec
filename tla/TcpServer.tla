----------------------------- MODULE TcpServer -----------------------------
(***************************************************************************)
(* The TCP server of a module tree: the root Tcpsrvuna, which listens, and *)
(* the objects cloned from it, which Nostra lends out, each to keep one    *)
(* session or to listen at one more address.  The build is a Unix one,     *)
(* sockets do not block, and use_epoll is false.                           *)
(*                                                                         *)
(* Of the scheduler the module has what SelectLoop shows of it: a criptor  *)
(* is called only while it is watched; one that is watched and ready is    *)
(* called again and again; and one may be called that is not ready, when   *)
(* its descriptor number changed hands during the walk.  The last makes no *)
(* difference to these handlers: recv and send answer EAGAIN, accept finds *)
(* no connection, and for FD_PROEX the peer has sent urgent data.          *)
(*                                                                         *)
(* Nostra has cloned all the objects it may, and no threads refer to them: *)
(* CMD_ALLOC_IDLE lends the one that has been idle longest (ObjectPool).   *)
(*                                                                         *)
(* The users of a session, the modules to the right, act at any time       *)
(* between the handlers of the server.                                     *)
(***************************************************************************)
EXTENDS WatchSet, Integers, Sequences, FiniteSets

CONSTANTS Children,  \* the objects Nostra lends
          Root,      \* the listener with the configuration (has_config)
          Fds,       \* descriptor numbers
          NoFd       \* INVALID_SOCKET

ASSUME RootAssumption == Root \notin Children
ASSUME FdsAssumption == NoFd \notin Fds
ASSUME ChildrenAssumption == IsFiniteSet(Children)

Objs == Children \cup {Root}

VARIABLES
    lonely,     \* G_CFG: stop listening once there is a connection
    file,       \* the kernel's view of a descriptor: "closed", "listening", a
                \* connection ("up") or one that the peer has left ("gone")
    listenfd, connfd, \* Tcpsrv.  The root's connfd is never read again
    isListener, \* Tcpsrvuna
    wr_blocked, \* Tcpsrv: the last send was incomplete
    alarm,      \* the scheduler's timer table has an alarm of the object
    scanfd,     \* the Criptor field
    rd, wr, ex, \* the scheduler's pools
    idle,       \* Nostra's queue of the objects it can lend
    ended,      \* history: who was told END_SESSION by the last action
    inherited,  \* history: the session began with wr_blocked
    left,       \* history: the objects whose alarm a release has left behind
    strayed     \* such an alarm has ended an object that had no session

tcpsrv == <<listenfd, connfd, isListener>>
pools == <<scanfd, rd, wr, ex>>
alarms == <<alarm, left, strayed>>
vars == <<lonely, file, tcpsrv, wr_blocked, alarms, pools, idle, ended, inherited>>

WatchType(w) == w \in [on : SUBSET Objs, bits : SUBSET Fds]

TypeOK ==
    /\ lonely \in BOOLEAN
    /\ file \in [Fds -> {"closed", "listening", "up", "gone"}]
    /\ listenfd \in [Objs -> Fds \cup {NoFd}]
    /\ connfd \in [Children -> Fds \cup {NoFd}]
    /\ isListener \in [Objs -> BOOLEAN]
    /\ wr_blocked \in [Children -> BOOLEAN]
    /\ alarm \in [Children -> BOOLEAN]
    /\ inherited \in [Children -> BOOLEAN]
    /\ scanfd \in [Objs -> Fds \cup {NoFd}]
    /\ WatchType(rd) /\ WatchType(wr) /\ WatchType(ex)
    /\ idle \in Seq(Children)
    /\ ended \subseteq Children
    /\ left \subseteq Children
    /\ strayed \in BOOLEAN

\* The root is not started yet (on_start is false).
Init ==
    /\ lonely \in BOOLEAN
    /\ file = [fd \in Fds |-> "closed"]
    /\ listenfd = [t \in Objs |-> NoFd]
    /\ connfd = [c \in Children |-> NoFd]
    /\ isListener = [t \in Objs |-> t = Root]
    /\ wr_blocked = [c \in Children |-> FALSE]
    /\ alarm = [c \in Children |-> FALSE]
    /\ scanfd = [t \in Objs |-> NoFd]
    /\ rd = NoneWatched /\ wr = NoneWatched /\ ex = NoneWatched
    /\ idle \in {s \in [1 .. Cardinality(Children) -> Children] :
                   /\ \A c \in Children : \E a \in DOMAIN s : s[a] = c
                   /\ \A a, b \in DOMAIN s : s[a] = s[b] => a = b}
    /\ ended = {}
    /\ inherited = [c \in Children |-> FALSE]
    /\ left = {}
    /\ strayed = FALSE

\* Nothing at end stops a call for the object.
Session(c) == ~isListener[c] /\ connfd[c] # NoFd

\* The users of c were told START_SESSION and have the session still.
Live(c) == c \in ex.on

\* There is a connection at the end of which the peer is, or has been.
Connected(c) == connfd[c] # NoFd /\ file[connfd[c]] \in {"up", "gone"}
PeerIsThere(c) == connfd[c] # NoFd /\ file[connfd[c]] = "up"

Unused == {fd \in Fds : file[fd] = "closed"}

\* A bound: once a stray alarm has mixed up the objects of a server, the model does
\* not follow it any further.
Followed == ~strayed
GivenUp == ~Followed /\ UNCHANGED vars

(***************************************************************************)
(* What the handlers are made of.                                          *)
(***************************************************************************)
\* Each of them tells some users END_SESSION, or none; the configuration stays.
Tell(users) == ended' = users /\ UNCHANGED lonely
NoNews == Tell({})

\* FD_CLRRD, FD_CLRWR and FD_CLREX of c; its connection is closed; Nostra gets
\* it back.
LetGo(c) ==
    /\ rd' = Unwatch(rd, c, scanfd[c])
    /\ wr' = Unwatch(wr, c, scanfd[c])
    /\ ex' = Unwatch(ex, c, scanfd[c])
    /\ file' = [file EXCEPT ![connfd[c]] = "closed"]
    /\ connfd' = [connfd EXCEPT ![c] = NoFd]
    /\ idle' = Append(idle, c)
    /\ inherited' = [inherited EXCEPT ![c] = FALSE]
    /\ UNCHANGED <<listenfd, isListener, scanfd>>

\* DMD_CLR_TIMER.
ClearAlarm(c) ==
    /\ alarm' = [alarm EXCEPT ![c] = FALSE]
    /\ left' = left \ {c}

\* (mutants of End) the alarm stays; the right is not told; wr is not cleared.
EndKeepsAlarm(c) ==
    /\ IF Session(c)
       THEN LetGo(c) /\ Tell({c}) /\ strayed' = ~Live(c)
       ELSE NoNews /\ UNCHANGED <<file, tcpsrv, strayed, pools, idle, inherited>>
    /\ UNCHANGED <<alarm, left>>

EndMute(c) ==
    /\ IF Session(c)
       THEN LetGo(c) /\ ClearAlarm(c) /\ strayed' = ~Live(c)
       ELSE UNCHANGED <<file, tcpsrv, alarms, pools, idle, inherited>>
    /\ NoNews

EndLeavesWr(c) ==
    /\ IF Session(c)
       THEN /\ rd' = Unwatch(rd, c, scanfd[c])
            /\ ex' = Unwatch(ex, c, scanfd[c])
            /\ file' = [file EXCEPT ![connfd[c]] = "closed"]
            /\ connfd' = [connfd EXCEPT ![c] = NoFd]
            /\ idle' = Append(idle, c)
            /\ ClearAlarm(c)
            /\ Tell({c})
            /\ strayed' = ~Live(c)
            /\ inherited' = [inherited EXCEPT ![c] = FALSE]
            /\ UNCHANGED <<listenfd, isListener, scanfd, wr>>
       ELSE NoNews /\ UNCHANGED <<file, tcpsrv, alarms, pools, idle, inherited>>

\* end, at once or not: with one process the socket is closed either way.  An
\* object that was a listener has a stale connfd: if it has no session, this
\* closes whatever has that number now and gives the object back once more.
End(c) ==
    IF Session(c)
    THEN LetGo(c) /\ ClearAlarm(c) /\ Tell({c}) /\ strayed' = ~Live(c)
    ELSE NoNews /\ UNCHANGED <<file, tcpsrv, alarms, pools, idle, inherited>>

\* parent_begin.
ParentBegin(t) ==
    \/ UNCHANGED <<file, listenfd, scanfd, rd>>  \* it listens, or servio fails
    \/ /\ listenfd[t] = NoFd
       /\ \E fd \in Unused :
             /\ file' = [file EXCEPT ![fd] = "listening"]
             /\ listenfd' = [listenfd EXCEPT ![t] = fd]
             /\ scanfd' = [scanfd EXCEPT ![t] = fd]
             /\ rd' = Watch(rd, t, fd)

\* (mutant of EndService) an object is given back as the listener it was.
EndServiceStaysListener(t, r, f, q) ==
    /\ rd' = Unwatch(r, t, listenfd[t])
    /\ file' = [f EXCEPT ![listenfd[t]] = "closed"]
    /\ listenfd' = [listenfd EXCEPT ![t] = NoFd]
    /\ idle' = IF t = Root THEN q ELSE Append(q, t)
    /\ UNCHANGED isListener

\* end_service for a t that listens, once rd, file and idle are r, f and q.
\* Its scanfd is listenfd already.  connfd stays.
EndService(t, r, f, q) ==
    /\ rd' = Unwatch(r, t, listenfd[t])
    /\ file' = [f EXCEPT ![listenfd[t]] = "closed"]
    /\ listenfd' = [listenfd EXCEPT ![t] = NoFd]
    /\ idle' = IF t = Root THEN q ELSE Append(q, t)
    /\ isListener' = [isListener EXCEPT ![t] = t = Root]

\* What accipio leaves in the connfd of the listener, when the child of a new
\* connection gets fd.
Accipio(t, fd) == [u \in Children |-> IF u = t THEN fd ELSE connfd[u]]

\* Nobody has connected, accept failed, or Nostra has no object to lend and the
\* connection is closed.
\* (mutant of NotAccepted) it is not.
NotAcceptedLeaks(t) ==
    /\ \/ UNCHANGED <<file, idle>>
       \/ /\ idle = << >>
          /\ \E fd \in Unused : file' = [file EXCEPT ![fd] = "up"]
          /\ UNCHANGED idle
    /\ connfd' = Accipio(t, NoFd)
    /\ UNCHANGED <<listenfd, isListener, pools, inherited>>

NotAccepted(t) ==
    /\ connfd' = Accipio(t, NoFd)
    /\ UNCHANGED <<file, idle, listenfd, isListener, pools, inherited>>

\* new_conn_pro, and child_begin of the object c that was lent.
Accepted(t) ==
    /\ idle # << >>
    /\ \E fd \in Unused :
          LET c == Head(idle)
              r == Watch(rd, c, fd)
              f == [file EXCEPT ![fd] = "up"]
              q == Tail(idle)
          IN  /\ connfd' = [Accipio(t, fd) EXCEPT ![c] = fd]
              /\ scanfd' = [scanfd EXCEPT ![c] = fd]
              /\ ex' = Watch(ex, c, fd)
              /\ inherited' = [inherited EXCEPT ![c] = wr_blocked[c]]
              /\ IF lonely
                 THEN EndService(t, r, f, q)
                 ELSE rd' = r /\ file' = f /\ idle' = q /\ UNCHANGED <<listenfd, isListener>>
    /\ UNCHANGED wr

\* transmitto and child_transmit_err, by the value returned: 0 or 2, 1 or 3, -1.
SentAll(c) ==
    /\ Connected(c)
    /\ wr_blocked' = [wr_blocked EXCEPT ![c] = FALSE]
    /\ wr' = IF wr_blocked[c] THEN Unwatch(wr, c, scanfd[c]) ELSE wr
    /\ inherited' = [inherited EXCEPT ![c] = FALSE]
    /\ NoNews
    /\ UNCHANGED <<file, tcpsrv, alarms, scanfd, rd, ex, idle>>

\* (mutant of SentPart) only a second incomplete send is waited for.
SentPartLate(c) ==
    /\ Connected(c)
    /\ wr_blocked' = [wr_blocked EXCEPT ![c] = TRUE]
    /\ wr' = IF wr_blocked[c] THEN Watch(wr, c, scanfd[c]) ELSE wr
    /\ NoNews
    /\ UNCHANGED <<file, tcpsrv, alarms, scanfd, rd, ex, idle, inherited>>

SentPart(c) ==
    /\ Connected(c)
    /\ wr_blocked' = [wr_blocked EXCEPT ![c] = TRUE]
    /\ wr' = IF wr_blocked[c] THEN wr ELSE Watch(wr, c, scanfd[c])
    /\ NoNews
    /\ UNCHANGED <<file, tcpsrv, alarms, scanfd, rd, ex, idle, inherited>>

SendFails(c) == ~PeerIsThere(c) /\ End(c) /\ UNCHANGED wr_blocked

Transmit(c) == SentAll(c) \/ SentPart(c) \/ SendFails(c)

(***************************************************************************)
(* The calls of the scheduler.                                             *)
(***************************************************************************)
Called(pool, t) == t \in pool.on /\ scanfd[t] \in pool.bits

\* (mutant of Received) the end of the connection is taken for no data.
ReceivedNothing(c) ==
    /\ NoNews
    /\ UNCHANGED <<file, tcpsrv, alarms, pools, idle, inherited>>

\* recito: data or nothing yet, which the server keeps no state of, or the end.
Received(c) ==
    IF PeerIsThere(c)
    THEN NoNews /\ UNCHANGED <<file, tcpsrv, alarms, pools, idle, inherited>>
    ELSE End(c)

FD_PRORD(t) ==
    /\ Followed
    /\ Called(rd, t)
    /\ \/ /\ isListener[t]
          /\ NotAccepted(t) \/ Accepted(t)
          /\ NoNews
          /\ UNCHANGED alarms
       \/ ~isListener[t] /\ Received(t)
    /\ UNCHANGED wr_blocked

FD_PROWR(c) == Followed /\ Called(wr, c) /\ ~isListener[c] /\ Transmit(c)

FD_PROEX(c) ==
    Followed /\ Called(ex, c) /\ ~isListener[c] /\ End(c) /\ UNCHANGED wr_blocked

\* Whatever session the object has by now ends; if none, the alarm is spent.
TIMER(c) ==
    /\ Followed
    /\ alarm[c]
    /\ \/ Session(c) /\ End(c)
       \/ /\ ~Session(c)
          /\ ClearAlarm(c)
          /\ NoNews
          /\ UNCHANGED <<file, tcpsrv, strayed, pools, idle, inherited>>
    /\ UNCHANGED wr_blocked

(***************************************************************************)
(* The users of a session.                                                 *)
(***************************************************************************)
PRO_TBUF(c) == Followed /\ Live(c) /\ Transmit(c)

DMD_END_SESSION(c) == Followed /\ Live(c) /\ End(c) /\ UNCHANGED wr_blocked

\* end_release, which does not clear the alarm.
CMD_RELEASE_SESSION(c) ==
    /\ Followed
    /\ Live(c)
    /\ LetGo(c)
    /\ left' = IF alarm[c] THEN left \cup {c} ELSE left
    /\ NoNews
    /\ UNCHANGED <<wr_blocked, alarm, strayed>>

CMD_TIMER_TO_RELEASE(c) ==
    /\ Followed
    /\ Live(c)
    /\ alarm' = [alarm EXCEPT ![c] = TRUE]
    /\ left' = left \ {c}
    /\ NoNews
    /\ UNCHANGED <<file, tcpsrv, wr_blocked, strayed, pools, idle, inherited>>

CMD_CHANNEL_PAUSE(c) ==
    /\ Followed
    /\ Live(c)
    /\ rd' = Unwatch(rd, c, scanfd[c])
    /\ NoNews
    /\ UNCHANGED <<file, tcpsrv, wr_blocked, alarms, scanfd, wr, ex, idle, inherited>>

CMD_CHANNEL_RESUME(c) ==
    /\ Followed
    /\ Live(c)
    /\ rd' = Watch(rd, c, scanfd[c])
    /\ NoNews
    /\ UNCHANGED <<file, tcpsrv, wr_blocked, alarms, scanfd, wr, ex, idle, inherited>>

(***************************************************************************)
(* Who manages the services.                                               *)
(***************************************************************************)
\* At the root: an object that Nostra lends listens, or tries to.
CMD_NEW_SERVICE ==
    /\ Followed
    /\ idle # << >>
    /\ idle' = Tail(idle)
    /\ isListener' = [isListener EXCEPT ![Head(idle)] = TRUE]
    /\ ParentBegin(Head(idle))
    /\ NoNews
    /\ UNCHANGED <<connfd, wr_blocked, alarms, wr, ex, inherited>>

\* On start, too (IGNITE_ALL_READY).
DMD_BEGIN_SERVICE(t) ==
    /\ Followed
    /\ isListener[t]
    /\ ParentBegin(t)
    /\ NoNews
    /\ UNCHANGED <<connfd, isListener, wr_blocked, alarms, wr, ex, idle, inherited>>

DMD_END_SERVICE(t) ==
    /\ Followed
    /\ isListener[t]
    /\ listenfd[t] # NoFd
    /\ EndService(t, rd, file, idle)
    /\ NoNews
    /\ UNCHANGED <<connfd, wr_blocked, alarms, scanfd, wr, ex, inherited>>

\* The network.
PeerCloses(fd) ==
    /\ Followed
    /\ file[fd] = "up"
    /\ file' = [file EXCEPT ![fd] = "gone"]
    /\ NoNews
    /\ UNCHANGED <<tcpsrv, wr_blocked, alarms, pools, idle, inherited>>

Scheduler ==
    \/ \E t \in Objs : FD_PRORD(t)
    \/ \E c \in Children : FD_PROWR(c) \/ FD_PROEX(c) \/ TIMER(c)

Users ==
    \/ \E c \in Children :
          \/ PRO_TBUF(c) \/ DMD_END_SESSION(c) \/ CMD_RELEASE_SESSION(c)
          \/ CMD_TIMER_TO_RELEASE(c) \/ CMD_CHANNEL_PAUSE(c) \/ CMD_CHANNEL_RESUME(c)
    \/ CMD_NEW_SERVICE
    \/ \E t \in Objs : DMD_BEGIN_SERVICE(t) \/ DMD_END_SERVICE(t)

Next == Scheduler \/ Users \/ (\E fd \in Fds : PeerCloses(fd)) \/ GivenUp

\* A criptor that stays watched and ready is called (SelectLoop's ReadyIsServed).
Fairness == \A c \in Children : WF_vars(FD_PRORD(c) /\ ~PeerIsThere(c))

Spec == Init /\ [][Next]_vars /\ Fairness

(***************************************************************************)
(* Properties.                                                             *)
(***************************************************************************)
\* Of each criptor in a pool the descriptor is open and is the object's own,
\* and select is asked for these descriptors only.  One that is closed would
\* make select fail, and the scheduler deaf to all (Sched.cpp:547-549).  This,
\* and the next two, until a stray alarm has closed what is another's.
WatchedIsOpen ==
    ~strayed => \A pool \in {rd, wr, ex} :
        /\ pool.bits = {scanfd[t] : t \in pool.on}
        /\ \A t \in pool.on :
              /\ scanfd[t] = IF isListener[t] THEN listenfd[t] ELSE connfd[t]
              /\ file[scanfd[t]] # "closed"

\* Every open descriptor is kept by one object that has a service or a session
\* with it: none leaks when a connection is refused, an object changes its role
\* or a session ends, and none is closed that another object has
\* (Tcpsrvuna.cpp:794-801,906,973-976).
EachFileHasItsKeeper ==
    ~strayed => \A fd \in Fds : file[fd] # "closed" =>
        Cardinality({t \in Objs : listenfd[t] = fd}
                    \cup {c \in Children : Live(c) /\ connfd[c] = fd}) = 1

\* Every object Nostra may lend is in one place: it has a session, it listens
\* (or could not, and DMD_BEGIN_SERVICE can still be sent to it), or Nostra has
\* got it back, once.  None is lost, and none is lent again before its session
\* or service is over, as NostraPool assumes of those who borrow
\* (Tcpsrvuna.cpp:917-920,982-984).
EachObjectHasItsPlace ==
    ~strayed =>
    /\ \A a, b \in 1 .. Len(idle) : idle[a] = idle[b] => a = b
    /\ \A c \in Children :
          IF \E a \in 1 .. Len(idle) : idle[a] = c
          THEN ~Live(c) /\ ~isListener[c]
          ELSE Live(c) # isListener[c]

\* A session that the users did not release does not end before they are told
\* END_SESSION, whoever ends it (Tcpsrvuna.cpp:981).
NoSilentEnd ==
    [][\A c \in Children :
          Live(c) /\ (~Live(c)' \/ connfd'[c] # connfd[c])
          => c \in ended' \/ CMD_RELEASE_SESSION(c)]_vars

\* An alarm outlives the session that asked for it only where users release that
\* session, which does not clear it (Tcpsrvuna.cpp:1007).  Such an alarm then ends
\* whatever session the object has by the time; no other alarm ends a session that
\* did not ask for it, however sessions end (Tcpsrvuna.cpp:426-434,980).
AlarmIsOwn == \A c \in Children : alarm[c] => Live(c) \/ c \in left

\* A session is watched for room to send while its last send was incomplete,
\* and no longer: select would return at once for ever.  The exception is a
\* session whose object had one before it that ended in the middle of a send:
\* wr_blocked is not reset for the new one, and its own incomplete send counts
\* as waited for (Tcpsrvuna.cpp:868-872,882, Tcpsrv.cpp:569-571).
WatchedWhileBlocked ==
    /\ \A c \in wr.on : wr_blocked[c]
    /\ \A c \in Children : Live(c) /\ wr_blocked[c] /\ ~inherited[c] => c \in wr.on

\* A session whose peer has closed the connection ends, unless it is paused (or
\* a stray alarm is struck first).
GoneIsNoticed ==
    \A c \in Children :
        Live(c) /\ ~PeerIsThere(c) ~> ~Live(c) \/ c \notin rd.on \/ strayed
=============================================================================
