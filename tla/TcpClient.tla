----------------------------- MODULE TcpClient -----------------------------
(***************************************************************************)
(* One Tcpcliuna, the module that keeps a TCP connection to a server, with *)
(* the select scheduler that watches its socket.  The build is a Unix one, *)
(* sockets do not block, and use_epoll is false.                           *)
(*                                                                         *)
(* The scheduler's pools rd_tors and wr_tors are watch sets, for they are  *)
(* not full; one other client, whose socket stays open, stands for all     *)
(* that the failing select at Sched.cpp:547-549 concerns.  A turn of the   *)
(* loop is Select, the walk of rd_tors, the walk of wr_tors; the users of  *)
(* the client act at any time between the handlers.  A handler ends with   *)
(* its notification (deliver is its last statement), so what a user does   *)
(* inside one is the same as what it does right after.                     *)
(***************************************************************************)
EXTENDS WatchSet, Integers

CONSTANTS Client, Other,  \* the criptors
          Fds,            \* descriptor numbers
          OtherFd,        \* the descriptor of the other client
          Retries         \* try_interval > 0

ASSUME TorsAssumption == Client # Other
ASSUME FdsAssumption == OtherFd \in Fds /\ Fds \subseteq Nat
ASSUME RetriesAssumption == Retries \in BOOLEAN

Tors == {Client, Other}

INVALID_SOCKET == -1

VARIABLES
    connfd,       \* Tcpcli's socket
    isConnecting, \* Tcpcli: true while connecting
    wr_blocked,   \* Tcpcli: the last send was incomplete
    unsent,       \* snd_buf is not empty
    attempt,      \* Tcpcliuna: the last connect failed
    timer,        \* its entry with the scheduler: "off", "set", "spent"
    sock,         \* the kernel's view: "none", "syn", "refused", "up", "gone"
    scanfd,       \* the Criptor fields
    rd, wr,       \* the scheduler's pools
    at,           \* where the loop is: "turn", walking "rd", walking "wr"
    rset, wset,   \* the fd_sets as select returned them
    told,         \* history: what the last action told the module tree
    ended,        \* history: the users ended the session last, not began it
    failed,       \* history: the last connect failed, after a while
    mishaps       \* history: a connect has failed, or was made on an open socket

tcpcli == <<connfd, isConnecting>>
sending == <<wr_blocked, unsent>>
loop == <<at, rset, wset>>
pools == <<scanfd, rd, wr>>
past == <<failed, mishaps>>
vars == <<tcpcli, sending, attempt, timer, sock, pools, loop, told, ended, past>>

TypeOK ==
    /\ connfd \in Fds \cup {INVALID_SOCKET}
    /\ isConnecting \in BOOLEAN /\ wr_blocked \in BOOLEAN /\ unsent \in BOOLEAN
    /\ attempt \in BOOLEAN /\ ended \in BOOLEAN /\ failed \in BOOLEAN
    /\ mishaps \subseteq {"failed", "restarted"}
    /\ timer \in {"off", "set", "spent"}
    /\ sock \in {"none", "syn", "refused", "up", "gone"}
    /\ scanfd \in [Tors -> Fds]
    /\ rd \in [on : SUBSET Tors, bits : SUBSET Fds]
    /\ wr \in [on : SUBSET Tors, bits : SUBSET Fds]
    /\ at \in {"turn", "rd", "wr"}
    /\ rset \in SUBSET Fds /\ wset \in SUBSET Fds
    /\ told \in {"nothing", "START", "END", "DATA", "NOT_ALIVE"}

\* The other client has long been watched for reading.
Init ==
    /\ connfd = INVALID_SOCKET
    /\ isConnecting = FALSE
    /\ wr_blocked = FALSE /\ unsent = FALSE
    /\ attempt = FALSE
    /\ timer = "off"
    /\ sock = "none"
    /\ scanfd = [t \in Tors |-> OtherFd]
    /\ rd = Watch(NoneWatched, Other, OtherFd)
    /\ wr = NoneWatched
    /\ at = "turn" /\ rset = {} /\ wset = {}
    /\ told = "nothing"
    /\ ended = TRUE
    /\ failed = FALSE
    /\ mishaps = {}

Open == connfd # INVALID_SOCKET
OpenFds == {OtherFd} \cup ({connfd} \ {INVALID_SOCKET})

(***************************************************************************)
(* What the handlers are made of.                                          *)
(***************************************************************************)
NoNews == told' = "nothing"

\* Tcpcliuna::deliver(FD_*), for the client's own criptor.
FD_SETRD(fd) == rd' = Watch(rd, Client, fd)
FD_SETWR(fd) == wr' = Watch(wr, Client, fd)
FD_CLRRD == rd' = Unwatch(rd, Client, scanfd[Client])
FD_CLRWR == wr' = Unwatch(wr, Client, scanfd[Client])

\* Tcpcli::end.  isConnecting and wr_blocked stay as they are.
CloseSocket == connfd' = INVALID_SOCKET /\ sock' = "none"

\* (mutants of End) the write pool is not cleared; nobody is told.
EndLeavesWr ==
    \/ /\ ~Open
       /\ NoNews
       /\ UNCHANGED <<tcpcli, timer, sock, pools>>
    \/ /\ Open
       /\ FD_CLRRD
       /\ CloseSocket
       /\ timer' = "off"
       /\ told' = "END"
       /\ UNCHANGED <<isConnecting, scanfd, wr>>

EndMute ==
    \/ /\ ~Open
       /\ NoNews
       /\ UNCHANGED <<tcpcli, timer, sock, pools>>
    \/ /\ Open
       /\ FD_CLRRD /\ FD_CLRWR
       /\ CloseSocket
       /\ timer' = "off"
       /\ NoNews
       /\ UNCHANGED <<isConnecting, scanfd>>

\* Tcpcliuna::end.
End ==
    \/ /\ ~Open
       /\ NoNews
       /\ UNCHANGED <<tcpcli, timer, sock, pools>>
    \/ /\ Open
       /\ FD_CLRRD /\ FD_CLRWR
       /\ CloseSocket
       /\ timer' = "off"
       /\ told' = "END"
       /\ UNCHANGED <<isConnecting, scanfd>>

\* establish_done once the connection is there.
Established(fd, pool) ==
    /\ isConnecting' = FALSE
    /\ scanfd' = [scanfd EXCEPT ![Client] = fd]
    /\ FD_SETRD(fd)
    /\ wr' = Unwatch(pool, Client, fd)
    /\ timer' = "off"
    /\ told' = "START"
    /\ failed' = FALSE

\* establish: what becomes of the socket, when the handler that calls it
\* leaves the timer in state tm.
EstablishFails(tm) ==
    /\ ~(sock = "up" /\ isConnecting)
    /\ CloseSocket
    /\ timer' = tm
    /\ failed' = FALSE
    /\ mishaps' = mishaps \cup {IF Open THEN "restarted" ELSE "failed"}
    /\ NoNews
    /\ UNCHANGED <<isConnecting, pools>>

\* (mutant of EstablishWaits) the socket is not watched for writing.
EstablishWaitsReading(tm) ==
    /\ ~Open
    /\ connfd' \in Fds \ OpenFds
    /\ sock' = "syn"
    /\ isConnecting' = TRUE
    /\ scanfd' = [scanfd EXCEPT ![Client] = connfd']
    /\ FD_SETRD(connfd') /\ UNCHANGED wr
    /\ timer' = tm
    /\ failed' = FALSE
    /\ NoNews
    /\ UNCHANGED mishaps

\* connect() in progress.
EstablishWaits(tm) ==
    /\ ~Open
    /\ connfd' \in Fds \ OpenFds
    /\ sock' = "syn"
    /\ isConnecting' = TRUE
    /\ scanfd' = [scanfd EXCEPT ![Client] = connfd']
    /\ FD_SETRD(connfd') /\ FD_SETWR(connfd')
    /\ timer' = tm
    /\ failed' = FALSE
    /\ NoNews
    /\ UNCHANGED mishaps

\* connect() returned 0: the connection is there at once, or was there before
\* the loop came to notice it.
EstablishNow ==
    /\ \/ ~Open /\ connfd' \in Fds \ OpenFds
       \/ Open /\ sock = "up" /\ isConnecting /\ UNCHANGED connfd
    /\ sock' = "up"
    /\ mishaps' = mishaps \cup (IF Open THEN {"restarted"} ELSE {})
    /\ Established(connfd', wr)

\* clio keeps an open socket, annecto calls connect on it all the same.
Establish(tm) ==
    /\ EstablishFails(tm) \/ EstablishWaits(tm) \/ EstablishNow
    /\ attempt' = FALSE
    /\ UNCHANGED <<sending, loop>>

\* (mutant of ConnectFailed) no alarm.
ConnectFailedQuietly ==
    /\ CloseSocket
    /\ isConnecting' = FALSE
    /\ attempt' = Retries
    /\ failed' = TRUE
    /\ mishaps' = mishaps \cup {"failed"}
    /\ NoNews
    /\ UNCHANGED <<pools, timer>>

\* establish_done when annecto_done found an error.
ConnectFailed ==
    /\ CloseSocket
    /\ isConnecting' = FALSE
    /\ attempt' = Retries
    /\ timer' = IF Retries THEN "set" ELSE timer
    /\ failed' = TRUE
    /\ mishaps' = mishaps \cup {"failed"}
    /\ NoNews
    /\ UNCHANGED pools

\* establish_done for the connection the client waits for.  A stale event gets
\* here with no socket at all, whose getsockopt fails; a connection that the
\* server has closed may have been reset.
EstablishDone ==
    \/ sock \in {"none", "refused", "gone"} /\ ConnectFailed
    \/ /\ sock \notin {"none", "refused"}
       /\ Established(connfd, wr)
       /\ attempt' = FALSE
       /\ UNCHANGED <<connfd, sock, mishaps>>

\* Tcpcli::transmitto: what the kernel makes of a send, and what is returned.
Unsendable == sock \in {"none", "refused", "gone"}
SendAll == sock \in {"up", "gone"} /\ wr_blocked' = FALSE /\ unsent' = FALSE
SendPart ==
    /\ sock \in {"syn", "up", "gone"}
    /\ wr_blocked' = TRUE /\ unsent' = TRUE

(***************************************************************************)
(* The users: the modules to the left and to the right.                    *)
(***************************************************************************)
DMD_START_SESSION ==
    /\ Establish("off")
    /\ ended' = FALSE

\* (mutant of DMD_END_SESSION) the alarm of the next attempt is left set.
DMD_END_SESSION_KeepsTimer ==
    /\ End
    /\ ended' = TRUE
    /\ failed' = FALSE
    /\ UNCHANGED <<sending, attempt, loop, mishaps>>

DMD_END_SESSION ==
    /\ \/ Open /\ End
       \/ /\ ~Open
          /\ NoNews
          /\ timer' = "off"
          /\ UNCHANGED <<tcpcli, sock, pools>>
    /\ ended' = TRUE
    /\ failed' = FALSE
    /\ UNCHANGED <<sending, attempt, loop, mishaps>>

\* A parent process lets go of the socket that a child goes on with.
CMD_RELEASE_SESSION ==
    /\ Open
    /\ FD_CLRRD /\ FD_CLRWR
    /\ CloseSocket
    /\ ended' = TRUE
    /\ failed' = FALSE
    /\ NoNews
    /\ UNCHANGED <<isConnecting, sending, attempt, timer, scanfd, loop, mishaps>>

\* A user releases, pauses and resumes the session that it has: SSLcliuna.cpp:401
\* is such a user, Notitia.h:107-108,232 say so.  The three handlers do not ask.
CMD_TIMER_TO_RELEASE ==
    /\ Open
    /\ timer' = "set"
    /\ NoNews
    /\ UNCHANGED <<tcpcli, sending, attempt, sock, pools, loop, ended, past>>

CMD_CHANNEL_PAUSE ==
    /\ Open
    /\ FD_CLRRD
    /\ NoNews
    /\ UNCHANGED <<tcpcli, sending, attempt, timer, sock, scanfd, wr, loop, ended, past>>

CMD_CHANNEL_RESUME ==
    /\ Open
    /\ FD_SETRD(scanfd[Client])
    /\ NoNews
    /\ UNCHANGED <<tcpcli, sending, attempt, timer, sock, scanfd, wr, loop, ended, past>>

\* PRO_TBUF: transmitto, then transmit_err.  The cases are its return values:
\* 0 or 2, 1 or 3, -1.  A send that fails for a refused connect takes the error
\* from the socket, which establish_done then finds to be in order.
NotAlive == ~Open \/ isConnecting

Written ==
    /\ SendAll
    /\ IF wr_blocked /\ ~NotAlive THEN FD_CLRWR ELSE UNCHANGED wr
    /\ told' = IF wr_blocked /\ NotAlive THEN "NOT_ALIVE" ELSE "nothing"
    /\ UNCHANGED <<tcpcli, timer, sock, scanfd, rd>>

HalfWritten ==
    /\ SendPart
    /\ IF wr_blocked \/ NotAlive THEN UNCHANGED wr ELSE FD_SETWR(scanfd[Client])
    /\ told' = IF NotAlive THEN "NOT_ALIVE" ELSE "nothing"
    /\ UNCHANGED <<tcpcli, timer, sock, scanfd, rd>>

NotWritten ==
    /\ Unsendable
    /\ unsent' = TRUE /\ UNCHANGED wr_blocked
    /\ \/ /\ NotAlive
          /\ sock' = IF sock = "refused" THEN "gone" ELSE sock
          /\ told' = "NOT_ALIVE"
          /\ UNCHANGED <<tcpcli, timer, pools>>
       \/ ~NotAlive /\ End

PRO_TBUF ==
    /\ Written \/ HalfWritten \/ NotWritten
    /\ UNCHANGED <<attempt, loop, ended, past>>

\* The owner of snd_buf drops what was not sent (TBufChan::right_reset).
SndBufReset ==
    /\ ~Open
    /\ unsent' = FALSE
    /\ NoNews
    /\ UNCHANGED <<tcpcli, wr_blocked, attempt, timer, sock, pools, loop, ended, past>>

(***************************************************************************)
(* The scheduler and its calls.                                            *)
(***************************************************************************)
\* TIMER: connect again, or close what was to be released.
TIMER ==
    /\ at = "turn"
    /\ timer = "set"
    /\ \/ attempt /\ ~Open /\ Establish("spent") /\ UNCHANGED ended
       \/ /\ ~(attempt /\ ~Open)
          /\ \/ Open /\ End
             \/ ~Open /\ NoNews /\ timer' = "spent" /\ UNCHANGED <<tcpcli, sock, pools>>
          /\ UNCHANGED <<sending, attempt, loop, ended, past>>

Bits == rd.bits \cup wr.bits

\* select failed with EBADF: all fd_sets are emptied, and nobody is called.
SelectError ==
    /\ at = "turn"
    /\ ~(Bits \subseteq OpenFds)
    /\ rd' = Zero(rd) /\ wr' = Zero(wr)
    /\ NoNews
    /\ UNCHANGED <<tcpcli, sending, attempt, timer, sock, scanfd, loop, ended, past>>

\* The client's socket is readable when it failed or the server closed it, and
\* whenever data came; it is writable once it is no longer connecting.
Select ==
    /\ at = "turn"
    /\ Bits \subseteq OpenFds
    /\ \E data, room \in BOOLEAN :
          /\ rset' = {fd \in rd.bits \cap {connfd} :
                        sock \in {"refused", "gone"} \/ (sock = "up" /\ data)}
          /\ wset' = {fd \in wr.bits \cap {connfd} :
                        sock \in {"refused", "gone"} \/ (sock = "up" /\ (room \/ isConnecting))}
    /\ at' = "rd"
    /\ NoNews
    /\ UNCHANGED <<tcpcli, sending, attempt, timer, sock, pools, ended, past>>

\* isset over one pool: is the client called?
Called(pool, set) == Client \in pool.on /\ scanfd[Client] \in set

\* recito: data, nothing yet, or the end of the connection.
Received ==
    \/ sock = "up" /\ told' \in {"DATA", "nothing"} /\ UNCHANGED <<tcpcli, timer, sock, pools>>
    \/ sock = "syn" /\ NoNews /\ UNCHANGED <<tcpcli, timer, sock, pools>>
    \/ sock \notin {"up", "syn"} /\ End

FD_PRORD ==
    \/ isConnecting /\ EstablishDone
    \/ ~isConnecting /\ Received /\ UNCHANGED <<attempt, past>>

WalkRd ==
    /\ at = "rd"
    /\ at' = "wr"
    /\ \/ Called(rd, rset) /\ FD_PRORD
       \/ /\ ~Called(rd, rset)
          /\ NoNews
          /\ UNCHANGED <<tcpcli, attempt, timer, sock, pools, past>>
    /\ UNCHANGED <<sending, rset, wset, ended>>

\* FD_PROWR ends in transmit_ep_err, which leaves the pools of select alone.
Resent ==
    \/ /\ SendAll \/ (SendPart /\ unsent)
       /\ NoNews
       /\ UNCHANGED <<tcpcli, timer, sock, pools>>
    \/ Unsendable /\ UNCHANGED sending /\ End

FD_PROWR ==
    \/ isConnecting /\ EstablishDone /\ UNCHANGED sending
    \/ ~isConnecting /\ Resent /\ UNCHANGED <<attempt, past>>

WalkWr ==
    /\ at = "wr"
    /\ at' = "turn"
    /\ rset' = {} /\ wset' = {}
    /\ \/ Called(wr, wset) /\ FD_PROWR
       \/ /\ ~Called(wr, wset)
          /\ NoNews
          /\ UNCHANGED <<tcpcli, sending, attempt, timer, sock, pools, past>>
    /\ UNCHANGED ended

(***************************************************************************)
(* The network.                                                            *)
(***************************************************************************)
Becomes(from, to) ==
    /\ sock = from
    /\ sock' = to
    /\ NoNews
    /\ UNCHANGED <<tcpcli, sending, attempt, timer, pools, loop, ended, past>>

Accepted == Becomes("syn", "up")
Refused == Becomes("syn", "refused")
ClosedByServer == Becomes("up", "gone")

Users ==
    \/ DMD_START_SESSION \/ DMD_END_SESSION \/ CMD_RELEASE_SESSION
    \/ CMD_TIMER_TO_RELEASE \/ CMD_CHANNEL_PAUSE \/ CMD_CHANNEL_RESUME \/ PRO_TBUF
    \/ SndBufReset
Scheduler == TIMER \/ SelectError \/ Select \/ WalkRd \/ WalkWr
Network == Accepted \/ Refused \/ ClosedByServer

Next == Users \/ Scheduler \/ Network

\* The loop turns for ever, an alarm goes off, a connect comes to an end.
Fairness ==
    /\ WF_vars(SelectError \/ Select \/ WalkRd \/ WalkWr)
    /\ SF_vars(TIMER)
    /\ WF_vars(Accepted \/ Refused)

Spec == Init /\ [][Next]_vars /\ Fairness

(***************************************************************************)
(* Properties.                                                             *)
(***************************************************************************)
\* A criptor in a pool belongs to an open socket: scanfd is left alone until
\* FD_CLR* was passed to Sched (Describo.h:27-30).
ContractKept ==
    \A pool \in {rd, wr} :
        Client \in pool.on => Open /\ scanfd[Client] = connfd

\* So it is until a connect fails.
ContractKeptUntilMishap == mishaps = {} => ContractKept

\* A connection that was made is not closed behind the users' backs, whatever has
\* gone wrong before: they are told END_SESSION (Tcpcliuna.cpp:902-903).  The two
\* steps that close it without a word are the users' own, the release, and the
\* start of a session that is there (Tcpcli.cpp:186,318-323).
NoSilentClose ==
    [][Open /\ ~isConnecting /\ ~Open' =>
           told' = "END" \/ CMD_RELEASE_SESSION \/ DMD_START_SESSION]_vars

\* When the server has accepted, the loop comes to call establish_done
\* (Tcpcliuna.cpp:688-690,713).
AcceptedIsNoticed ==
    mishaps = {} /\ sock = "up" /\ isConnecting ~> ~(mishaps = {} /\ sock = "up" /\ isConnecting)

\* Once its users ended or released the session, the client does not connect
\* until they ask it to: no alarm is left behind (Tcpcliuna.cpp:386,402,902).  A
\* start of a session that was there leaves behind an event that sets one.
EndedStaysEnded ==
    [][~Open /\ Open' => ~ended' \/ "restarted" \in mishaps]_vars

\* A connect that failed after a while is tried again after try_interval, unless
\* the users end the session first (Tcpcliuna.cpp:70,710-713).
RetriesGoOn == failed /\ ~Open ~> Open \/ ~failed

\* A connection whose last send was complete is not watched for writing: select
\* would return at once for ever (Tcpcli.h:55, Tcpcli.cpp:594).
WriteWatchEnds ==
    Open /\ ~isConnecting /\ Client \in wr.on => wr_blocked
=============================================================================
