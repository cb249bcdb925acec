-------------------------- MODULE TcpClientProofs --------------------------
(***************************************************************************)
(* Proofs about TcpClient, for every set of descriptor numbers and with or *)
(* without retries.                                                        *)
(***************************************************************************)
EXTENDS TcpClient, TLAPS

(***************************************************************************)
(* The inductive invariant.                                                *)
(***************************************************************************)
InPool == Client \in rd.on \cup wr.on

\* The kernel has a socket of the client exactly while connfd names one.
HasSocket == Open <=> sock # "none"

\* Until a connect fails, what is in the pools is the socket.
Tied ==
    mishaps = {} =>
        /\ Open => scanfd[Client] = connfd
        /\ InPool => Open

\* Until a start is made on an open socket: a session that the users ended has
\* no socket and no alarm to get one, and a connect that the users broke off
\* has left nothing in the pools that could bring its result.
AtRest ==
    "restarted" \notin mishaps =>
        /\ ended => ~Open /\ ~(attempt /\ timer = "set")
        /\ Open => ~attempt
        /\ ~Open /\ isConnecting => ~InPool

IInv == TypeOK /\ HasSocket /\ Tied /\ AtRest

WatchSets == [on : SUBSET Tors, bits : SUBSET Fds]

\* What FD_SET* and FD_CLR* for the client leave in a pool.
LEMMA WatchClient ==
  ASSUME NEW w \in WatchSets, NEW fd \in Fds
  PROVE  /\ Watch(w, Client, fd) \in WatchSets
         /\ Watch(w, Client, fd).on = w.on \cup {Client}
         /\ Unwatch(w, Client, fd) \in WatchSets
         /\ Unwatch(w, Client, fd).on = w.on \ {Client}
         /\ Zero(w) \in WatchSets
         /\ Zero(w).on = w.on
  BY DEF WatchSets, Watch, Unwatch, Zero, Tors

\* TypeOK in two halves: what end, establish and establish_done change, and the
\* rest.
SessionType ==
    /\ connfd \in Fds \cup {INVALID_SOCKET}
    /\ isConnecting \in BOOLEAN
    /\ timer \in {"off", "set", "spent"}
    /\ sock \in {"none", "syn", "refused", "up", "gone"}
    /\ scanfd \in [Tors -> Fds]
    /\ rd \in WatchSets /\ wr \in WatchSets
    /\ told \in {"nothing", "START", "END", "DATA", "NOT_ALIVE"}

LoopType ==
    /\ wr_blocked \in BOOLEAN /\ unsent \in BOOLEAN
    /\ attempt \in BOOLEAN /\ ended \in BOOLEAN /\ failed \in BOOLEAN
    /\ mishaps \subseteq {"failed", "restarted"}
    /\ at \in {"turn", "rd", "wr"}
    /\ rset \in SUBSET Fds /\ wset \in SUBSET Fds

LEMMA Halves ==
  /\ TypeOK <=> SessionType /\ LoopType
  /\ TypeOK' <=> SessionType' /\ LoopType'
  BY DEF TypeOK, SessionType, LoopType, WatchSets

LEMMA InitIInv == Init => IInv
<1> SUFFICES ASSUME Init PROVE IInv
  OBVIOUS
<1>1. rd = [on |-> {Other}, bits |-> {OtherFd}] /\ wr = [on |-> {}, bits |-> {}]
  BY DEF Init, Watch, NoneWatched
<1>2. rd \in WatchSets /\ wr \in WatchSets
  BY <1>1, FdsAssumption DEF WatchSets, Tors
<1>3. scanfd \in [Tors -> Fds]
  BY FdsAssumption DEF Init
<1>4. SessionType
  BY <1>2, <1>3 DEF Init, SessionType, INVALID_SOCKET
<1>5. LoopType
  BY DEF Init, LoopType
<1>6. ~Open /\ ~InPool
  BY <1>1, TorsAssumption DEF Init, Open, InPool
<1> QED
  BY <1>4, <1>5, <1>6, Halves DEF Init, IInv, HasSocket, Tied, AtRest

-----------------------------------------------------------------------------
(***************************************************************************)
(* What the handlers are made of: end, establish, establish_done.          *)
(***************************************************************************)
LEMMA EndEffect ==
  ASSUME SessionType, HasSocket, End
  PROVE  /\ SessionType' /\ HasSocket'
         /\ ~Open'
         /\ isConnecting' = isConnecting
         /\ timer' = timer \/ timer' = "off"
         /\ InPool' => ~Open /\ InPool
<1>1. CASE ~Open
  BY <1>1 DEF End, SessionType, HasSocket, Open, InPool, NoNews, tcpcli, pools
<1>2. CASE Open
  <2>1. scanfd[Client] \in Fds /\ rd \in WatchSets /\ wr \in WatchSets
    BY DEF SessionType, Tors
  <2>2. /\ rd' = Unwatch(rd, Client, scanfd[Client])
        /\ wr' = Unwatch(wr, Client, scanfd[Client])
        /\ connfd' = INVALID_SOCKET /\ sock' = "none" /\ timer' = "off"
        /\ told' = "END" /\ isConnecting' = isConnecting /\ scanfd' = scanfd
    BY <1>2 DEF End, FD_CLRRD, FD_CLRWR, CloseSocket
  <2>3. /\ rd' \in WatchSets /\ rd'.on = rd.on \ {Client}
        /\ wr' \in WatchSets /\ wr'.on = wr.on \ {Client}
    BY <2>1, <2>2, WatchClient
  <2> QED
    BY <2>2, <2>3 DEF SessionType, HasSocket, Open, InPool
<1> QED
  BY <1>1, <1>2

\* The socket is there or waited for, and the pools hold what belongs to it.
LEMMA EstablishedEffect ==
  ASSUME SessionType, NEW fd \in Fds, Established(fd, wr)
  PROVE  /\ isConnecting' = FALSE
         /\ scanfd' \in [Tors -> Fds] /\ scanfd'[Client] = fd
         /\ rd' \in WatchSets /\ wr' \in WatchSets
         /\ timer' = "off" /\ told' = "START" /\ failed' = FALSE
<1>1. rd \in WatchSets /\ wr \in WatchSets
  BY DEF SessionType
<1>2. /\ rd' = Watch(rd, Client, fd) /\ wr' = Unwatch(wr, Client, fd)
      /\ scanfd' = [scanfd EXCEPT ![Client] = fd]
      /\ isConnecting' = FALSE /\ timer' = "off" /\ told' = "START" /\ failed' = FALSE
  BY DEF Established, FD_SETRD
<1>3. rd' \in WatchSets /\ wr' \in WatchSets
  BY <1>1, <1>2, WatchClient
<1> QED
  BY <1>2, <1>3 DEF SessionType, Tors

\* What of IInv the sub-handlers that (re)connect see to
Settled == SessionType /\ HasSocket /\ Tied
           /\ ("restarted" \notin mishaps /\ ~Open /\ isConnecting => ~InPool)

LEMMA EstablishEffect ==
  ASSUME IInv, NEW tm \in {"off", "spent"}, Establish(tm)
  PROVE  /\ Settled'
         /\ attempt' = FALSE /\ failed' \in BOOLEAN
         /\ mishaps \subseteq mishaps' /\ mishaps' \subseteq {"failed", "restarted"}
         /\ timer' # "set"
         /\ UNCHANGED <<sending, loop>>
<1>1. -1 \notin Fds
  BY FdsAssumption
<1>2. /\ SessionType /\ LoopType /\ HasSocket /\ Tied
      /\ "restarted" \notin mishaps /\ ~Open /\ isConnecting => ~InPool
  BY Halves DEF IInv, AtRest
<1>3. attempt' = FALSE /\ UNCHANGED <<sending, loop>>
  BY DEF Establish
<1>4. CASE EstablishFails(tm)
  <2>1. /\ connfd' = INVALID_SOCKET /\ sock' = "none" /\ timer' = tm /\ failed' = FALSE
        /\ mishaps' = mishaps \cup {IF Open THEN "restarted" ELSE "failed"}
        /\ told' = "nothing" /\ isConnecting' = isConnecting
        /\ scanfd' = scanfd /\ rd' = rd /\ wr' = wr
    BY <1>4 DEF EstablishFails, CloseSocket, NoNews, pools
  <2>2. SessionType'
    BY <1>2, <2>1 DEF SessionType
  <2>3. ~Open' /\ HasSocket' /\ mishaps' # {} /\ InPool' = InPool
    BY <2>1 DEF Open, HasSocket, InPool
  <2>4. mishaps \subseteq mishaps' /\ mishaps' \subseteq {"failed", "restarted"}
    BY <1>2, <2>1 DEF LoopType
  <2>5. "restarted" \notin mishaps' => "restarted" \notin mishaps /\ ~Open
    BY <2>1
  <2> QED
    BY <1>2, <1>3, <2>1, <2>2, <2>3, <2>4, <2>5 DEF Settled, Tied
<1>5. CASE EstablishWaits(tm)
  <2>1. /\ ~Open /\ connfd' \in Fds /\ sock' = "syn" /\ isConnecting' = TRUE
        /\ scanfd' = [scanfd EXCEPT ![Client] = connfd']
        /\ rd' = Watch(rd, Client, connfd') /\ wr' = Watch(wr, Client, connfd')
        /\ timer' = tm /\ failed' = FALSE /\ told' = "nothing" /\ mishaps' = mishaps
    BY <1>5 DEF EstablishWaits, NoNews, FD_SETRD, FD_SETWR
  <2>2. rd' \in WatchSets /\ wr' \in WatchSets
    BY <1>2, <2>1, WatchClient DEF SessionType
  <2>3. scanfd' \in [Tors -> Fds] /\ scanfd'[Client] = connfd'
    BY <1>2, <2>1 DEF SessionType, Tors
  <2>4. SessionType'
    BY <2>1, <2>2, <2>3 DEF SessionType
  <2>5. Open' /\ HasSocket'
    BY <1>1, <2>1 DEF Open, HasSocket, INVALID_SOCKET
  <2>6. Settled'
    BY <2>3, <2>4, <2>5 DEF Settled, Tied
  <2> QED
    BY <1>2, <1>3, <2>1, <2>6 DEF LoopType
<1>6. CASE EstablishNow
  <2>1. /\ connfd' \in Fds /\ sock' = "up" /\ Established(connfd', wr)
        /\ mishaps' = mishaps \cup (IF Open THEN {"restarted"} ELSE {})
    BY <1>2, <1>6 DEF EstablishNow, SessionType, Open
  <2>2. /\ isConnecting' = FALSE
        /\ scanfd' \in [Tors -> Fds] /\ scanfd'[Client] = connfd'
        /\ rd' \in WatchSets /\ wr' \in WatchSets
        /\ timer' = "off" /\ told' = "START" /\ failed' = FALSE
    BY <1>2, <2>1, EstablishedEffect
  <2>3. SessionType'
    BY <2>1, <2>2 DEF SessionType
  <2>4. Open' /\ HasSocket'
    BY <1>1, <2>1 DEF Open, HasSocket, INVALID_SOCKET
  <2>5. Settled'
    BY <2>2, <2>3, <2>4 DEF Settled, Tied
  <2>6. mishaps \subseteq mishaps' /\ mishaps' \subseteq {"failed", "restarted"}
    BY <1>2, <2>1 DEF LoopType
  <2> QED
    BY <1>3, <2>2, <2>5, <2>6
<1> QED
  BY <1>4, <1>5, <1>6 DEF Establish

LEMMA EstablishDoneEffect ==
  ASSUME SessionType, LoopType, HasSocket, EstablishDone
  PROVE  /\ Settled'
         /\ isConnecting' = FALSE
         /\ attempt' \in BOOLEAN /\ failed' \in BOOLEAN
         /\ mishaps \subseteq mishaps' /\ mishaps' \subseteq {"failed", "restarted"}
         /\ Open' => Open /\ attempt' = FALSE
         /\ "restarted" \in mishaps' => "restarted" \in mishaps
         /\ ~Open' => "failed" \in mishaps'
<1>1. -1 \notin Fds
  BY FdsAssumption
<1>2. CASE ConnectFailed
  <2>1. /\ connfd' = INVALID_SOCKET /\ sock' = "none" /\ isConnecting' = FALSE
        /\ attempt' = Retries /\ timer' = (IF Retries THEN "set" ELSE timer)
        /\ failed' = TRUE /\ mishaps' = mishaps \cup {"failed"} /\ told' = "nothing"
        /\ scanfd' = scanfd /\ rd' = rd /\ wr' = wr
    BY <1>2 DEF ConnectFailed, CloseSocket, NoNews, pools
  <2>2. SessionType'
    BY <2>1 DEF SessionType
  <2>3. ~Open' /\ HasSocket'
    BY <2>1 DEF Open, HasSocket
  <2>4. Settled'
    BY <2>1, <2>2, <2>3 DEF Settled, Tied
  <2> QED
    BY <2>1, <2>3, <2>4, RetriesAssumption DEF LoopType
<1>3. CASE /\ sock \notin {"none", "refused"}
           /\ Established(connfd, wr)
           /\ attempt' = FALSE
           /\ UNCHANGED <<connfd, sock, mishaps>>
  <2>1. Open /\ connfd \in Fds
    BY <1>3 DEF HasSocket, SessionType, Open
  <2>2. /\ isConnecting' = FALSE
        /\ scanfd' \in [Tors -> Fds] /\ scanfd'[Client] = connfd
        /\ rd' \in WatchSets /\ wr' \in WatchSets
        /\ timer' = "off" /\ told' = "START" /\ failed' = FALSE
    BY <1>3, <2>1, EstablishedEffect
  <2>3. Open' /\ HasSocket'
    BY <1>3, <2>1 DEF Open, HasSocket
  <2>4. SessionType'
    BY <1>3, <2>1, <2>2 DEF SessionType
  <2>5. Settled'
    BY <1>3, <2>2, <2>3, <2>4 DEF Settled, Tied
  <2> QED
    BY <1>3, <2>1, <2>2, <2>3, <2>5 DEF LoopType
<1> QED
  BY <1>2, <1>3 DEF EstablishDone
-----------------------------------------------------------------------------
(***************************************************************************)
(* Every step keeps the invariant.                                         *)
(***************************************************************************)
\* A step that leaves the pools and the alarm as they are, and the socket in place
LEMMA QuietKeeps ==
  ASSUME IInv, LoopType', told' \in {"nothing", "START", "END", "DATA", "NOT_ALIVE"},
         \/ sock' = sock
         \/ sock # "none" /\ sock' \in {"up", "refused", "gone"},
         UNCHANGED <<tcpcli, attempt, timer, pools, ended, mishaps>>
  PROVE  IInv'
<1>1. SessionType' /\ HasSocket' /\ Open' = Open /\ InPool' = InPool
  BY Halves DEF IInv, SessionType, HasSocket, Open, InPool, tcpcli, pools
<1> QED
  BY <1>1, Halves DEF IInv, Tied, AtRest, tcpcli, pools

\* A step whose only effect on the socket is end
LEMMA EndKeeps ==
  ASSUME IInv, End, LoopType', mishaps' = mishaps, attempt' = attempt,
         ended' = ended \/ Open
  PROVE  IInv'
<1>1. SessionType /\ HasSocket
  BY Halves DEF IInv
<1>2. /\ SessionType' /\ HasSocket' /\ ~Open'
      /\ isConnecting' = isConnecting
      /\ timer' = timer \/ timer' = "off"
      /\ InPool' => ~Open /\ InPool
  BY <1>1, EndEffect
<1>3. Tied'
  BY <1>2 DEF IInv, Tied
<1>4. ASSUME "restarted" \notin mishaps, ended'
      PROVE  ~(attempt' /\ timer' = "set")
  <2>1. CASE Open
    BY <1>2, <1>4, <2>1 DEF IInv, AtRest
  <2>2. CASE ~Open
    <3>1. timer' = timer
      BY <2>2 DEF End
    <3> QED
      BY <1>4, <2>2, <3>1 DEF IInv, AtRest
  <2> QED
    BY <2>1, <2>2
<1>5. AtRest'
  BY <1>2, <1>4 DEF IInv, AtRest
<1> QED
  BY <1>2, <1>3, <1>5, Halves DEF IInv

LEMMA StartKeeps == ASSUME IInv, DMD_START_SESSION PROVE IInv'
<1>1. /\ Settled' /\ attempt' = FALSE /\ failed' \in BOOLEAN
      /\ mishaps \subseteq mishaps' /\ mishaps' \subseteq {"failed", "restarted"}
      /\ UNCHANGED <<sending, loop>>
  BY EstablishEffect DEF DMD_START_SESSION
<1>2. ended' = FALSE
  BY DEF DMD_START_SESSION
<1>3. LoopType'
  BY <1>1, <1>2, Halves DEF IInv, LoopType, sending, loop
<1> QED
  BY <1>1, <1>2, <1>3, Halves DEF IInv, Settled, AtRest

LEMMA EndSessionKeeps == ASSUME IInv, DMD_END_SESSION PROVE IInv'
<1>1. /\ ended' = TRUE /\ failed' = FALSE /\ mishaps' = mishaps /\ attempt' = attempt
      /\ UNCHANGED <<sending, loop>>
  BY DEF DMD_END_SESSION
<1>2. LoopType'
  BY <1>1, Halves DEF IInv, LoopType, sending, loop
<1>3. CASE Open /\ End
  BY <1>1, <1>2, <1>3, EndKeeps
<1>4. CASE ~Open /\ NoNews /\ timer' = "off" /\ UNCHANGED <<tcpcli, sock, pools>>
  <2>1. SessionType' /\ HasSocket' /\ ~Open' /\ InPool' = InPool
    BY <1>4, Halves DEF IInv, SessionType, HasSocket, Open, InPool, tcpcli, pools, NoNews
  <2> QED
    BY <1>1, <1>2, <1>4, <2>1, Halves DEF IInv, Tied, AtRest, tcpcli
<1> QED
  BY <1>3, <1>4 DEF DMD_END_SESSION

LEMMA ReleaseKeeps == ASSUME IInv, CMD_RELEASE_SESSION PROVE IInv'
<1>1. /\ ended' = TRUE /\ failed' = FALSE /\ mishaps' = mishaps /\ attempt' = attempt
      /\ UNCHANGED <<sending, loop>>
      /\ rd' = Unwatch(rd, Client, scanfd[Client])
      /\ wr' = Unwatch(wr, Client, scanfd[Client])
      /\ connfd' = INVALID_SOCKET /\ sock' = "none" /\ told' = "nothing"
      /\ timer' = timer /\ scanfd' = scanfd /\ isConnecting' = isConnecting
      /\ Open
  BY DEF CMD_RELEASE_SESSION, FD_CLRRD, FD_CLRWR, CloseSocket, NoNews
<1>2. SessionType /\ LoopType
  BY Halves DEF IInv
<1>3. scanfd[Client] \in Fds /\ rd \in WatchSets /\ wr \in WatchSets
  BY <1>2 DEF SessionType, Tors
<1>4. /\ rd' \in WatchSets /\ rd'.on = rd.on \ {Client}
      /\ wr' \in WatchSets /\ wr'.on = wr.on \ {Client}
  BY <1>1, <1>3, WatchClient
<1>5. SessionType' /\ LoopType'
  BY <1>1, <1>2, <1>4 DEF SessionType, LoopType, sending, loop
<1>6. ~Open' /\ HasSocket' /\ ~InPool'
  BY <1>1, <1>4 DEF Open, HasSocket, InPool
<1> QED
  BY <1>1, <1>5, <1>6, Halves DEF IInv, Tied, AtRest

LEMMA TimerToReleaseKeeps == ASSUME IInv, CMD_TIMER_TO_RELEASE PROVE IInv'
<1>1. /\ Open /\ timer' = "set" /\ told' = "nothing"
      /\ UNCHANGED <<tcpcli, sending, attempt, sock, pools, loop, ended, past>>
  BY DEF CMD_TIMER_TO_RELEASE, NoNews
<1>2. SessionType' /\ LoopType' /\ HasSocket' /\ Open' = Open /\ InPool' = InPool
  BY <1>1, Halves DEF IInv, SessionType, LoopType, HasSocket, Open, InPool,
                      tcpcli, sending, pools, loop, past
<1> QED
  BY <1>1, <1>2, Halves DEF IInv, Tied, AtRest, tcpcli, pools, past

\* Pause, resume and the watch for writing: a pool changes while there is a
\* socket, and no more.
LEMMA PoolKeeps ==
  ASSUME IInv, LoopType', told' \in {"nothing", "NOT_ALIVE"}, Open,
         rd' \in WatchSets, wr' \in WatchSets,
         UNCHANGED <<tcpcli, attempt, timer, sock, scanfd, ended, mishaps>>
  PROVE  IInv'
<1>1. SessionType' /\ HasSocket' /\ Open' = Open
  BY Halves DEF IInv, SessionType, HasSocket, Open, tcpcli
<1> QED
  BY <1>1, Halves DEF IInv, Tied, AtRest, tcpcli

LEMMA PauseKeeps ==
  ASSUME IInv, CMD_CHANNEL_PAUSE \/ CMD_CHANNEL_RESUME
  PROVE  IInv'
<1>1. /\ Open /\ told' = "nothing"
      /\ UNCHANGED <<tcpcli, sending, attempt, timer, sock, scanfd, wr, loop, ended, past>>
      /\ rd' \in {Unwatch(rd, Client, scanfd[Client]), Watch(rd, Client, scanfd[Client])}
  BY DEF CMD_CHANNEL_PAUSE, CMD_CHANNEL_RESUME, FD_CLRRD, FD_SETRD, NoNews
<1>2. scanfd[Client] \in Fds /\ rd \in WatchSets /\ wr \in WatchSets
  BY Halves DEF IInv, SessionType, Tors
<1>3. /\ Unwatch(rd, Client, scanfd[Client]) \in WatchSets
      /\ Watch(rd, Client, scanfd[Client]) \in WatchSets
  BY <1>2, WatchClient
<1>4. LoopType'
  BY <1>1, Halves DEF IInv, LoopType, sending, loop, past
<1> QED
  BY <1>1, <1>2, <1>3, <1>4, PoolKeeps DEF past

LEMMA SendKeeps == ASSUME IInv, PRO_TBUF PROVE IInv'
<1>1. /\ UNCHANGED <<attempt, loop, ended, past>>
      /\ wr_blocked' \in BOOLEAN /\ unsent' \in BOOLEAN
  BY Halves DEF PRO_TBUF, Written, HalfWritten, NotWritten, SendAll, SendPart,
                IInv, LoopType
<1>2. LoopType'
  BY <1>1, Halves DEF IInv, LoopType, loop, past
<1>3. scanfd[Client] \in Fds /\ rd \in WatchSets /\ wr \in WatchSets
  BY Halves DEF IInv, SessionType, Tors
<1>4. CASE Written \/ HalfWritten
  <2>1. /\ UNCHANGED <<tcpcli, timer, sock, scanfd, rd>>
        /\ told' \in {"nothing", "NOT_ALIVE"}
    BY <1>4 DEF Written, HalfWritten
  <2>2. CASE wr' = wr
    BY <1>1, <1>2, <2>1, <2>2, QuietKeeps DEF pools, past
  <2>3. CASE wr' # wr
    <3>1. Open /\ wr' \in {Unwatch(wr, Client, scanfd[Client]), Watch(wr, Client, scanfd[Client])}
      BY <1>4, <2>3 DEF Written, HalfWritten, FD_CLRWR, FD_SETWR, NotAlive
    <3>2. /\ Unwatch(wr, Client, scanfd[Client]) \in WatchSets
          /\ Watch(wr, Client, scanfd[Client]) \in WatchSets
      BY <1>3, WatchClient
    <3> QED
      BY <1>1, <1>2, <1>3, <2>1, <3>1, <3>2, PoolKeeps DEF past
  <2> QED
    BY <2>2, <2>3
<1>5. CASE NotWritten
  <2>1. CASE /\ NotAlive
             /\ sock' = IF sock = "refused" THEN "gone" ELSE sock
             /\ told' = "NOT_ALIVE"
             /\ UNCHANGED <<tcpcli, timer, pools>>
    BY <1>1, <1>2, <2>1, QuietKeeps DEF past
  <2>2. CASE End
    BY <1>1, <1>2, <2>2, EndKeeps DEF past
  <2> QED
    BY <1>5, <2>1, <2>2 DEF NotWritten
<1> QED
  BY <1>4, <1>5 DEF PRO_TBUF

LEMMA TimerKeeps == ASSUME IInv, TIMER PROVE IInv'
<1>1. CASE attempt /\ ~Open /\ Establish("spent") /\ UNCHANGED ended
  <2>1. /\ Settled' /\ attempt' = FALSE /\ failed' \in BOOLEAN
        /\ mishaps \subseteq mishaps' /\ mishaps' \subseteq {"failed", "restarted"}
        /\ UNCHANGED <<sending, loop>>
    BY <1>1, EstablishEffect
  <2>2. LoopType'
    BY <1>1, <2>1, Halves DEF IInv, LoopType, sending, loop
  <2>3. "restarted" \notin mishaps' => ~ended'
    BY <1>1, <2>1 DEF IInv, AtRest, TIMER
  <2> QED
    BY <2>1, <2>2, <2>3, Halves DEF IInv, Settled, AtRest
<1>2. CASE /\ \/ Open /\ End
              \/ ~Open /\ NoNews /\ timer' = "spent" /\ UNCHANGED <<tcpcli, sock, pools>>
           /\ UNCHANGED <<sending, attempt, loop, ended, past>>
  <2>1. LoopType'
    BY <1>2, Halves DEF IInv, LoopType, sending, loop, past
  <2>2. CASE End
    BY <1>2, <2>1, <2>2, EndKeeps DEF past
  <2>3. CASE ~Open /\ NoNews /\ timer' = "spent" /\ UNCHANGED <<tcpcli, sock, pools>>
    <3>1. SessionType' /\ HasSocket' /\ ~Open' /\ InPool' = InPool
      BY <2>3, Halves DEF IInv, SessionType, HasSocket, Open, InPool, tcpcli, pools, NoNews
    <3> QED
      BY <1>2, <2>1, <2>3, <3>1, Halves DEF IInv, Tied, AtRest, tcpcli, past
  <2> QED
    BY <1>2, <2>2, <2>3
<1> QED
  BY <1>1, <1>2 DEF TIMER

LEMMA SelectErrorKeeps == ASSUME IInv, SelectError PROVE IInv'
<1>1. /\ rd' = Zero(rd) /\ wr' = Zero(wr) /\ told' = "nothing"
      /\ UNCHANGED <<tcpcli, sending, attempt, timer, sock, scanfd, loop, ended, past>>
  BY DEF SelectError, NoNews
<1>2. SessionType /\ LoopType
  BY Halves DEF IInv
<1>3. /\ rd' \in WatchSets /\ wr' \in WatchSets
      /\ rd'.on = rd.on /\ wr'.on = wr.on
  <2>1. PICK fd \in Fds : TRUE
    BY FdsAssumption
  <2> QED
    BY <1>1, <1>2, <2>1, WatchClient DEF SessionType
<1>4. SessionType' /\ LoopType' /\ HasSocket' /\ Open' = Open /\ InPool' = InPool
  BY <1>1, <1>2, <1>3 DEF IInv, SessionType, LoopType, HasSocket, Open, InPool,
                          tcpcli, sending, loop, past
<1> QED
  BY <1>1, <1>4, Halves DEF IInv, Tied, AtRest, tcpcli, past

LEMMA SelectKeeps == ASSUME IInv, Select PROVE IInv'
<1>1. /\ at' = "rd" /\ told' = "nothing"
      /\ rset' \subseteq rd.bits /\ wset' \subseteq wr.bits
      /\ UNCHANGED <<tcpcli, sending, attempt, timer, sock, pools, ended, past>>
  BY DEF Select, NoNews
<1>2. SessionType /\ LoopType
  BY Halves DEF IInv
<1>3. rd.bits \subseteq Fds /\ wr.bits \subseteq Fds
  BY <1>2 DEF SessionType, WatchSets
<1>4. LoopType'
  BY <1>1, <1>2, <1>3 DEF LoopType, sending, past
<1> QED
  BY <1>1, <1>4, QuietKeeps DEF past

\* The event of a connect reaches a client that waits for one.
LEMMA ConnectedKeeps ==
  ASSUME IInv, isConnecting, InPool, EstablishDone, LoopType', ended' = ended
  PROVE  IInv'
<1>1. SessionType /\ LoopType /\ HasSocket
  BY Halves DEF IInv
<1>2. /\ Settled'
      /\ isConnecting' = FALSE
      /\ Open' => Open /\ attempt' = FALSE
      /\ "restarted" \in mishaps' => "restarted" \in mishaps
      /\ ~Open' => "failed" \in mishaps'
  BY <1>1, EstablishDoneEffect
<1>3. mishaps \subseteq mishaps'
  BY <1>1, EstablishDoneEffect
<1>4. ASSUME "restarted" \notin mishaps' PROVE ~ended'
  BY <1>3, <1>4 DEF IInv, AtRest
<1> QED
  BY <1>2, <1>4, Halves DEF IInv, Settled, AtRest

LEMMA WalkRdKeeps == ASSUME IInv, WalkRd PROVE IInv'
<1>1. at' = "wr" /\ UNCHANGED <<sending, rset, wset, ended>>
  BY DEF WalkRd
<1>2. SessionType /\ LoopType /\ HasSocket
  BY Halves DEF IInv
<1>3. CASE Called(rd, rset) /\ isConnecting /\ EstablishDone
  <2>1. attempt' \in BOOLEAN /\ failed' \in BOOLEAN /\ mishaps' \subseteq {"failed", "restarted"}
    BY <1>2, <1>3, EstablishDoneEffect
  <2>2. LoopType' /\ InPool
    BY <1>1, <1>2, <1>3, <2>1 DEF LoopType, sending, Called, InPool
  <2> QED
    BY <1>1, <1>3, <2>2, ConnectedKeeps
<1>4. CASE /\ Called(rd, rset) /\ ~isConnecting /\ Received
           /\ UNCHANGED <<attempt, past>>
  <2>1. LoopType'
    BY <1>1, <1>2, <1>4 DEF LoopType, sending, past
  <2>2. CASE End
    BY <1>1, <1>4, <2>1, <2>2, EndKeeps DEF past
  <2>3. CASE told' \in {"DATA", "nothing"} /\ UNCHANGED <<tcpcli, timer, sock, pools>>
    BY <1>1, <1>4, <2>1, <2>3, QuietKeeps DEF past
  <2> QED
    BY <1>4, <2>2, <2>3 DEF Received, NoNews
<1>5. CASE /\ ~Called(rd, rset)
           /\ NoNews
           /\ UNCHANGED <<tcpcli, attempt, timer, sock, pools, past>>
  <2>1. LoopType'
    BY <1>1, <1>2, <1>5 DEF LoopType, sending, past
  <2> QED
    BY <1>1, <1>5, <2>1, QuietKeeps DEF NoNews, past
<1> QED
  BY <1>3, <1>4, <1>5 DEF WalkRd, FD_PRORD

LEMMA WalkWrKeeps == ASSUME IInv, WalkWr PROVE IInv'
<1>1. at' = "turn" /\ rset' = {} /\ wset' = {} /\ ended' = ended
  BY DEF WalkWr
<1>2. SessionType /\ LoopType /\ HasSocket
  BY Halves DEF IInv
<1>3. CASE Called(wr, wset) /\ isConnecting /\ EstablishDone /\ UNCHANGED sending
  <2>1. attempt' \in BOOLEAN /\ failed' \in BOOLEAN /\ mishaps' \subseteq {"failed", "restarted"}
    BY <1>2, <1>3, EstablishDoneEffect
  <2>2. LoopType' /\ InPool
    BY <1>1, <1>2, <1>3, <2>1 DEF LoopType, sending, Called, InPool
  <2> QED
    BY <1>1, <1>3, <2>2, ConnectedKeeps
<1>4. CASE /\ Called(wr, wset) /\ ~isConnecting /\ Resent
           /\ UNCHANGED <<attempt, past>>
  <2>1. wr_blocked' \in BOOLEAN /\ unsent' \in BOOLEAN
    BY <1>2, <1>4 DEF Resent, SendAll, SendPart, LoopType, sending
  <2>2. LoopType'
    BY <1>1, <1>2, <1>4, <2>1 DEF LoopType, past
  <2>3. CASE End
    BY <1>1, <1>4, <2>2, <2>3, EndKeeps DEF past
  <2>4. CASE NoNews /\ UNCHANGED <<tcpcli, timer, sock, pools>>
    BY <1>1, <1>4, <2>2, <2>4, QuietKeeps DEF NoNews, past
  <2> QED
    BY <1>4, <2>3, <2>4 DEF Resent
<1>5. CASE /\ ~Called(wr, wset)
           /\ NoNews
           /\ UNCHANGED <<tcpcli, sending, attempt, timer, sock, pools, past>>
  <2>1. LoopType'
    BY <1>1, <1>2, <1>5 DEF LoopType, sending, past
  <2> QED
    BY <1>1, <1>5, <2>1, QuietKeeps DEF NoNews, past
<1> QED
  BY <1>3, <1>4, <1>5 DEF WalkWr, FD_PROWR

LEMMA NetworkKeeps ==
  ASSUME IInv, NEW from, NEW to \in {"up", "refused", "gone"}, Becomes(from, to),
         from # "none"
  PROVE  IInv'
<1>1. /\ sock = from /\ sock' = to /\ told' = "nothing"
      /\ UNCHANGED <<tcpcli, sending, attempt, timer, pools, loop, ended, past>>
  BY DEF Becomes, NoNews
<1>2. LoopType'
  BY <1>1, Halves DEF IInv, LoopType, sending, loop, past
<1> QED
  BY <1>1, <1>2, QuietKeeps DEF past

LEMMA ResetKeeps == ASSUME IInv, SndBufReset PROVE IInv'
<1>1. /\ unsent' = FALSE /\ told' = "nothing"
      /\ UNCHANGED <<tcpcli, wr_blocked, attempt, timer, sock, pools, loop, ended, past>>
  BY DEF SndBufReset, NoNews
<1>2. LoopType'
  BY <1>1, Halves DEF IInv, LoopType, loop, past
<1> QED
  BY <1>1, <1>2, QuietKeeps DEF past

LEMMA Inductive == IInv /\ [Next]_vars => IInv'
<1> SUFFICES ASSUME IInv, [Next]_vars PROVE IInv'
  OBVIOUS
<1>1. CASE Users
  BY <1>1, StartKeeps, EndSessionKeeps, ReleaseKeeps, TimerToReleaseKeeps, PauseKeeps,
     SendKeeps, ResetKeeps DEF Users
<1>2. CASE Scheduler
  BY <1>2, TimerKeeps, SelectErrorKeeps, SelectKeeps, WalkRdKeeps, WalkWrKeeps
     DEF Scheduler
<1>3. CASE Network
  BY <1>3, NetworkKeeps DEF Network, Accepted, Refused, ClosedByServer
<1>4. CASE UNCHANGED vars
  <2>1. SessionType' /\ LoopType' /\ HasSocket' /\ Open' = Open /\ InPool' = InPool
    BY <1>4, Halves DEF IInv, SessionType, LoopType, HasSocket, Open, InPool,
                        vars, tcpcli, sending, pools, loop, past
  <2> QED
    BY <1>4, <2>1, Halves DEF IInv, Tied, AtRest, vars, tcpcli, pools, past
<1> QED
  BY <1>1, <1>2, <1>3, <1>4 DEF Next

\* In every behaviour the invariant holds at every moment.
THEOREM InvariantHolds == Spec => []IInv
  BY InitIInv, Inductive, PTL DEF Spec

-----------------------------------------------------------------------------
(***************************************************************************)
(* What follows of it.                                                     *)
(***************************************************************************)
\* Whatever the order of calls, events and alarms, the socket, the flags, the
\* Criptor fields and the two pools have their types: above all, FD_SET is never
\* given -1 for a descriptor.
THEOREM TypeCorrect == Spec => []TypeOK
  BY InvariantHolds, PTL DEF IInv

\* While no connect has failed or was made on an open socket, FD_CLR* is passed
\* to Sched before each close of the socket and before scanfd changes, for
\* whichever handler closes it (Describo.h:27-30).
THEOREM ContractHeld == Spec => []ContractKeptUntilMishap
<1>1. IInv => ContractKeptUntilMishap
  BY DEF IInv, Tied, InPool, ContractKeptUntilMishap, ContractKept
<1> QED
  BY <1>1, InvariantHolds, PTL

\* A step that closes the socket of a connection that was made ends with
\* END_SESSION, or is the users' release, or their start of what is there.
THEOREM ClosesAreTold == Spec => NoSilentClose
<1>1. IInv /\ [Next]_vars =>
        [Open /\ ~isConnecting /\ ~Open' =>
            told' = "END" \/ CMD_RELEASE_SESSION \/ DMD_START_SESSION]_vars
  <2> SUFFICES ASSUME IInv, Next, Open, ~isConnecting, ~Open'
               PROVE  told' = "END" \/ CMD_RELEASE_SESSION \/ DMD_START_SESSION
    BY DEF vars
  <2>2. ASSUME End PROVE told' = "END"
    BY <2>2 DEF End
  <2>4. ~UNCHANGED connfd
    BY DEF Open
  <2>5. CASE Users
    <3>1. CASE DMD_START_SESSION \/ CMD_RELEASE_SESSION
      BY <3>1
    <3>2. CASE DMD_END_SESSION
      BY <2>2, <3>2 DEF DMD_END_SESSION
    <3>3. CASE \/ CMD_TIMER_TO_RELEASE \/ CMD_CHANNEL_PAUSE \/ CMD_CHANNEL_RESUME
               \/ SndBufReset
      BY <2>4, <3>3 DEF CMD_TIMER_TO_RELEASE, CMD_CHANNEL_PAUSE, CMD_CHANNEL_RESUME,
                        SndBufReset, tcpcli
    <3>4. CASE PRO_TBUF
      BY <2>2, <2>4, <3>4 DEF PRO_TBUF, Written, HalfWritten, NotWritten, tcpcli
    <3> QED
      BY <2>5, <3>1, <3>2, <3>3, <3>4 DEF Users
  <2>6. CASE Scheduler
    <3>1. CASE TIMER
      BY <2>2, <2>4, <3>1 DEF TIMER, tcpcli
    <3>2. CASE SelectError \/ Select
      BY <2>4, <3>2 DEF SelectError, Select, tcpcli
    <3>3. CASE WalkRd
      BY <2>2, <2>4, <3>3 DEF WalkRd, FD_PRORD, Received, tcpcli
    <3>4. CASE WalkWr
      BY <2>2, <2>4, <3>4 DEF WalkWr, FD_PROWR, Resent, tcpcli
    <3> QED
      BY <2>6, <3>1, <3>2, <3>3, <3>4 DEF Scheduler
  <2>7. CASE Network
    BY <2>4, <2>7 DEF Network, Accepted, Refused, ClosedByServer, Becomes, tcpcli
  <2> QED
    BY <2>5, <2>6, <2>7 DEF Next
<1> QED
  BY <1>1, InvariantHolds, PTL DEF Spec, NoSilentClose

\* After the users ended or released the session it is they who start the next
\* one: neither an alarm of a retry nor an event of a connect that was broken off
\* opens a socket, but for what a start on an open socket has left behind.
THEOREM EndIsFinal == Spec => EndedStaysEnded
<1>1. IInv /\ [Next]_vars => [~Open /\ Open' => ~ended' \/ "restarted" \in mishaps]_vars
  <2> SUFFICES ASSUME IInv, Next, ~Open, Open', "restarted" \notin mishaps
               PROVE  ~ended'
    BY DEF vars
  <2>1. SessionType /\ LoopType /\ HasSocket
    BY Halves DEF IInv
  <2>2. ~End /\ connfd' # connfd
    BY DEF Open, End, tcpcli
  <2>3. CASE Users
    <3>1. CASE DMD_START_SESSION
      BY <3>1 DEF DMD_START_SESSION
    <3>2. CASE \/ DMD_END_SESSION \/ CMD_RELEASE_SESSION \/ CMD_TIMER_TO_RELEASE
               \/ CMD_CHANNEL_PAUSE \/ CMD_CHANNEL_RESUME
      BY <2>2, <3>2 DEF DMD_END_SESSION, CMD_RELEASE_SESSION, CMD_TIMER_TO_RELEASE,
                        CMD_CHANNEL_PAUSE, CMD_CHANNEL_RESUME, tcpcli
    <3>3. CASE PRO_TBUF \/ SndBufReset
      BY <2>2, <3>3 DEF PRO_TBUF, Written, HalfWritten, NotWritten, SndBufReset, tcpcli
    <3> QED
      BY <2>3, <3>1, <3>2, <3>3 DEF Users
  <2>4. CASE Scheduler
    <3>1. CASE TIMER
      BY <2>2, <3>1 DEF TIMER, IInv, AtRest, tcpcli
    <3>2. CASE SelectError \/ Select
      BY <2>2, <3>2 DEF SelectError, Select, tcpcli
    <3>3. ~EstablishDone
      BY <2>1, EstablishDoneEffect
    <3>4. CASE WalkRd
      BY <2>2, <3>3, <3>4 DEF WalkRd, FD_PRORD, Received, tcpcli
    <3>5. CASE WalkWr
      BY <2>2, <3>3, <3>5 DEF WalkWr, FD_PROWR, Resent, tcpcli
    <3> QED
      BY <2>4, <3>1, <3>2, <3>4, <3>5 DEF Scheduler
  <2>5. CASE Network
    BY <2>2, <2>5 DEF Network, Accepted, Refused, ClosedByServer, Becomes, tcpcli
  <2> QED
    BY <2>3, <2>4, <2>5 DEF Next
<1> QED
  BY <1>1, InvariantHolds, PTL DEF Spec, EndedStaysEnded

\* The safety half of RetriesGoOn: from the moment a connect has failed until
\* the retry, or until the users end the session or start one, there is no
\* socket and the alarm for the retry is set (Tcpcliuna.cpp:70,710-713).
RetryIsSet ==
    failed => ~Open /\ ~isConnecting /\ (Retries => attempt /\ timer = "set")

THEOREM RetryStaysSet == Spec => []RetryIsSet
<1>1. Init => RetryIsSet
  BY DEF Init, RetryIsSet
<1>2. IInv /\ RetryIsSet /\ [Next]_vars => RetryIsSet'
  <2> SUFFICES ASSUME IInv, RetryIsSet, [Next]_vars, failed' PROVE RetryIsSet'
    BY DEF RetryIsSet
  <2>1. SessionType /\ LoopType /\ HasSocket
    BY Halves DEF IInv
  <2>2. ASSUME NEW tm, Establish(tm) PROVE ~failed'
    BY <2>2 DEF Establish, EstablishFails, EstablishWaits, EstablishNow, Established
  <2>3. ASSUME End, ~Open PROVE UNCHANGED <<tcpcli, timer>>
    BY <2>3 DEF End
  <2>4. ASSUME failed, UNCHANGED <<tcpcli, attempt, timer>> PROVE RetryIsSet'
    BY <2>4 DEF RetryIsSet, Open, tcpcli
  <2>5. CASE Users
    <3>1. CASE DMD_START_SESSION \/ DMD_END_SESSION \/ CMD_RELEASE_SESSION
      BY <2>2, <3>1 DEF DMD_START_SESSION, DMD_END_SESSION, CMD_RELEASE_SESSION
    <3>2. CASE CMD_TIMER_TO_RELEASE \/ CMD_CHANNEL_PAUSE \/ CMD_CHANNEL_RESUME
      BY <3>2 DEF CMD_TIMER_TO_RELEASE, CMD_CHANNEL_PAUSE, CMD_CHANNEL_RESUME, past,
                  RetryIsSet
    <3>3. CASE PRO_TBUF \/ SndBufReset
      BY <2>3, <2>4, <3>3 DEF PRO_TBUF, Written, HalfWritten, NotWritten, SndBufReset,
                              past, NotAlive, RetryIsSet
    <3> QED
      BY <2>5, <3>1, <3>2, <3>3 DEF Users
  <2>6. CASE Scheduler
    <3>1. CASE TIMER
      <4>1. CASE Establish("spent")
        BY <2>2, <4>1
      <4>2. CASE ~(attempt /\ ~Open) /\ UNCHANGED <<attempt, past>>
        <5>1. failed
          BY <4>2 DEF past
        <5>2. ~Retries
          BY <4>2, <5>1 DEF RetryIsSet
        <5>3. UNCHANGED tcpcli
          BY <3>1, <4>2, <5>1 DEF TIMER, RetryIsSet
        <5> QED
          BY <5>1, <5>2, <5>3 DEF RetryIsSet, Open, tcpcli
      <4> QED
        BY <3>1, <4>1, <4>2 DEF TIMER
    <3>2. CASE SelectError \/ Select
      BY <2>4, <3>2 DEF SelectError, Select, past
    <3>3. CASE EstablishDone
      <4>1. CASE ConnectFailed
        BY <4>1 DEF ConnectFailed, CloseSocket, RetryIsSet, Open
      <4>2. CASE Established(connfd, wr)
        BY <4>2 DEF Established
      <4> QED
        BY <3>3, <4>1, <4>2 DEF EstablishDone
    <3>4. CASE WalkRd /\ ~EstablishDone
      BY <2>1, <2>3, <2>4, <3>4
         DEF WalkRd, FD_PRORD, Received, past, RetryIsSet, HasSocket
    <3>5. CASE WalkWr /\ ~EstablishDone
      BY <2>1, <2>3, <2>4, <3>5
         DEF WalkWr, FD_PROWR, Resent, past, RetryIsSet, HasSocket
    <3> QED
      BY <2>6, <3>1, <3>2, <3>3, <3>4, <3>5 DEF Scheduler
  <2>7. CASE Network
    BY <2>4, <2>7 DEF Network, Accepted, Refused, ClosedByServer, Becomes, past
  <2>8. CASE UNCHANGED vars
    BY <2>4, <2>8 DEF vars, past
  <2> QED
    BY <2>5, <2>6, <2>7, <2>8 DEF Next
<1> QED
  BY <1>1, <1>2, InvariantHolds, PTL DEF Spec
-----------------------------------------------------------------------------
(***************************************************************************)
(* The descriptors that select is asked for.                               *)
(***************************************************************************)
\* Until a connect fails, they are the sockets that are open and watched, and
\* a client that is connecting is watched for the end of it.
Exact ==
    mishaps = {} =>
        /\ rd.bits = {OtherFd} \cup {fd \in {connfd} : Client \in rd.on}
        /\ wr.bits = {fd \in {connfd} : Client \in wr.on}
        /\ connfd # OtherFd
        /\ Open /\ isConnecting => Client \in wr.on

LEMMA WatchBits ==
  ASSUME NEW w \in WatchSets, NEW fd \in Fds
  PROVE  /\ Client \notin w.on => Watch(w, Client, fd).bits = w.bits \cup {fd}
         /\ Client \in w.on => Watch(w, Client, fd) = w
         /\ Unwatch(w, Client, fd).bits = w.bits \ {fd}
  BY DEF WatchSets, Watch, Unwatch

LEMMA ExactFromTheStart == Init => Exact
<1> SUFFICES ASSUME Init PROVE Exact
  OBVIOUS
<1>1. rd = [on |-> {Other}, bits |-> {OtherFd}] /\ wr = [on |-> {}, bits |-> {}]
  BY DEF Init, Watch, NoneWatched
<1>2. connfd = -1 /\ OtherFd \in Nat
  BY FdsAssumption DEF Init, INVALID_SOCKET
<1> QED
  BY <1>1, <1>2, TorsAssumption DEF Exact, Open, INVALID_SOCKET

\* Nothing that Exact speaks of changes
LEMMA ExactUnchanged ==
  ASSUME Exact, UNCHANGED <<tcpcli, pools>>, mishaps' = {} => mishaps = {}
  PROVE  Exact'
  BY DEF Exact, Open, tcpcli, pools

\* What is closed was taken out of the pools with its own number.
LEMMA ExactAfterEnd ==
  ASSUME IInv, Exact, mishaps' = mishaps, Open,
         FD_CLRRD, FD_CLRWR, connfd' = INVALID_SOCKET
  PROVE  Exact'
<1> SUFFICES ASSUME mishaps = {} PROVE Exact'
  BY DEF Exact
<1>1. /\ scanfd[Client] = connfd
      /\ rd.bits = {OtherFd} \cup {fd \in {connfd} : Client \in rd.on}
      /\ wr.bits = {fd \in {connfd} : Client \in wr.on}
      /\ connfd # OtherFd
  BY DEF IInv, Tied, Exact
<1>2. rd \in WatchSets /\ wr \in WatchSets /\ connfd \in Fds
  BY Halves DEF IInv, SessionType, Open
<1>3. /\ rd'.on = rd.on \ {Client} /\ wr'.on = wr.on \ {Client}
      /\ rd'.bits = rd.bits \ {connfd} /\ wr'.bits = wr.bits \ {connfd}
  BY <1>1, <1>2, WatchClient, WatchBits DEF FD_CLRRD, FD_CLRWR
<1>4. -1 # OtherFd
  BY FdsAssumption
<1> QED
  BY <1>1, <1>3, <1>4 DEF Exact, Open, INVALID_SOCKET

LEMMA ExactEnd ==
  ASSUME IInv, Exact, End, mishaps' = mishaps PROVE Exact'
<1>1. CASE Open
  <2>1. FD_CLRRD /\ FD_CLRWR /\ connfd' = INVALID_SOCKET
    BY <1>1 DEF End, CloseSocket
  <2> QED
    BY <1>1, <2>1, ExactAfterEnd
<1>2. CASE ~Open
  BY <1>2, ExactUnchanged DEF End
<1> QED
  BY <1>1, <1>2

\* A socket is new to both pools, and gets a number that no other has.
LEMMA ExactEstablish ==
  ASSUME IInv, Exact, NEW tm, Establish(tm) PROVE Exact'
<1> SUFFICES ASSUME mishaps' = {} PROVE Exact'
  BY DEF Exact
<1>1. ~EstablishFails(tm)
  BY DEF EstablishFails
<1>2. /\ mishaps = {} /\ ~Open /\ connfd' \in Fds \ OpenFds
      /\ \/ EstablishWaits(tm)
         \/ Established(connfd', wr)
  BY <1>1 DEF Establish, EstablishWaits, EstablishNow
<1>3. Client \notin rd.on /\ Client \notin wr.on
  BY <1>2 DEF IInv, Tied, InPool
<1>4. rd.bits = {OtherFd} /\ wr.bits = {} /\ connfd' # OtherFd
  BY <1>2, <1>3 DEF Exact, OpenFds
<1>5. rd \in WatchSets /\ wr \in WatchSets
  BY Halves DEF IInv, SessionType
<1>6. rd' = Watch(rd, Client, connfd')
  BY <1>2 DEF EstablishWaits, Established, FD_SETRD
<1>7. Client \in rd'.on /\ rd'.bits = {OtherFd, connfd'}
  BY <1>2, <1>3, <1>4, <1>5, <1>6, WatchClient, WatchBits
<1>8. CASE EstablishWaits(tm)
  <2>1. wr' = Watch(wr, Client, connfd')
    BY <1>8 DEF EstablishWaits, FD_SETWR
  <2>2. Client \in wr'.on /\ wr'.bits = {connfd'}
    BY <1>2, <1>3, <1>4, <1>5, <2>1, WatchClient, WatchBits
  <2> QED
    BY <1>4, <1>7, <2>2 DEF Exact
<1>9. CASE Established(connfd', wr)
  <2>1. wr' = Unwatch(wr, Client, connfd') /\ isConnecting' = FALSE
    BY <1>9 DEF Established
  <2>2. connfd' \in Fds
    BY <1>2
  <2>3. wr'.on = wr.on \ {Client} /\ wr'.bits = wr.bits \ {connfd'}
    BY <1>5, <2>1, <2>2, WatchClient, WatchBits
  <2> QED
    BY <1>3, <1>4, <1>7, <2>1, <2>3 DEF Exact
<1> QED
  BY <1>2, <1>8, <1>9

LEMMA ExactEstablishDone ==
  ASSUME IInv, Exact, EstablishDone PROVE Exact'
<1> SUFFICES ASSUME mishaps' = {} PROVE Exact'
  BY DEF Exact
<1>1. ~ConnectFailed
  BY DEF ConnectFailed
<1>2. /\ sock # "none" /\ Established(connfd, wr) /\ connfd' = connfd /\ mishaps = {}
  BY <1>1 DEF EstablishDone
<1>3. Open /\ connfd \in Fds /\ rd \in WatchSets /\ wr \in WatchSets
  BY <1>2, Halves DEF IInv, HasSocket, SessionType, Open
<1>4. /\ rd' = Watch(rd, Client, connfd) /\ wr' = Unwatch(wr, Client, connfd)
      /\ isConnecting' = FALSE
  BY <1>2 DEF Established, FD_SETRD
<1>5. wr'.on = wr.on \ {Client} /\ wr'.bits = wr.bits \ {connfd}
  BY <1>3, <1>4, WatchClient, WatchBits
<1>6. rd'.on = rd.on \cup {Client}
  BY <1>3, <1>4, WatchClient
<1>7. \/ rd'.bits = rd.bits \cup {connfd}
      \/ Client \in rd.on /\ rd'.bits = rd.bits
  BY <1>3, <1>4, WatchBits
<1> QED
  BY <1>2, <1>4, <1>5, <1>6, <1>7 DEF Exact

LEMMA ExactPause ==
  ASSUME IInv, Exact, CMD_CHANNEL_PAUSE \/ CMD_CHANNEL_RESUME PROVE Exact'
<1>1. /\ Open /\ UNCHANGED <<connfd, isConnecting, wr, mishaps>>
      /\ rd' \in {Unwatch(rd, Client, scanfd[Client]), Watch(rd, Client, scanfd[Client])}
  BY DEF CMD_CHANNEL_PAUSE, CMD_CHANNEL_RESUME, FD_CLRRD, FD_SETRD, tcpcli, past
<1> SUFFICES ASSUME mishaps = {} PROVE Exact'
  BY <1>1 DEF Exact
<1>2. scanfd[Client] = connfd /\ connfd \in Fds /\ rd \in WatchSets
  BY <1>1, Halves DEF IInv, Tied, SessionType, Open
<1>3. CASE rd' = Unwatch(rd, Client, connfd)
  <2>1. Client \notin rd'.on /\ rd'.bits = rd.bits \ {connfd}
    BY <1>2, <1>3, WatchClient, WatchBits
  <2> QED
    BY <1>1, <2>1 DEF Exact, Open
<1>4. CASE rd' = Watch(rd, Client, connfd)
  <2>1. /\ Client \in rd'.on
        /\ rd'.bits = rd.bits \cup {connfd} \/ (Client \in rd.on /\ rd'.bits = rd.bits)
    BY <1>2, <1>4, WatchClient, WatchBits
  <2> QED
    BY <1>1, <2>1 DEF Exact, Open
<1> QED
  BY <1>1, <1>2, <1>3, <1>4

LEMMA ExactSend == ASSUME IInv, Exact, PRO_TBUF PROVE Exact'
<1>1. mishaps' = mishaps
  BY DEF PRO_TBUF, past
<1>2. CASE NotWritten
  <2>1. CASE UNCHANGED <<tcpcli, pools>>
    BY <1>1, <2>1, ExactUnchanged
  <2>2. CASE End
    BY <1>1, <2>2, ExactEnd
  <2> QED
    BY <1>2, <2>1, <2>2 DEF NotWritten
<1>3. CASE Written \/ HalfWritten
  <2>1. UNCHANGED <<tcpcli, scanfd, rd>>
    BY <1>3 DEF Written, HalfWritten
  <2>2. CASE wr' = wr
    BY <1>1, <2>1, <2>2, ExactUnchanged DEF pools
  <2>3. CASE wr' # wr
    <3>1. /\ ~NotAlive
          /\ wr' \in {Unwatch(wr, Client, scanfd[Client]), Watch(wr, Client, scanfd[Client])}
      BY <1>3, <2>3 DEF Written, HalfWritten, FD_CLRWR, FD_SETWR
    <3> SUFFICES ASSUME mishaps = {} PROVE Exact'
      BY <1>1 DEF Exact
    <3>2. Open /\ ~isConnecting /\ UNCHANGED <<connfd, isConnecting, rd>>
      BY <2>1, <3>1 DEF NotAlive, tcpcli
    <3>3. scanfd[Client] = connfd /\ connfd \in Fds /\ wr \in WatchSets
      BY <3>2, Halves DEF IInv, Tied, SessionType, Open
    <3>4. CASE wr' = Unwatch(wr, Client, connfd)
      <4>1. Client \notin wr'.on /\ wr'.bits = wr.bits \ {connfd}
        BY <3>3, <3>4, WatchClient, WatchBits
      <4> QED
        BY <3>2, <4>1 DEF Exact
    <3>5. CASE wr' = Watch(wr, Client, connfd)
      <4>1. /\ Client \in wr'.on
            /\ wr'.bits = wr.bits \cup {connfd} \/ (Client \in wr.on /\ wr'.bits = wr.bits)
        BY <3>3, <3>5, WatchClient, WatchBits
      <4> QED
        BY <3>2, <4>1 DEF Exact
    <3> QED
      BY <3>1, <3>3, <3>4, <3>5
  <2> QED
    BY <2>2, <2>3
<1> QED
  BY <1>2, <1>3 DEF PRO_TBUF

\* What select is asked for is open, so it does not fail.
LEMMA BitsAreOpen == IInv /\ Exact /\ mishaps = {} => Bits \subseteq OpenFds
  BY DEF IInv, Tied, InPool, Exact, Bits, OpenFds, Open

LEMMA ExactInductive == IInv /\ Exact /\ [Next]_vars => Exact'
<1> SUFFICES ASSUME IInv, Exact, [Next]_vars PROVE Exact'
  OBVIOUS
<1>1. CASE Users
  <2>1. CASE DMD_START_SESSION
    BY <2>1, ExactEstablish DEF DMD_START_SESSION
  <2>2. CASE DMD_END_SESSION
    BY <2>2, ExactEnd, ExactUnchanged DEF DMD_END_SESSION
  <2>3. CASE CMD_RELEASE_SESSION
    BY <2>3, ExactAfterEnd DEF CMD_RELEASE_SESSION, CloseSocket
  <2>4. CASE CMD_TIMER_TO_RELEASE \/ SndBufReset
    BY <2>4, ExactUnchanged DEF CMD_TIMER_TO_RELEASE, SndBufReset, past
  <2> QED
    BY <1>1, <2>1, <2>2, <2>3, <2>4, ExactPause, ExactSend DEF Users
<1>2. CASE Scheduler
  <2>1. CASE TIMER
    BY <2>1, ExactEstablish, ExactEnd, ExactUnchanged DEF TIMER, past
  <2>2. CASE SelectError
    BY <2>2, BitsAreOpen DEF SelectError, Exact, past
  <2>3. CASE Select
    BY <2>3, ExactUnchanged DEF Select, past
  <2>4. CASE WalkRd
    BY <2>4, ExactEstablishDone, ExactEnd, ExactUnchanged
       DEF WalkRd, FD_PRORD, Received, past
  <2>5. CASE WalkWr
    BY <2>5, ExactEstablishDone, ExactEnd, ExactUnchanged
       DEF WalkWr, FD_PROWR, Resent, past
  <2> QED
    BY <1>2, <2>1, <2>2, <2>3, <2>4, <2>5 DEF Scheduler
<1>3. CASE Network
  BY <1>3, ExactUnchanged
     DEF Network, Accepted, Refused, ClosedByServer, Becomes, past
<1>4. CASE UNCHANGED vars
  BY <1>4, ExactUnchanged DEF vars, past
<1> QED
  BY <1>1, <1>2, <1>3, <1>4 DEF Next

\* Until a connect fails or is made on an open socket, this client is no cause
\* for select to fail with EBADF, which would empty the fd_sets of all the others
\* (Sched.cpp:547-549).
SelectSucceeds == mishaps = {} => Bits \subseteq OpenFds

THEOREM NoneSpoilsSelect == Spec => []SelectSucceeds
<1>1. IInv /\ Exact => SelectSucceeds
  BY BitsAreOpen DEF SelectSucceeds
<1> QED
  BY <1>1, ExactFromTheStart, ExactInductive, InvariantHolds, PTL DEF Spec

\* The safety half of AcceptedIsNoticed: as long as the client is connecting,
\* the walk of wr_tors calls it in the turn in which select finds its socket
\* writable, for the pool holds its criptor and the fd_set its number
\* (Tcpcliuna.cpp:686-690).
ConnectIsWatched ==
    mishaps = {} /\ Open /\ isConnecting =>
        Client \in wr.on /\ scanfd[Client] = connfd /\ connfd \in wr.bits

THEOREM ConnectStaysWatched == Spec => []ConnectIsWatched
<1>1. IInv /\ Exact => ConnectIsWatched
  BY DEF IInv, Tied, Exact, ConnectIsWatched
<1> QED
  BY <1>1, ExactFromTheStart, ExactInductive, InvariantHolds, PTL DEF Spec
=============================================================================
