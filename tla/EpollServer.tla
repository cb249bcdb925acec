---------------------------- MODULE EpollServer ----------------------------
(***************************************************************************)
(* A session of Tcpsrvuna under TPoll (use_epoll), on Linux: the kernel's  *)
(* view of its connection and of its registration with epoll, the loop's   *)
(* thread, which turns events into jobs, and the one thread of con_tasks   *)
(* that runs them (concurrent_num = 1; a job waits in that thread's list,  *)
(* see TaskThreads).  The object is lent again when a session has ended,   *)
(* while jobs of the last session may still be in the list.                *)
(*                                                                         *)
(* A connection that the peer has left is readable, so RD_EPOLL comes of   *)
(* it, and EOF_EPOLL and ERR_EPOLL never do.  A registration reports what  *)
(* holds when it is asked while it is armed: EPOLL_CTL_MOD looks anew, and *)
(* with EPOLLONESHOT an event disarms it, so that EPOLLET adds nothing.    *)
(*                                                                         *)
(* The alarm of CMD_TIMER_TO_RELEASE is a Timor of TPoll, whose handle the *)
(* object keeps.  When it goes off the loop takes it back, then has the    *)
(* object forget the handle, and lists TIMER, a job like the others.  When *)
(* it goes off is left open.                                               *)
(***************************************************************************)
EXTENDS Naturals, Sequences

CONSTANT MaxJobs   \* bound: the loop waits when so many jobs are listed

ASSUME BoundAssumption == MaxJobs \in Nat

VARIABLES
    waiting,       \* the kernel: a connection is there to be accepted
    peer,          \* of the session's connection: "none", "up", "gone"
    unread, room,  \* something has arrived; there is room to send
    reg,           \* the descriptor's registration, and its EPOLLOUT
    batch,         \* pev: the events of epoll_pwait that are still to be given
    jobs,          \* job_list
    at,            \* the thread: in which handler, at what
    back,          \* where it goes on after transmitto
    tlen,          \* RD_EPOLL: tlen > 0, or a shorter frame to hand on
    session,       \* Tcpsrv: connfd is valid
    unsent, wr_blocked, \* Tcpsrv: snd_buf is not empty; the last send stopped
    out,           \* pollor.ev.events has EPOLLOUT
    alarm,         \* the Timor of clr_timer_pius.indic: "none", "armed", or the
                   \* loop has "taken" it back and is to list TIMER
    due,           \* history: an alarm is about, set since a session last ended,
                   \* or the end came too late to take it back
    spent          \* history: the event that disarmed the registration

net == <<waiting, peer, unread, room>>
worker == <<at, back, tlen>>
tcpsrv == <<session, unsent, wr_blocked, out>>
alarms == <<alarm, due>>
vars == <<net, reg, batch, jobs, worker, tcpsrv, alarms, spent>>

Jobs == {"ACCEPT", "RD", "WR", "TIMER"}

Registrations ==
    [mode : {"none", "level", "oneshot", "disarmed"}, out : BOOLEAN]
NotRegistered == [mode |-> "none", out |-> FALSE]

TypeOK ==
    /\ waiting \in BOOLEAN /\ unread \in BOOLEAN /\ room \in BOOLEAN
    /\ tlen \in BOOLEAN /\ session \in BOOLEAN
    /\ unsent \in BOOLEAN /\ wr_blocked \in BOOLEAN /\ out \in BOOLEAN
    /\ peer \in {"none", "up", "gone"}
    /\ reg \in Registrations
    /\ batch \subseteq Jobs \ {"TIMER"}
    /\ jobs \in Seq(Jobs) /\ Len(jobs) <= MaxJobs
    /\ at \in {"idle", "accept", "recv", "set", "users", "send", "set_out", "timer", "crashed"}
    /\ alarm \in {"none", "armed", "taken"} /\ due \in BOOLEAN
    /\ back \in {"idle", "users"}
    /\ spent \in {"no", "RD", "WR"}
    /\ session <=> peer # "none"
    /\ ~session => reg = NotRegistered /\ ~unread /\ ~unsent

Init ==
    /\ waiting = FALSE /\ peer = "none" /\ unread = FALSE /\ room = TRUE
    /\ reg = NotRegistered
    /\ batch = {} /\ jobs = << >>
    /\ at = "idle" /\ back = "idle" /\ tlen = FALSE
    /\ session = FALSE /\ unsent = FALSE /\ wr_blocked = FALSE /\ out = FALSE
    /\ alarm = "none" /\ due = FALSE
    /\ spent = "no"

(***************************************************************************)
(* The network.                                                            *)
(***************************************************************************)
Connects == ~waiting /\ waiting' = TRUE /\ UNCHANGED <<peer, unread, room>>

Sends == peer = "up" /\ unread' = TRUE /\ UNCHANGED <<waiting, peer, room>>

MakesRoom == ~room /\ room' = TRUE /\ UNCHANGED <<waiting, peer, unread>>

Leaves == peer = "up" /\ peer' = "gone" /\ UNCHANGED <<waiting, unread, room>>

Network ==
    /\ at # "crashed"
    /\ Connects \/ Sends \/ MakesRoom \/ Leaves
    /\ UNCHANGED <<reg, batch, jobs, worker, tcpsrv, alarms, spent>>

(***************************************************************************)
(* The loop of TPoll.                                                      *)
(***************************************************************************)
LoopRuns == alarm # "taken" /\ at # "crashed"

Readable == session /\ (unread \/ peer = "gone")

Armed == reg.mode \in {"level", "oneshot"}

\* An event with EPOLLIN is RD_EPOLL, whatever else it has.
SessionEvents ==
    CASE Armed /\ Readable -> {"RD"}
      [] Armed /\ ~Readable /\ reg.out /\ room -> {"WR"}
      [] OTHER -> {}

\* The listener stays registered as it was at first: while a connection waits,
\* each epoll_pwait reports it.
Events == SessionEvents \cup (IF waiting THEN {"ACCEPT"} ELSE {})

Listed(e) == \E k \in DOMAIN jobs : jobs[k] = e

Epoll_pwait ==
    /\ LoopRuns /\ batch = {}
    /\ Events # {} /\ batch' = Events
    /\ IF SessionEvents # {} /\ reg.mode = "oneshot"
       THEN /\ reg' = [reg EXCEPT !.mode = "disarmed"]
            /\ spent' = CHOOSE e \in SessionEvents : TRUE
       ELSE UNCHANGED <<reg, spent>>
    /\ UNCHANGED <<net, jobs, worker, tcpsrv, alarms>>

\* FileD: schedule.
Dispatch ==
    /\ LoopRuns /\ Len(jobs) < MaxJobs
    /\ \E e \in batch : jobs' = Append(jobs, e) /\ batch' = batch \ {e}
    /\ UNCHANGED <<net, reg, worker, tcpsrv, alarms, spent>>

\* Alarm, which came with the other events or alone: its Timor is put back.
AlarmTaken ==
    /\ LoopRuns /\ alarm = "armed"
    /\ alarm' = "taken"
    /\ UNCHANGED <<net, reg, batch, jobs, worker, tcpsrv, due, spent>>

\* Then TIMER_HANDLE, called by the loop's thread, and schedule.
AlarmGiven ==
    /\ alarm = "taken" /\ at # "crashed" /\ Len(jobs) < MaxJobs
    /\ alarm' = "none"
    /\ jobs' = Append(jobs, "TIMER")
    /\ UNCHANGED <<net, reg, batch, worker, tcpsrv, due, spent>>

(***************************************************************************)
(* What the handlers are made of.                                          *)
(***************************************************************************)
\* SET_EPOLL of the child, with EPOLL_CTL_MOD: it fails when the descriptor is
\* not registered.
SetEpoll ==
    /\ reg' = IF reg.mode = "none" THEN reg ELSE [mode |-> "oneshot", out |-> out]
    /\ spent' = IF reg.mode = "none" THEN spent ELSE "no"

\* The descriptor is closed, and with it goes the registration.  child_begin
\* resets snd_buf and pollor for the next session; nothing looks at them until
\* then, and they are reset here.  wr_blocked stays as it is.
Close ==
    /\ session' = FALSE
    /\ peer' = "none" /\ unread' = FALSE /\ room' = TRUE
    /\ reg' = NotRegistered
    /\ unsent' = FALSE /\ out' = FALSE
    /\ spent' = "no"
    /\ UNCHANGED <<waiting, wr_blocked>>

\* (mutant of End) DMD_CLR_TIMER is forgotten.
EndKeepsAlarm ==
    /\ Close
    /\ UNCHANGED alarm
    /\ due' = (due /\ (alarm = "taken" \/ Listed("TIMER")))
    /\ at' = "users"

\* end, and END_SESSION to the users.  DMD_CLR_TIMER takes an armed Timor back and
\* has the handle forgotten.  One that the loop has just taken back has no pupa to
\* call, unless somebody else has got it, whose alarm is then the one cleared.
End ==
    /\ Close
    /\ alarm' = IF alarm = "armed" THEN "none" ELSE alarm
    /\ due' = (due /\ (alarm = "taken" \/ Listed("TIMER")))
    /\ \/ at' = "users"
       \/ alarm = "taken" /\ at' = "crashed"

(***************************************************************************)
(* The thread.                                                             *)
(***************************************************************************)
TakeJob ==
    /\ at = "idle" /\ jobs # << >>
    /\ jobs' = Tail(jobs)
    /\ at' = CASE Head(jobs) = "ACCEPT" -> "accept"
               [] Head(jobs) = "RD" -> "recv"
               [] Head(jobs) = "WR" -> "send"
               [] Head(jobs) = "TIMER" -> "timer"
    /\ UNCHANGED <<net, reg, batch, back, tlen, tcpsrv, alarms, spent>>

\* A job that is not for this object, or its listener; users of the session come
\* to speak in it.  Such jobs do not count among MaxJobs.
OtherJob ==
    /\ at = "idle"
    /\ at' = "users"
    /\ UNCHANGED <<net, reg, batch, jobs, back, tlen, tcpsrv, alarms, spent>>

\* ACCEPT_EPOLL: parent_accept.  Nobody is there (any more), or no object is idle
\* and the connection is closed.
NotAccepted ==
    /\ at = "accept" /\ (waiting => session)
    /\ at' = "idle"
    /\ waiting' = FALSE
    /\ UNCHANGED <<peer, unread, room, reg, batch, jobs, back, tlen, tcpsrv, alarms, spent>>

\* (mutant of ChildBegin) the first registration is EPOLLONESHOT as well, but
\* nothing has set the bits of pollor anew.
ChildBeginDisarmed ==
    /\ at = "accept" /\ waiting /\ ~session
    /\ waiting' = FALSE
    /\ session' = TRUE /\ peer' = "up"
    /\ reg' = [mode |-> "disarmed", out |-> FALSE]
    /\ at' = "users"
    /\ UNCHANGED <<unread, room, batch, jobs, back, tlen, unsent, wr_blocked, out,
                   alarms, spent>>

\* new_conn_pro, child_begin: EPOLL_CTL_ADD, level-triggered, and START_SESSION.
\* The rest is as End and Init have left it.
ChildBegin ==
    /\ at = "accept" /\ waiting /\ ~session
    /\ waiting' = FALSE
    /\ session' = TRUE /\ peer' = "up"
    /\ reg' = [mode |-> "level", out |-> FALSE]
    /\ at' = "users"
    /\ UNCHANGED <<unread, room, batch, jobs, back, tlen, unsent, wr_blocked, out,
                   alarms, spent>>

\* RD_EPOLL: recito has brought a full frame, and there may be more.
RecvFrame ==
    /\ at = "recv" /\ session /\ unread
    /\ unread' \in BOOLEAN
    /\ tlen' = TRUE
    /\ UNCHANGED <<waiting, peer, room, reg, batch, jobs, at, back, tcpsrv, alarms, spent>>

\* Less than a frame: that is all there was.
RecvShort ==
    /\ at = "recv" /\ session /\ unread
    /\ unread' = FALSE
    /\ tlen' = TRUE
    /\ at' = "set"
    /\ UNCHANGED <<waiting, peer, room, reg, batch, jobs, back, tcpsrv, alarms, spent>>

\* (mutant of RecvNothing) the registration is left as it is.
RecvNothingDeaf ==
    /\ at = "recv" /\ session /\ ~unread /\ peer = "up"
    /\ at' = IF tlen THEN "users" ELSE "idle"
    /\ UNCHANGED <<net, reg, batch, jobs, back, tlen, tcpsrv, alarms, spent>>

\* EAGAIN
RecvNothing ==
    /\ at = "recv" /\ session /\ ~unread /\ peer = "up"
    /\ at' = "set"
    /\ UNCHANGED <<net, reg, batch, jobs, back, tlen, tcpsrv, alarms, spent>>

\* (mutant of RecvEnd) nothing to read is taken for the end.
RecvEndEarly ==
    /\ at = "recv"
    /\ IF session
       THEN (peer = "gone" \/ ~unread) /\ End
       ELSE /\ at' = IF tlen THEN "users" ELSE "idle"
            /\ UNCHANGED <<net, reg, tcpsrv, alarms, spent>>
    /\ UNCHANGED <<batch, jobs, back, tlen>>

\* The peer has closed the connection, or broken it off with data unread; or the
\* job found no session.  What was read before goes to the users after
\* END_SESSION.
RecvEnd ==
    /\ at = "recv"
    /\ IF session
       THEN peer = "gone" /\ End
       ELSE /\ at' = IF tlen THEN "users" ELSE "idle"
            /\ UNCHANGED <<net, reg, tcpsrv, alarms, spent>>
    /\ UNCHANGED <<batch, jobs, back, tlen>>

\* The registration is armed anew, then the users have their PRO_TBUF.
Rearm ==
    /\ at = "set"
    /\ SetEpoll
    /\ at' = IF tlen THEN "users" ELSE "idle"
    /\ UNCHANGED <<net, batch, jobs, back, tlen, tcpsrv, alarms>>

\* transmitto and child_transmit_ep_err, result 0 or 2: nothing is registered.
SentAll ==
    /\ at = "send" /\ session
    /\ unsent => room
    /\ room' \in (IF unsent THEN BOOLEAN ELSE {room})
    /\ unsent' = FALSE /\ wr_blocked' = FALSE
    /\ out' = IF wr_blocked THEN FALSE ELSE out
    /\ at' = back
    /\ UNCHANGED <<waiting, peer, unread, reg, batch, jobs, back, tlen, session, alarms, spent>>

\* (mutant of SentPart) only what is newly blocked is registered.
SentPartOnce ==
    /\ at = "send" /\ session /\ unsent
    /\ room' = FALSE
    /\ wr_blocked' = TRUE /\ out' = TRUE
    /\ at' = IF wr_blocked THEN back ELSE "set_out"
    /\ UNCHANGED <<waiting, peer, unread, reg, batch, jobs, back, tlen, session, unsent,
                   alarms, spent>>

\* Result 1 or 3: to be registered.
SentPart ==
    /\ at = "send" /\ session /\ unsent
    /\ room' = FALSE
    /\ wr_blocked' = TRUE /\ out' = TRUE
    /\ at' = "set_out"
    /\ UNCHANGED <<waiting, peer, unread, reg, batch, jobs, back, tlen, session, unsent,
                   alarms, spent>>

SetOut ==
    /\ at = "set_out"
    /\ SetEpoll
    /\ at' = back
    /\ UNCHANGED <<net, batch, jobs, back, tlen, tcpsrv, alarms>>

\* Result -1.
SendFails ==
    /\ at = "send" /\ (session => peer = "gone")
    /\ IF session
       THEN End
       ELSE at' = back /\ UNCHANGED <<net, reg, tcpsrv, alarms, spent>>
    /\ UNCHANGED <<batch, jobs, back, tlen>>

\* end(true), of the session that the object has now
TIMER ==
    /\ at = "timer"
    /\ IF session
       THEN End
       ELSE /\ at' = "idle"
            /\ due' = (due /\ (alarm # "none" \/ Listed("TIMER")))
            /\ UNCHANGED <<net, reg, tcpsrv, alarm, spent>>
    /\ UNCHANGED <<batch, jobs, back, tlen>>

(***************************************************************************)
(* The users, whom the thread has called; they call the session.           *)
(***************************************************************************)
PRO_TBUF ==
    /\ at = "users" /\ session
    /\ unsent' = TRUE
    /\ at' = "send" /\ back' = "users"
    /\ UNCHANGED <<net, reg, batch, jobs, tlen, session, wr_blocked, out, alarms, spent>>

DMD_END_SESSION ==
    /\ at = "users" /\ session
    /\ End
    /\ UNCHANGED <<batch, jobs, back, tlen>>

\* end_release: the alarm and its handle stay.
CMD_RELEASE_SESSION ==
    /\ at = "users" /\ session
    /\ Close
    /\ UNCHANGED <<batch, jobs, worker, alarms>>

\* DMD_SET_ALARM, for a session or, when END_SESSION has been told, for none
\* (bound: one alarm is about; the code keeps no handle of the first of two).
CMD_TIMER_TO_RELEASE ==
    /\ at = "users" /\ alarm = "none" /\ ~Listed("TIMER")
    /\ alarm' = "armed" /\ due' = TRUE
    /\ UNCHANGED <<net, reg, batch, jobs, worker, tcpsrv, spent>>

CMD_CHANNEL_PAUSE ==
    /\ at = "users" /\ session
    /\ reg' = NotRegistered
    /\ UNCHANGED <<net, batch, jobs, worker, tcpsrv, alarms, spent>>

CMD_CHANNEL_RESUME ==
    /\ at = "users" /\ session
    /\ SetEpoll
    /\ UNCHANGED <<net, batch, jobs, worker, tcpsrv, alarms>>

Return ==
    /\ at = "users"
    /\ at' = "idle" /\ back' = "idle" /\ tlen' = FALSE
    /\ UNCHANGED <<net, reg, batch, jobs, tcpsrv, alarms, spent>>

\* The process is gone.
Crashed == at = "crashed" /\ UNCHANGED vars

Loop == Epoll_pwait \/ Dispatch \/ AlarmTaken \/ AlarmGiven

Handler ==
    \/ TakeJob \/ NotAccepted \/ ChildBegin
    \/ RecvFrame \/ RecvShort \/ RecvNothing \/ RecvEnd \/ Rearm
    \/ SentAll \/ SentPart \/ SetOut \/ SendFails \/ TIMER

Users ==
    \/ PRO_TBUF \/ DMD_END_SESSION \/ CMD_RELEASE_SESSION \/ CMD_TIMER_TO_RELEASE
    \/ CMD_CHANNEL_PAUSE \/ CMD_CHANNEL_RESUME \/ Return

Next == Network \/ Loop \/ Handler \/ OtherJob \/ Users \/ Crashed

\* The threads run, the users return, and at times the peer sends less than a
\* frame (recito's loop has no other bound).
Fairness ==
    /\ WF_vars(Loop)
    /\ WF_vars(Handler) /\ SF_vars(TakeJob) /\ SF_vars(RecvShort) /\ SF_vars(Return)

Spec == Init /\ [][Next]_vars /\ Fairness

(***************************************************************************)
(* Properties                                                              *)
(***************************************************************************)
OnTheWay(e) == e \in batch \/ Listed(e)

\* An RD_EPOLL that disarmed the registration comes to arm it again: it is under
\* way, or about to, whatever jobs of an earlier session or of the first, level-
\* triggered registration come in between (Tcpsrvuna.cpp:308-330,725-743).
EarsOpen ==
    session /\ reg.mode = "disarmed" /\ spent = "RD" =>
        OnTheWay("RD") \/ at \in {"recv", "set"}

\* What could not be sent waits for room, in a registration with EPOLLOUT, unless
\* the users have paused the session; an event that is RD_EPOLL as well does not
\* lose it (TPoll.cpp:1845-1851, Tcpsrvuna.cpp:827-843).
RestIsAwaited ==
    session /\ unsent /\ reg.mode # "none" =>
        \/ Armed /\ reg.out
        \/ OnTheWay("RD") \/ OnTheWay("WR")
        \/ at \in {"recv", "set", "send", "set_out"}

\* No session ends before its peer has left or its users ask: an RD or a WR that
\* was listed for the one before it, whose object it has got, does not end it.  A
\* TIMER does, whosever it is (Tcpsrvuna.cpp:431-434).  It is then one that was
\* set since the last end of a session (in this session, or in one that was
\* released), or one that had gone off before that end, which had no handle to
\* take it back with.  An alarm that is still armed does not outlive an end.
EndsForCause ==
    [][session /\ ~session' => peer = "gone" \/ at = "users" \/ (at = "timer" /\ due)]_vars

\* Nothing will arm the registration: WR_EPOLL has taken it and does not, or
\* CMD_CHANNEL_PAUSE has removed it.
Muted == reg.mode = "none" \/ (reg.mode = "disarmed" /\ spent = "WR")

\* What the peer sends, and that it leaves, is read, unless the session is muted.
HeardUnlessMuted == Readable ~> at = "recv" \/ ~session \/ Muted

\* "cleared when POLLIN is set the next time" (Tcpsrvuna.cpp:815) takes for
\* granted that it is set again: a session that is not paused is heard.
Heard == Readable /\ reg.mode # "none" ~> at = "recv" \/ ~session \/ reg.mode = "none"

\* "resume a channel" (Notitia.h:108): after a pause the resume does something.
ResumeArms ==
    at = "users" /\ session /\ reg.mode = "none" => ENABLED <<CMD_CHANNEL_RESUME>>_vars
=============================================================================
