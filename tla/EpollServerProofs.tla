------------------------- MODULE EpollServerProofs -------------------------
(***************************************************************************)
(* For a list of jobs of any length: a session under TPoll that RD_EPOLL   *)
(* has disarmed is armed again, what it could not send waits for room, and *)
(* it ends only for a cause of its own.                                    *)
(***************************************************************************)
EXTENDS EpollServer, SequenceTheorems, TLAPS

\* Only one event disarms; the thread sends only for WR_EPOLL and the users.
Shape ==
    /\ reg.mode = "disarmed" => spent # "no"
    /\ at = "set_out" => unsent /\ out

Typed == TypeOK /\ Shape

\* An RD_EPOLL is coming or at work.
Reads == OnTheWay("RD") \/ at \in {"recv", "set"}

\* What waits for room has EPOLLOUT in pollor once transmitto is left, and the
\* event that took the registration is on its way to arm it again.
RestKept ==
    session /\ unsent /\ at \notin {"send", "set_out"} =>
        /\ out
        /\ reg.mode = "none" \/ (Armed /\ reg.out) \/ Reads \/ OnTheWay("WR")

\* An alarm that is about was set since a session last ended, or that end came too
\* late to take it back.
AlarmsAreDue == alarm # "none" \/ Listed("TIMER") \/ at = "timer" => due

IInv == Typed /\ EarsOpen /\ RestKept /\ AlarmsAreDue

LEMMA IInvImplies == IInv => TypeOK /\ EarsOpen /\ RestIsAwaited
BY DEF IInv, Typed, RestKept, RestIsAwaited, Reads

LEMMA AppendKeeps ==
  ASSUME NEW s \in Seq(Jobs), NEW e \in Jobs
  PROVE  /\ Append(s, e) \in Seq(Jobs) /\ Len(Append(s, e)) = Len(s) + 1
         /\ \E k \in DOMAIN Append(s, e) : Append(s, e)[k] = e
         /\ \A f : (\E k \in DOMAIN s : s[k] = f)
                      => \E k \in DOMAIN Append(s, e) : Append(s, e)[k] = f
<1>1. /\ Append(s, e) \in Seq(Jobs) /\ Len(Append(s, e)) = Len(s) + 1
      /\ DOMAIN Append(s, e) = 1 .. Len(s) + 1 /\ DOMAIN s = 1 .. Len(s)
      /\ Append(s, e)[Len(s) + 1] = e /\ Len(s) \in Nat
      /\ \A k \in 1 .. Len(s) : Append(s, e)[k] = s[k]
  OBVIOUS
<1>2. Len(s) + 1 \in DOMAIN Append(s, e) /\ \A k \in DOMAIN s : k \in DOMAIN Append(s, e)
  BY <1>1
<1> QED
  BY <1>1, <1>2

LEMMA TailKeeps ==
  ASSUME NEW s \in Seq(Jobs), s # << >>
  PROVE  /\ Tail(s) \in Seq(Jobs) /\ Len(Tail(s)) = Len(s) - 1 /\ Len(s) \in Nat
         /\ Head(s) \in Jobs
         /\ \A f : (\E k \in DOMAIN s : s[k] = f)
                      => Head(s) = f \/ \E k \in DOMAIN Tail(s) : Tail(s)[k] = f
<1>1. /\ Tail(s) \in Seq(Jobs) /\ Len(Tail(s)) = Len(s) - 1 /\ Head(s) \in Jobs
      /\ Len(s) \in Nat /\ Len(s) > 0
      /\ \A k \in 1 .. Len(Tail(s)) : Tail(s)[k] = s[k + 1]
  BY HeadTailProperties
<1>2. DOMAIN Tail(s) = 1 .. Len(s) - 1 /\ DOMAIN s = 1 .. Len(s) /\ Head(s) = s[1]
  BY <1>1
<1>3. ASSUME NEW k \in 1 .. Len(s), s[k] # Head(s)
      PROVE  \E l \in DOMAIN Tail(s) : Tail(s)[l] = s[k]
  <2>1. k - 1 \in 1 .. Len(s) - 1 /\ (k - 1) + 1 = k
    BY <1>1, <1>2, <1>3
  <2>2. Tail(s)[k - 1] = s[k]
    BY <1>1, <2>1
  <2> QED
    BY <1>2, <2>1, <2>2
<1> QED
  BY <1>1, <1>2, <1>3

LEMMA InitIInv == Init => IInv
<1> SUFFICES ASSUME Init PROVE IInv
  OBVIOUS
<1>1. jobs \in Seq(Jobs) /\ Len(jobs) <= MaxJobs
  BY BoundAssumption DEF Init
<1>2. TypeOK
  BY <1>1 DEF Init, TypeOK, NotRegistered, Registrations
<1>3. Shape
  BY DEF Init, Shape, NotRegistered
<1> QED
  BY <1>2, <1>3 DEF Init, IInv, Typed, EarsOpen, RestKept, AlarmsAreDue, Listed

LEMMA SetEpollArms ==
  ASSUME Typed, SetEpoll
  PROVE  /\ reg' \in Registrations /\ spent' \in {"no", "RD", "WR"}
         /\ reg.mode = "none" => reg' = reg
         /\ reg.mode # "none" => reg'.mode = "oneshot" /\ reg'.out = out
         /\ reg'.mode # "disarmed"
<1>1. [mode |-> "oneshot", out |-> out] \in Registrations
  BY DEF Typed, TypeOK, Registrations
<1>2. reg \in Registrations /\ spent \in {"no", "RD", "WR"}
  BY DEF Typed, TypeOK
<1>3. CASE reg.mode = "none"
  BY <1>2, <1>3 DEF SetEpoll
<1>4. CASE reg.mode # "none"
  <2>1. reg' = [mode |-> "oneshot", out |-> out] /\ spent' = "no"
    BY <1>4 DEF SetEpoll
  <2>2. reg'.mode = "oneshot" /\ reg'.out = out
    BY <2>1
  <2> QED
    BY <1>1, <1>4, <2>1, <2>2
<1> QED
  BY <1>3, <1>4

\* What End does to the types of what it touches.
LEMMA Ended ==
  ASSUME Typed, End, jobs' \in Seq(Jobs) /\ Len(jobs') <= MaxJobs,
         UNCHANGED <<batch, back, tlen>>
  PROVE  Typed'
<1>1. NotRegistered \in Registrations /\ NotRegistered.mode = "none"
  BY DEF NotRegistered, Registrations
<1>2. /\ at' \in {"users", "crashed"} /\ alarm' \in {"none", "armed", "taken"}
      /\ due' \in BOOLEAN
  BY DEF End, Typed, TypeOK
<1>3. /\ waiting' = waiting /\ peer' = "none" /\ unread' = FALSE /\ room' = TRUE
      /\ session' = FALSE /\ unsent' = FALSE /\ out' = FALSE /\ wr_blocked' = wr_blocked
      /\ reg' = NotRegistered /\ spent' = "no"
  BY DEF End, Close
<1> QED
  BY <1>1, <1>2, <1>3 DEF Typed, TypeOK, Shape

LEMMA StepTyped == Typed /\ [Next]_vars => Typed'
<1> SUFFICES ASSUME Typed, [Next]_vars PROVE Typed'
  OBVIOUS
<1>r. NotRegistered \in Registrations /\ NotRegistered.mode = "none"
  BY DEF NotRegistered, Registrations
<1>j. jobs \in Seq(Jobs) /\ Len(jobs) <= MaxJobs
  BY DEF Typed, TypeOK
<1> USE DEF Typed, TypeOK, Shape
<1>1. CASE Network
  <2>1. jobs' = jobs
    BY <1>1 DEF Network, Connects, Sends, MakesRoom, Leaves, worker, tcpsrv, alarms
  <2>2. jobs' \in Seq(Jobs) /\ Len(jobs') <= MaxJobs
    BY <2>1, <1>j
  <2> HIDE <1>j
  <2>3. /\ waiting' \in BOOLEAN /\ unread' \in BOOLEAN /\ room' \in BOOLEAN
        /\ peer' \in {"none", "up", "gone"} /\ (peer' # "none" <=> peer # "none")
        /\ unread' = unread \/ peer = "up"
    BY <1>1 DEF Network, Connects, Sends, MakesRoom, Leaves
  <2>4. UNCHANGED <<reg, batch, worker, tcpsrv, alarms, spent>>
    BY <1>1 DEF Network
  <2> QED
    BY <2>2, <2>3, <2>4 DEF worker, tcpsrv, alarms
<1>2. CASE NotAccepted
  <2>1. jobs' = jobs
    BY <1>2 DEF NotAccepted, tcpsrv, alarms
  <2>2. jobs' \in Seq(Jobs) /\ Len(jobs') <= MaxJobs
    BY <2>1, <1>j
  <2> HIDE <1>j
  <2>3. /\ at' = "idle" /\ waiting' \in BOOLEAN
        /\ peer' = peer /\ unread' = unread /\ room' = room /\ reg' = reg
        /\ batch' = batch /\ back' = back /\ tlen' = tlen
        /\ session' = session /\ unsent' = unsent /\ wr_blocked' = wr_blocked
        /\ out' = out /\ alarm' = alarm /\ due' = due /\ spent' = spent
    BY <1>2 DEF NotAccepted, tcpsrv, alarms
  <2> QED
    BY <2>2, <2>3
<1>3. CASE ChildBegin
  <2>1. jobs' = jobs
    BY <1>3 DEF ChildBegin, alarms
  <2>2. jobs' \in Seq(Jobs) /\ Len(jobs') <= MaxJobs
    BY <2>1, <1>j
  <2> HIDE <1>j
  <2>3. reg' \in Registrations /\ reg'.mode # "disarmed"
    BY <1>3 DEF ChildBegin, Registrations
  <2> QED
    BY <1>3, <2>2, <2>3 DEF ChildBegin, alarms
<1>4. CASE RecvFrame
  <2>1. jobs' = jobs
    BY <1>4 DEF RecvFrame, tcpsrv, alarms
  <2>2. jobs' \in Seq(Jobs) /\ Len(jobs') <= MaxJobs
    BY <2>1, <1>j
  <2> HIDE <1>j
  <2> QED
    BY <1>4, <2>2 DEF RecvFrame, tcpsrv, alarms
<1>5. CASE RecvShort
  <2>1. jobs' = jobs
    BY <1>5 DEF RecvShort, tcpsrv, alarms
  <2>2. jobs' \in Seq(Jobs) /\ Len(jobs') <= MaxJobs
    BY <2>1, <1>j
  <2> HIDE <1>j
  <2>3. /\ at' = "set" /\ unread' \in BOOLEAN /\ ~unread' /\ tlen' \in BOOLEAN
        /\ session' = session
        /\ UNCHANGED <<waiting, peer, room, reg, batch, back, unsent, wr_blocked, out>>
        /\ UNCHANGED <<alarm, due, spent>>
    BY <1>5 DEF RecvShort, tcpsrv, alarms
  <2>4. TypeOK'
    BY <2>2, <2>3
  <2>5. Shape'
    BY <2>3
  <2> QED
    BY <2>4, <2>5
<1>6. CASE RecvNothing
  <2>1. jobs' = jobs
    BY <1>6 DEF RecvNothing, net, tcpsrv, alarms
  <2>2. jobs' \in Seq(Jobs) /\ Len(jobs') <= MaxJobs
    BY <2>1, <1>j
  <2> HIDE <1>j
  <2> QED
    BY <1>6, <2>2 DEF RecvNothing, net, tcpsrv, alarms
<1>7. CASE RecvEnd
  <2>1. jobs' = jobs
    BY <1>7 DEF RecvEnd, End, Close, net, tcpsrv, alarms
  <2>2. jobs' \in Seq(Jobs) /\ Len(jobs') <= MaxJobs
    BY <2>1, <1>j
  <2> HIDE <1>j
  <2>3. CASE session
    BY <1>7, <2>2, <2>3, Ended DEF RecvEnd
  <2>4. CASE ~session
    <3>1. /\ at' \in {"users", "idle"} /\ session' = session
          /\ UNCHANGED <<net, reg, batch, back, tlen, unsent, wr_blocked, out, alarm, due, spent>>
      BY <1>7, <2>4 DEF RecvEnd, tcpsrv, alarms
    <3> QED
      BY <2>2, <3>1 DEF net
  <2> QED
    BY <2>3, <2>4
<1>8. CASE Rearm
  <2>1. jobs' = jobs
    BY <1>8 DEF Rearm, SetEpoll, net, tcpsrv, alarms
  <2>2. jobs' \in Seq(Jobs) /\ Len(jobs') <= MaxJobs
    BY <2>1, <1>j
  <2>3. /\ reg' \in Registrations /\ spent' \in {"no", "RD", "WR"}
        /\ reg'.mode = "disarmed" => spent' # "no"
        /\ ~session => reg' = NotRegistered
    BY <1>8, <1>r, SetEpollArms DEF Rearm, alarms
  <2>4. at' \in {"users", "idle"} /\ UNCHANGED <<net, batch, back, tlen, tcpsrv, alarms>>
    BY <1>8 DEF Rearm, alarms
  <2> HIDE <1>j
  <2> QED
    BY <2>2, <2>3, <2>4 DEF net, tcpsrv, alarms
<1>9. CASE SentAll
  <2>1. jobs' = jobs
    BY <1>9 DEF SentAll, alarms
  <2>2. jobs' \in Seq(Jobs) /\ Len(jobs') <= MaxJobs
    BY <2>1, <1>j
  <2> HIDE <1>j
  <2>3. /\ at' = back /\ session' = session /\ room' \in BOOLEAN /\ out' \in BOOLEAN
        /\ unsent' = FALSE /\ wr_blocked' = FALSE
        /\ UNCHANGED <<waiting, peer, unread, reg, batch, back, tlen, alarm, due, spent>>
    BY <1>9 DEF SentAll, alarms
  <2> QED
    BY <2>2, <2>3
<1>10. CASE SentPart
  <2>1. jobs' = jobs
    BY <1>10 DEF SentPart, alarms
  <2>2. jobs' \in Seq(Jobs) /\ Len(jobs') <= MaxJobs
    BY <2>1, <1>j
  <2> HIDE <1>j
  <2> QED
    BY <1>10, <2>2 DEF SentPart, alarms
<1>11. CASE SetOut
  <2>1. jobs' = jobs
    BY <1>11 DEF SetOut, SetEpoll, net, tcpsrv, alarms
  <2>2. jobs' \in Seq(Jobs) /\ Len(jobs') <= MaxJobs
    BY <2>1, <1>j
  <2>3. /\ reg' \in Registrations /\ spent' \in {"no", "RD", "WR"}
        /\ reg'.mode # "disarmed"
    BY <1>11, SetEpollArms DEF SetOut, alarms
  <2> HIDE <1>j
  <2> QED
    BY <1>11, <2>2, <2>3 DEF SetOut, net, tcpsrv, alarms
<1>12. CASE SendFails
  <2>1. jobs' = jobs
    BY <1>12 DEF SendFails, End, Close, net, tcpsrv, alarms
  <2>2. jobs' \in Seq(Jobs) /\ Len(jobs') <= MaxJobs
    BY <2>1, <1>j
  <2> HIDE <1>j
  <2>3. CASE session
    BY <1>12, <2>2, <2>3, Ended DEF SendFails
  <2>4. CASE ~session
    <3>1. /\ at' = back /\ session' = session
          /\ UNCHANGED <<net, reg, batch, back, tlen, unsent, wr_blocked, out, alarm, due, spent>>
      BY <1>12, <2>4 DEF SendFails, tcpsrv, alarms
    <3> QED
      BY <2>2, <3>1 DEF net
  <2> QED
    BY <2>3, <2>4
<1>13. CASE PRO_TBUF
  <2>1. jobs' = jobs
    BY <1>13 DEF PRO_TBUF, net, alarms
  <2>2. jobs' \in Seq(Jobs) /\ Len(jobs') <= MaxJobs
    BY <2>1, <1>j
  <2> HIDE <1>j
  <2> QED
    BY <1>13, <2>2 DEF PRO_TBUF, net, alarms
<1>14. CASE DMD_END_SESSION
  <2>1. jobs' = jobs
    BY <1>14 DEF DMD_END_SESSION
  <2>2. jobs' \in Seq(Jobs) /\ Len(jobs') <= MaxJobs
    BY <2>1, <1>j
  <2> HIDE <1>j
  <2> QED
    BY <1>14, <2>2, Ended DEF DMD_END_SESSION
<1>22. CASE CMD_RELEASE_SESSION
  <2>1. jobs' = jobs
    BY <1>22 DEF CMD_RELEASE_SESSION
  <2>2. jobs' \in Seq(Jobs) /\ Len(jobs') <= MaxJobs
    BY <2>1, <1>j
  <2> HIDE <1>j
  <2> QED
    BY <1>22, <2>2, <1>r DEF CMD_RELEASE_SESSION, Close, worker, alarms
<1>23. CASE CMD_TIMER_TO_RELEASE
  <2>1. jobs' = jobs
    BY <1>23 DEF CMD_TIMER_TO_RELEASE
  <2>2. jobs' \in Seq(Jobs) /\ Len(jobs') <= MaxJobs
    BY <2>1, <1>j
  <2> HIDE <1>j
  <2> QED
    BY <1>23, <2>2 DEF CMD_TIMER_TO_RELEASE, net, worker, tcpsrv
<1>24. CASE TIMER
  <2>1. jobs' = jobs
    BY <1>24 DEF TIMER
  <2>2. jobs' \in Seq(Jobs) /\ Len(jobs') <= MaxJobs
    BY <2>1, <1>j
  <2> HIDE <1>j
  <2>3. CASE session
    BY <1>24, <2>2, <2>3, Ended DEF TIMER
  <2>4. CASE ~session
    <3>1. /\ at' = "idle" /\ session' = session /\ due' \in BOOLEAN
          /\ UNCHANGED <<net, reg, batch, back, tlen, unsent, wr_blocked, out, alarm, spent>>
      BY <1>24, <2>4 DEF TIMER, tcpsrv
    <3> QED
      BY <2>2, <3>1 DEF net
  <2> QED
    BY <2>3, <2>4
<1>25. CASE OtherJob
  <2>1. jobs' = jobs
    BY <1>25 DEF OtherJob
  <2>2. jobs' \in Seq(Jobs) /\ Len(jobs') <= MaxJobs
    BY <2>1, <1>j
  <2> HIDE <1>j
  <2> QED
    BY <1>25, <2>2 DEF OtherJob, net, tcpsrv, alarms
<1>26. CASE AlarmTaken
  <2>1. jobs' = jobs
    BY <1>26 DEF AlarmTaken
  <2>2. jobs' \in Seq(Jobs) /\ Len(jobs') <= MaxJobs
    BY <2>1, <1>j
  <2> HIDE <1>j
  <2> QED
    BY <1>26, <2>2 DEF AlarmTaken, net, worker, tcpsrv
<1>27. CASE AlarmGiven
  <2>1. jobs' = Append(jobs, "TIMER") /\ Len(jobs) < MaxJobs /\ Len(jobs) \in Nat
    BY <1>27, <1>j DEF AlarmGiven
  <2>2. "TIMER" \in Jobs
    BY DEF Jobs
  <2>3. jobs' \in Seq(Jobs) /\ Len(jobs') = Len(jobs) + 1
    BY <1>j, <2>1, <2>2, AppendKeeps
  <2>4. Len(jobs') <= MaxJobs
    BY <2>1, <2>3, BoundAssumption
  <2> QED
    BY <1>27, <2>3, <2>4 DEF AlarmGiven, net, worker, tcpsrv
<1>15. CASE CMD_CHANNEL_PAUSE
  <2>1. jobs' = jobs
    BY <1>15 DEF CMD_CHANNEL_PAUSE, net, worker, tcpsrv, alarms
  <2>2. jobs' \in Seq(Jobs) /\ Len(jobs') <= MaxJobs
    BY <2>1, <1>j
  <2> HIDE <1>j
  <2> QED
    BY <1>15, <2>2, <1>r DEF CMD_CHANNEL_PAUSE, net, worker, tcpsrv, alarms
<1>16. CASE CMD_CHANNEL_RESUME
  <2>1. jobs' = jobs
    BY <1>16 DEF CMD_CHANNEL_RESUME, SetEpoll, net, worker, tcpsrv, alarms
  <2>2. jobs' \in Seq(Jobs) /\ Len(jobs') <= MaxJobs
    BY <2>1, <1>j
  <2>3. /\ reg' \in Registrations /\ spent' \in {"no", "RD", "WR"}
        /\ reg'.mode # "disarmed"
    BY <1>16, SetEpollArms DEF CMD_CHANNEL_RESUME, alarms
  <2> HIDE <1>j
  <2> QED
    BY <1>16, <2>2, <2>3 DEF CMD_CHANNEL_RESUME, net, worker, tcpsrv, alarms
<1>17. CASE Return
  <2>1. jobs' = jobs
    BY <1>17 DEF Return, net, tcpsrv, alarms
  <2>2. jobs' \in Seq(Jobs) /\ Len(jobs') <= MaxJobs
    BY <2>1, <1>j
  <2> HIDE <1>j
  <2>3. /\ at' = "idle" /\ back' = "idle" /\ tlen' \in BOOLEAN /\ session' = session
        /\ UNCHANGED <<net, reg, batch, unsent, wr_blocked, out, alarm, due, spent>>
    BY <1>17 DEF Return, tcpsrv, alarms
  <2>4. TypeOK'
    BY <2>2, <2>3 DEF net
  <2>5. Shape'
    BY <2>3
  <2> QED
    BY <2>4, <2>5
<1>18. CASE UNCHANGED vars
  <2>1. jobs' = jobs
    BY <1>18 DEF vars, net, worker, tcpsrv, alarms
  <2>2. jobs' \in Seq(Jobs) /\ Len(jobs') <= MaxJobs
    BY <2>1, <1>j
  <2> HIDE <1>j
  <2> QED
    BY <1>18, <2>2 DEF vars, net, worker, tcpsrv, alarms
<1>19. CASE Epoll_pwait
  <2>1. /\ UNCHANGED <<net, jobs, worker, tcpsrv, alarms>>
        /\ batch' \subseteq {"ACCEPT", "RD", "WR"}
        /\ \/ reg' = [reg EXCEPT !.mode = "disarmed"] /\ spent' \in {"RD", "WR"}
           \/ UNCHANGED <<reg, spent>>
    BY <1>19 DEF Epoll_pwait, Events, SessionEvents, Jobs, Readable
  <2>2. /\ reg' \in Registrations /\ spent' \in {"no", "RD", "WR"}
        /\ reg'.mode = "disarmed" => spent' # "no"
        /\ ~session => reg' = reg
    BY <2>1, <1>19 DEF Registrations, Epoll_pwait, SessionEvents, Armed, NotRegistered
  <2> QED
    BY <2>1, <2>2, <1>j DEF net, worker, tcpsrv, alarms, Jobs
<1>20. CASE Dispatch
  <2>1. PICK e \in batch : jobs' = Append(jobs, e) /\ batch' = batch \ {e}
    BY <1>20 DEF Dispatch
  <2>2. e \in Jobs /\ Len(jobs) < MaxJobs /\ Len(jobs) \in Nat
    BY <1>20, <1>j DEF Dispatch
  <2>3. jobs' \in Seq(Jobs) /\ Len(jobs') = Len(jobs) + 1
    BY <1>j, <2>1, <2>2, AppendKeeps
  <2>4. Len(jobs') <= MaxJobs
    BY <2>2, <2>3, BoundAssumption
  <2>5. batch' \subseteq Jobs \ {"TIMER"}
    BY <2>1
  <2> QED
    BY <1>20, <2>3, <2>4, <2>5 DEF Dispatch, net, worker, tcpsrv, alarms
<1>21. CASE TakeJob
  <2>1. jobs # << >> /\ jobs' = Tail(jobs)
    BY <1>21 DEF TakeJob
  <2>2. /\ jobs' \in Seq(Jobs) /\ Len(jobs') = Len(jobs) - 1 /\ Len(jobs) \in Nat
        /\ Head(jobs) \in Jobs
    BY <1>j, <2>1, TailKeeps
  <2>3. Len(jobs') <= MaxJobs
    BY <1>j, <2>2, BoundAssumption
  <2>4. at' \in {"accept", "recv", "send", "timer"}
    BY <1>21, <2>2 DEF TakeJob, Jobs
  <2>5. UNCHANGED <<net, reg, batch, back, tlen, tcpsrv, alarms, spent>>
    BY <1>21 DEF TakeJob
  <2> QED
    BY <2>2, <2>3, <2>4, <2>5 DEF net, tcpsrv, alarms
<1> QED
  BY <1>1, <1>2, <1>3, <1>4, <1>5, <1>6, <1>7, <1>8, <1>9, <1>10, <1>11, <1>12, <1>13, <1>14, <1>15, <1>16, <1>17, <1>18, <1>19, <1>20, <1>21, <1>22, <1>23, <1>24, <1>25, <1>26, <1>27
  DEF Next, Loop, Handler, Users, Crashed

LEMMA StepKeeps == IInv /\ [Next]_vars => EarsOpen' /\ RestKept'
<1> SUFFICES ASSUME IInv, [Next]_vars PROVE EarsOpen' /\ RestKept'
  OBVIOUS
<1>i. Typed /\ EarsOpen /\ RestKept
  BY DEF IInv
<1>t. /\ reg.mode = "disarmed" => spent # "no"
      /\ at = "set_out" => unsent /\ out
      /\ spent \in {"no", "RD", "WR"} /\ reg \in Registrations
      /\ ~session => reg.mode = "none" /\ ~unsent
  BY <1>i DEF Typed, TypeOK, Shape, NotRegistered
<1>a. reg.mode \in {"none", "level", "oneshot", "disarmed"}
  BY <1>t DEF Registrations
<1>w. UNCHANGED <<batch, jobs>> =>
         (OnTheWay("RD")' <=> OnTheWay("RD")) /\ (OnTheWay("WR")' <=> OnTheWay("WR"))
  BY DEF OnTheWay, Listed
<1> USE DEF EarsOpen, RestKept, Reads, Armed
<1>1. ASSUME UNCHANGED <<reg, spent, batch, jobs, session, unsent, out, at>>
      PROVE  EarsOpen' /\ RestKept'
  BY <1>1, <1>i, <1>w
<1>2. CASE Network
  BY <1>1, <1>2 DEF Network, worker, tcpsrv, alarms
<1>3. CASE NotAccepted
  BY <1>3, <1>i, <1>t, <1>w DEF NotAccepted, tcpsrv, alarms
<1>4. CASE RecvFrame
  BY <1>4, <1>i, <1>t, <1>w DEF RecvFrame, tcpsrv, alarms
<1>5. CASE RecvShort
  BY <1>5, <1>i, <1>t, <1>w DEF RecvShort, tcpsrv, alarms
<1>6. CASE RecvNothing
  BY <1>6, <1>i, <1>t, <1>w DEF RecvNothing, net, tcpsrv, alarms
<1>7. CASE SentAll
  BY <1>7, <1>i, <1>t, <1>w DEF SentAll, alarms
<1>8. CASE SentPart
  BY <1>8, <1>i, <1>t, <1>w DEF SentPart, alarms
<1>9. CASE PRO_TBUF
  BY <1>9, <1>i, <1>t, <1>w DEF PRO_TBUF, net, alarms
<1>10. CASE Return
  BY <1>10, <1>i, <1>t, <1>w DEF Return, net, tcpsrv, alarms
<1>11. CASE UNCHANGED vars
  BY <1>11, <1>i, <1>t, <1>w DEF vars, net, worker, tcpsrv, alarms
<1>12. CASE Rearm
  <2>1. /\ reg.mode = "none" => reg' = reg
        /\ reg.mode # "none" => reg'.mode = "oneshot" /\ reg'.out = out
    BY <1>12, <1>i, SetEpollArms DEF Rearm, alarms
  <2> QED
    BY <1>12, <2>1, <1>i, <1>t, <1>w DEF Rearm, tcpsrv, alarms
<1>13. CASE SetOut
  <2>1. /\ reg.mode = "none" => reg' = reg
        /\ reg.mode # "none" => reg'.mode = "oneshot" /\ reg'.out = out
    BY <1>13, <1>i, SetEpollArms DEF SetOut, alarms
  <2> QED
    BY <1>13, <2>1, <1>i, <1>t, <1>w DEF SetOut, tcpsrv, alarms
<1>14. CASE CMD_CHANNEL_RESUME
  <2>1. /\ reg.mode = "none" => reg' = reg
        /\ reg.mode # "none" => reg'.mode = "oneshot" /\ reg'.out = out
    BY <1>14, <1>i, SetEpollArms DEF CMD_CHANNEL_RESUME, alarms
  <2> QED
    BY <1>14, <2>1, <1>i, <1>t, <1>w DEF CMD_CHANNEL_RESUME, worker, tcpsrv, alarms
<1>15. CASE RecvEnd
  <2>1. CASE session
    BY <1>15, <2>1 DEF RecvEnd, End, Close
  <2>2. CASE ~session
    BY <1>15, <2>2, <1>i, <1>t DEF RecvEnd, End, Close, tcpsrv, alarms
  <2> QED
    BY <2>1, <2>2
<1>16. CASE SendFails
  <2>1. CASE session
    BY <1>16, <2>1 DEF SendFails, End, Close
  <2>2. CASE ~session
    BY <1>16, <2>2, <1>i, <1>t DEF SendFails, End, Close, tcpsrv, alarms
  <2> QED
    BY <2>1, <2>2
<1>17. CASE DMD_END_SESSION
  BY <1>17 DEF DMD_END_SESSION, End, Close
<1>23. CASE CMD_RELEASE_SESSION
  BY <1>23 DEF CMD_RELEASE_SESSION, Close
<1>24. CASE CMD_TIMER_TO_RELEASE
  BY <1>1, <1>24 DEF CMD_TIMER_TO_RELEASE, worker, tcpsrv
<1>25. CASE TIMER
  <2>1. CASE session
    BY <1>25, <2>1 DEF TIMER, End, Close
  <2>2. CASE ~session
    BY <1>25, <2>2, <1>i, <1>t DEF TIMER, tcpsrv
  <2> QED
    BY <2>1, <2>2
<1>26. CASE OtherJob
  BY <1>26, <1>i, <1>t, <1>w DEF OtherJob, tcpsrv
<1>27. CASE AlarmTaken
  BY <1>1, <1>27 DEF AlarmTaken, worker, tcpsrv
<1>28. CASE AlarmGiven
  <2>1. jobs' = Append(jobs, "TIMER") /\ batch' = batch /\ jobs \in Seq(Jobs)
    BY <1>28, <1>i DEF AlarmGiven, Typed, TypeOK
  <2>2. "TIMER" \in Jobs
    BY DEF Jobs
  <2>3. \A f : OnTheWay(f) => OnTheWay(f)'
    BY <2>1, <2>2, AppendKeeps DEF OnTheWay, Listed
  <2>4. UNCHANGED <<reg, spent, at, session, unsent, out>>
    BY <1>28 DEF AlarmGiven, worker, tcpsrv
  <2> QED
    BY <2>3, <2>4, <1>i
<1>18. CASE CMD_CHANNEL_PAUSE
  BY <1>18, <1>i, <1>t, <1>w DEF CMD_CHANNEL_PAUSE, worker, tcpsrv, NotRegistered, alarms
<1>19. CASE ChildBegin
  <2>1. /\ reg'.mode = "level" /\ ~unsent'
    BY <1>19, <1>t DEF ChildBegin
  <2> QED
    BY <2>1
<1>20. CASE Epoll_pwait
  <2>1. /\ UNCHANGED <<jobs, at, session, unsent, out>>
        /\ \/ reg.mode = "oneshot" /\ reg'.mode = "disarmed" /\ spent' \in {"RD", "WR"} \cap batch'
           \/ UNCHANGED <<reg, spent>>
        /\ batch = {}
    <3>1. \/ /\ reg.mode = "oneshot" /\ reg' = [reg EXCEPT !.mode = "disarmed"]
             /\ spent' \in {"RD", "WR"} \cap batch'
          \/ UNCHANGED <<reg, spent>>
      BY <1>20 DEF Epoll_pwait, Events, SessionEvents, Readable
    <3>2. reg' = [reg EXCEPT !.mode = "disarmed"] => reg'.mode = "disarmed"
      BY <1>t DEF Registrations
    <3> QED
      BY <3>1, <3>2, <1>20 DEF Epoll_pwait, worker, tcpsrv
  <2>2. \A e : OnTheWay(e) => OnTheWay(e)'
    BY <2>1 DEF OnTheWay, Listed
  <2>3. \A e \in batch' : OnTheWay(e)'
    BY DEF OnTheWay
  <2>4. CASE UNCHANGED <<reg, spent>>
    BY <2>1, <2>2, <2>4, <1>i
  <2>5. CASE reg'.mode = "disarmed" /\ spent' \in {"RD", "WR"} \cap batch'
    <3>1. OnTheWay("RD")' \/ (spent' = "WR" /\ OnTheWay("WR")')
      BY <2>3, <2>5
    <3> QED
      BY <3>1, <2>1, <2>5, <1>i
  <2> QED
    BY <2>1, <2>4, <2>5
<1>21. CASE Dispatch
  <2>1. PICK e \in batch : jobs' = Append(jobs, e) /\ batch' = batch \ {e}
    BY <1>21 DEF Dispatch
  <2>2. e \in Jobs /\ jobs \in Seq(Jobs)
    BY <1>i DEF Typed, TypeOK
  <2>3. \A f : OnTheWay(f) => OnTheWay(f)'
    BY <2>1, <2>2, AppendKeeps DEF OnTheWay, Listed
  <2>4. UNCHANGED <<reg, spent, at, session, unsent, out>>
    BY <1>21 DEF Dispatch, worker, tcpsrv, alarms
  <2> QED
    BY <2>3, <2>4, <1>i
<1>22. CASE TakeJob
  <2>1. jobs \in Seq(Jobs) /\ jobs # << >> /\ jobs' = Tail(jobs) /\ at = "idle"
    BY <1>i, <1>22 DEF TakeJob, Typed, TypeOK
  <2>2. Head(jobs) = "RD" => at' = "recv"
    BY <1>22 DEF TakeJob
  <2>3. Head(jobs) = "WR" => at' = "send"
    BY <1>22 DEF TakeJob
  <2>4. \A f : OnTheWay(f) => Head(jobs) = f \/ OnTheWay(f)'
    <3>1. batch' = batch
      BY <1>22 DEF TakeJob
    <3>2. \A f : Listed(f) => Head(jobs) = f \/ Listed(f)'
      BY <2>1, TailKeeps DEF Listed
    <3> QED
      BY <3>1, <3>2 DEF OnTheWay
  <2>5. UNCHANGED <<reg, spent, session, unsent, out>>
    BY <1>22 DEF TakeJob, tcpsrv, alarms
  <2> QED
    BY <2>1, <2>2, <2>3, <2>4, <2>5, <1>i
<1> QED
  BY <1>2, <1>3, <1>4, <1>5, <1>6, <1>7, <1>8, <1>9, <1>10, <1>11, <1>12, <1>13, <1>14, <1>15, <1>16, <1>17, <1>18, <1>19, <1>20, <1>21, <1>22, <1>23, <1>24, <1>25, <1>26, <1>27, <1>28
  DEF Next, Loop, Handler, Users, Crashed

\* Only CMD_TIMER_TO_RELEASE sets an alarm, and End and TIMER, which may find that
\* none is due, leave none about then.
LEMMA StepIsDue == IInv /\ [Next]_vars => AlarmsAreDue'
<1> SUFFICES ASSUME IInv, [Next]_vars PROVE AlarmsAreDue'
  OBVIOUS
<1>i. AlarmsAreDue /\ due \in BOOLEAN /\ alarm \in {"none", "armed", "taken"}
      /\ jobs \in Seq(Jobs)
  BY DEF IInv, Typed, TypeOK
<1>l. jobs' = jobs => (Listed("TIMER")' <=> Listed("TIMER"))
  BY DEF Listed
<1> USE DEF AlarmsAreDue
<1>1. ASSUME UNCHANGED <<jobs, alarm, due>>, at' = at \/ at' # "timer"
      PROVE  AlarmsAreDue'
  BY <1>1, <1>i, <1>l
<1>2. ASSUME End, jobs' = jobs
      PROVE  AlarmsAreDue'
  BY <1>2, <1>i, <1>l DEF End
<1>3. CASE Network \/ OtherJob \/ UNCHANGED vars
  BY <1>1, <1>3 DEF Network, OtherJob, Crashed, worker, alarms, vars
<1>4. CASE Epoll_pwait \/ NotAccepted \/ ChildBegin \/ RecvFrame \/ RecvShort
           \/ RecvNothing \/ Rearm \/ SentPart
  BY <1>1, <1>4 DEF Epoll_pwait, NotAccepted, ChildBegin, RecvFrame, RecvShort, RecvNothing,
     Rearm, SentPart, worker, alarms
<1>5. CASE SentAll \/ SetOut
  <2>1. at' # "timer"
    BY <1>5 DEF SentAll, SetOut, IInv, Typed, TypeOK
  <2> QED
    BY <1>1, <1>5, <2>1 DEF SentAll, SetOut, alarms
<1>6. CASE PRO_TBUF \/ CMD_RELEASE_SESSION \/ CMD_CHANNEL_PAUSE \/ CMD_CHANNEL_RESUME \/ Return
  BY <1>1, <1>6 DEF PRO_TBUF, CMD_RELEASE_SESSION, CMD_CHANNEL_PAUSE, CMD_CHANNEL_RESUME,
     Return, worker, alarms
<1>7. CASE RecvEnd \/ SendFails \/ DMD_END_SESSION
  <2>1. jobs' = jobs /\ at' # "timer"
    BY <1>7 DEF RecvEnd, SendFails, DMD_END_SESSION, End, IInv, Typed, TypeOK
  <2>2. End \/ UNCHANGED alarms
    BY <1>7 DEF RecvEnd, SendFails, DMD_END_SESSION
  <2> QED
    BY <1>1, <1>2, <2>1, <2>2 DEF alarms
<1>8. CASE TIMER
  <2>1. jobs' = jobs
    BY <1>8 DEF TIMER
  <2>2. CASE session
    BY <1>2, <1>8, <2>1, <2>2 DEF TIMER
  <2>3. CASE ~session
    BY <1>8, <1>i, <1>l, <2>1, <2>3 DEF TIMER
  <2> QED
    BY <2>2, <2>3
<1>9. CASE CMD_TIMER_TO_RELEASE
  BY <1>9 DEF CMD_TIMER_TO_RELEASE
<1>10. CASE AlarmTaken \/ AlarmGiven
  BY <1>10, <1>i DEF AlarmTaken, AlarmGiven
<1>11. CASE Dispatch
  <2>1. PICK e \in batch : jobs' = Append(jobs, e)
    BY <1>11 DEF Dispatch
  <2>2. e # "TIMER"
    BY DEF IInv, Typed, TypeOK
  <2>3. Listed("TIMER")' => Listed("TIMER")
    BY <2>1, <2>2, <1>i DEF Listed
  <2> QED
    BY <1>11, <1>i, <2>3 DEF Dispatch, worker, alarms
<1>12. CASE TakeJob
  <2>1. jobs # << >> /\ jobs' = Tail(jobs) /\ UNCHANGED <<alarm, due>>
    BY <1>12 DEF TakeJob, alarms
  <2>2. at' = "timer" => Head(jobs) = "TIMER"
    <3>1. Head(jobs) \in Jobs
      BY <1>i, <2>1, TailKeeps
    <3> QED
      BY <1>12, <3>1 DEF TakeJob, Jobs
  <2>3. Head(jobs) = "TIMER" => Listed("TIMER")
    BY <1>i, <2>1 DEF Listed
  <2>4. Listed("TIMER")' => Listed("TIMER")
    BY <1>i, <2>1 DEF Listed
  <2> QED
    BY <1>i, <2>1, <2>2, <2>3, <2>4
<1> QED
  BY <1>3, <1>4, <1>5, <1>6, <1>7, <1>8, <1>9, <1>10, <1>11, <1>12
  DEF Next, Loop, Handler, Users, Crashed

LEMMA StepIInv == IInv /\ [Next]_vars => IInv'
BY StepTyped, StepKeeps, StepIsDue DEF IInv

\* Every variable keeps its type, and a registration is there only for a session.
THEOREM TypeCorrect == Spec => []TypeOK
<1>1. IInv => TypeOK
  BY IInvImplies
<1> QED
  BY <1>1, InitIInv, StepIInv, PTL DEF Spec

\* A session that RD_EPOLL has disarmed is armed again.
THEOREM EarsStayOpen == Spec => []EarsOpen
<1>1. IInv => EarsOpen
  BY IInvImplies
<1> QED
  BY <1>1, InitIInv, StepIInv, PTL DEF Spec

\* What could not be sent waits for room, until the users pause the session.
THEOREM RestStaysAwaited == Spec => []RestIsAwaited
<1>1. IInv => RestIsAwaited
  BY IInvImplies
<1> QED
  BY <1>1, InitIInv, StepIInv, PTL DEF Spec

\* No RD or WR of a session before ends the one that has its object now, and an
\* alarm only if it was set since the last end, or had gone off before it.
THEOREM SessionsEndForCause == Spec => EndsForCause
<1>1. IInv /\ [Next]_vars =>
        [session /\ ~session' => peer = "gone" \/ at = "users" \/ (at = "timer" /\ due)]_vars
  <2> SUFFICES ASSUME IInv, Next, session, ~session'
               PROVE  peer = "gone" \/ at = "users" \/ (at = "timer" /\ due)
    BY DEF vars
  <2>1. at = "timer" => due
    BY DEF IInv, AlarmsAreDue
  <2>2. TIMER => at = "timer"
    BY DEF TIMER
  <2>3. RecvEnd \/ SendFails \/ DMD_END_SESSION \/ CMD_RELEASE_SESSION =>
          peer = "gone" \/ at = "users"
    BY DEF RecvEnd, SendFails, DMD_END_SESSION, CMD_RELEASE_SESSION
  <2>4. ~(Network \/ Loop \/ OtherJob \/ Crashed)
    BY DEF Network, Loop, Epoll_pwait, Dispatch, AlarmTaken, AlarmGiven, OtherJob, Crashed,
       tcpsrv, vars
  <2>5. Handler => RecvEnd \/ SendFails \/ TIMER
    BY DEF Handler, TakeJob, NotAccepted, ChildBegin, RecvFrame, RecvShort, RecvNothing,
       Rearm, SentAll, SentPart, SetOut, tcpsrv
  <2>6. Users => DMD_END_SESSION \/ CMD_RELEASE_SESSION
    BY DEF Users, PRO_TBUF, CMD_TIMER_TO_RELEASE, CMD_CHANNEL_PAUSE, CMD_CHANNEL_RESUME,
       Return, tcpsrv
  <2> QED
    BY <2>1, <2>2, <2>3, <2>4, <2>5, <2>6 DEF Next
<1> QED
  BY <1>1, InitIInv, StepIInv, PTL DEF Spec, EndsForCause
=============================================================================
