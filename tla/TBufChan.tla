------------------------------ MODULE TBufChan ------------------------------
(***************************************************************************)
(* TBufChan stands between a node to the left that has data to send and a  *)
(* channel to the right.  While the channel is not there it keeps the data *)
(* in house and asks for the channel; the users on the left are told when  *)
(* it takes too long.                                                      *)
(*                                                                         *)
(* The channel is any node that handles DMD_START_SESSION and PRO_TBUF as  *)
(* Tcpcliuna does (TcpClient), as in m.xml:342-360: it may fail silently,  *)
(* try again by itself, and an attempt to start it when it is open may     *)
(* close it.  Its END_SESSION reaches sponte as DMD_END_SESSION, by the    *)
(* Trend of m.xml:347-349.                                                 *)
(*                                                                         *)
(* Calls to the right and to the left are last statements, so what happens *)
(* inside them is the same as what happens right after, with one exception:*)
(* START_SESSION sets alive when the call that sends the house has         *)
(* returned.  frames counts these calls.  Inside one, the left acts only   *)
(* when it has been told something.                                        *)
(*                                                                         *)
(* Data is moved or copied (d_mode MOVE, COPY); with STILL and CLEAR none  *)
(* is taken.  right_rcv, which PRO_TBUF from the right empties, is left    *)
(* out.                                                                    *)
(***************************************************************************)
EXTENDS Naturals, Sequences

CONSTANTS Data, NoData,
          max_buffer_times,  \* how often data is put into house
          MaxRest,           \* bound: the left waits when so much is unsent
          MaxFrames          \* bound: START_SESSIONs within one another

ASSUME DataAssumption == NoData \notin Data
ASSUME TimesAssumption == max_buffer_times \in Nat \ {0}
ASSUME BoundsAssumption == MaxRest \in Nat /\ MaxFrames \in Nat

VARIABLES
    gCFG,              \* the configuration, which stays
    house,             \* data that waits for the channel
    right_snd,         \* data handed to the channel, and not sent by it
    has_buffered_num,
    alive, demanding,
    alarm,             \* its entry with the scheduler is on
    frames,            \* how many START_SESSIONs wait for the house to be sent
    right,             \* the channel: "closed", "opening", "open"
    sent,              \* history: what the channel sent last
    told,              \* history: the left was told something in this frame
    heard,             \* history: and of a timeout or an end since it sent data
    crossed,           \* history: something came between the house being sent
                       \* and alive being set
    disarmed           \* history: the left has had the alarm cleared

data == <<house, right_snd, has_buffered_num>>
flags == <<alive, demanding>>
history == <<heard, crossed, disarmed>>
vars == <<gCFG, data, flags, alarm, frames, right, sent, told, history>>

\* willAsk is the attribute demand; expired: whether it is above 0.
Configurations ==
    [mode : {"TBUF", "UNIPAC", "HYBRID"}, once : BOOLEAN,
     willAsk : BOOLEAN, expired : BOOLEAN]

TypeOK ==
    /\ gCFG \in Configurations
    /\ house \in Seq(Data) /\ right_snd \in Seq(Data)
    /\ has_buffered_num \in 0 .. max_buffer_times
    /\ alive \in BOOLEAN /\ demanding \in BOOLEAN /\ alarm \in BOOLEAN
    /\ frames \in 0 .. MaxFrames
    /\ right \in {"closed", "opening", "open"}
    /\ sent \in Data \cup {NoData}
    /\ told \in BOOLEAN /\ heard \in BOOLEAN
    /\ crossed \in BOOLEAN /\ disarmed \in BOOLEAN

Init ==
    /\ gCFG \in Configurations
    /\ house = << >> /\ right_snd = << >>
    /\ has_buffered_num = 0
    /\ alive = FALSE /\ demanding = FALSE /\ alarm = FALSE
    /\ frames = 0
    /\ right = "closed"
    /\ sent = NoData
    /\ told = FALSE /\ heard = TRUE
    /\ crossed = FALSE /\ disarmed = FALSE

(***************************************************************************)
(* What the handlers are made of.                                          *)
(***************************************************************************)
\* What a demand does to the channel.
Asked ==
    right' \in (IF right = "closed" THEN {"closed", "opening"} ELSE {right, "closed"})

\* (mutant of Demand) the alarm is forgotten.
DemandUntimed(was) ==
    IF ~demanding /\ gCFG.willAsk
    THEN demanding' = TRUE /\ alarm' = was /\ Asked /\ UNCHANGED disarmed
    ELSE /\ alarm' = was
         /\ disarmed' = (disarmed \/ (demanding /\ ~was))
         /\ UNCHANGED <<demanding, right>>

\* The label Demand, with the alarm on or off before.
Demand(was) ==
    IF ~demanding /\ gCFG.willAsk
    THEN demanding' = TRUE /\ alarm' = gCFG.expired /\ Asked /\ UNCHANGED disarmed
    ELSE /\ alarm' = was
         /\ disarmed' = (disarmed \/ (demanding /\ ~was))
         /\ UNCHANGED <<demanding, right>>

\* right_reset, and the timer off.
Reset ==
    /\ right_snd' = << >>
    /\ demanding' = FALSE
    /\ alarm' = FALSE
    /\ disarmed' = FALSE

LeftMayAct == frames = 0 \/ told
Crossing == crossed' = (crossed \/ frames > 0)

(***************************************************************************)
(* facio: from the left, and from the scheduler.                           *)
(***************************************************************************)
ToChannel(d) ==
    /\ alive
    /\ right_snd' = Append(right_snd, d)
    /\ UNCHANGED <<house, has_buffered_num, flags, alarm, right, heard, disarmed>>

Full == has_buffered_num = max_buffer_times

ToHouse(d) ==
    /\ ~alive
    /\ house' = IF Full THEN <<d>> ELSE Append(house, d)
    /\ has_buffered_num' = IF Full THEN 1 ELSE has_buffered_num + 1
    /\ heard' = FALSE
    /\ Demand(alarm)
    /\ UNCHANGED <<right_snd, alive>>

Given(d) ==
    /\ LeftMayAct
    /\ Len(right_snd) < MaxRest
    /\ ToChannel(d) \/ ToHouse(d)
    /\ Crossing
    /\ UNCHANGED <<gCFG, frames, sent, told>>

PRO_TBUF(d) == gCFG.mode # "UNIPAC" /\ Given(d)
PRO_UNIPAC(d) == gCFG.mode # "TBUF" /\ Given(d)

DMD_START_SESSION ==
    /\ LeftMayAct
    /\ IF alive
       THEN /\ alarm' = FALSE /\ disarmed' = demanding
            /\ UNCHANGED <<demanding, right>>
       ELSE Demand(FALSE)
    /\ Crossing
    /\ UNCHANGED <<gCFG, data, alive, frames, sent, told, heard>>

\* A channel that is told as well may end after it.
DMD_END_SESSION ==
    /\ LeftMayAct
    /\ house' = << >>
    /\ alarm' = FALSE
    /\ disarmed' = demanding
    /\ Crossing
    /\ UNCHANGED <<gCFG, right_snd, has_buffered_num, flags, frames, right, sent, told, heard>>

\* The alarm is off once it has gone off.
TIMER ==
    /\ frames = 0 /\ alarm
    /\ IF demanding
       THEN Reset /\ alive' = FALSE /\ heard' = TRUE
       ELSE /\ alarm' = FALSE
            /\ UNCHANGED <<right_snd, flags, heard, disarmed>>
    /\ UNCHANGED <<gCFG, house, has_buffered_num, frames, right, sent, told, crossed>>

(***************************************************************************)
(* sponte: from the channel.                                               *)
(***************************************************************************)
\* (mutants of START_SESSION) what is sent stays in house; the timer stays on.
START_SESSION_KeepsHouse ==
    /\ right = "opening" /\ right' = "open"
    /\ demanding' = FALSE /\ alarm' = FALSE /\ disarmed' = FALSE
    /\ crossed' = (crossed /\ frames > 0)
    /\ has_buffered_num' = 0
    /\ right_snd' = house /\ alive' = ~gCFG.once
    /\ UNCHANGED <<gCFG, house, frames, sent, told, heard>>

START_SESSION_Ticking ==
    /\ right = "opening" /\ right' = "open"
    /\ demanding' = FALSE /\ disarmed' = FALSE
    /\ crossed' = (crossed /\ frames > 0)
    /\ has_buffered_num' = 0
    /\ right_snd' = house /\ house' = << >> /\ alive' = ~gCFG.once
    /\ UNCHANGED <<gCFG, alarm, frames, sent, told, heard>>

\* Reset, then the house is poured into right_snd, which is empty.
START_SESSION ==
    /\ right = "opening" /\ right' = "open"
    /\ demanding' = FALSE /\ alarm' = FALSE /\ disarmed' = FALSE
    /\ crossed' = (crossed /\ frames > 0)
    /\ has_buffered_num' = 0
    /\ right_snd' = house /\ house' = << >>
    /\ IF house = << >>
       THEN alive' = ~gCFG.once /\ UNCHANGED <<frames, told>>
       ELSE frames < MaxFrames /\ frames' = frames + 1 /\ told' = FALSE /\ alive' = FALSE
    /\ UNCHANGED <<gCFG, sent, heard>>

\* The house has been sent.  Only what the left has done made a call within this one.
Return ==
    /\ frames > 0
    /\ frames' = frames - 1
    /\ alive' = ~gCFG.once
    /\ told' = (frames > 1)
    /\ UNCHANGED <<gCFG, data, demanding, alarm, right, sent, history>>

\* (mutant of ChannelClosed) alive is not reset.
ChannelClosedAlive ==
    /\ right # "closed" /\ right' = "closed"
    /\ Reset
    /\ told' = (frames > 0) /\ heard' = TRUE
    /\ crossed' = (frames > 0)
    /\ UNCHANGED <<gCFG, house, has_buffered_num, alive, frames, sent>>

\* sponte's DMD_END_SESSION
ChannelClosed ==
    /\ right # "closed" /\ right' = "closed"
    /\ Reset /\ alive' = FALSE
    /\ told' = (frames > 0) /\ heard' = TRUE
    /\ crossed' = (frames > 0)
    /\ UNCHANGED <<gCFG, house, has_buffered_num, frames, sent>>

\* sponte's PRO_TBUF
FromRight ==
    /\ right = "open"
    /\ told' = (frames > 0)
    /\ UNCHANGED <<gCFG, data, flags, alarm, frames, right, sent, history>>

(***************************************************************************)
(* The channel by itself.                                                  *)
(***************************************************************************)
Sends ==
    /\ right = "open" /\ right_snd # << >>
    /\ sent' = Head(right_snd)
    /\ right_snd' = Tail(right_snd)
    /\ UNCHANGED <<gCFG, house, has_buffered_num, flags, alarm, frames, right, told, history>>

ConnectFails ==
    /\ right = "opening" /\ right' = "closed"
    /\ UNCHANGED <<gCFG, data, flags, alarm, frames, sent, told, history>>

ConnectsAgain ==
    /\ frames = 0
    /\ right = "closed" /\ right' = "opening"
    /\ UNCHANGED <<gCFG, data, flags, alarm, frames, sent, told, history>>

Left ==
    \/ \E d \in Data : PRO_TBUF(d) \/ PRO_UNIPAC(d)
    \/ DMD_START_SESSION \/ DMD_END_SESSION

Right ==
    \/ START_SESSION \/ ChannelClosed \/ FromRight
    \/ Sends \/ ConnectFails \/ ConnectsAgain

Next == Left \/ TIMER \/ Right \/ Return

\* Calls return, and the scheduler's clicks go on.
Spec == Init /\ [][Next]_vars /\ WF_vars(Return) /\ WF_vars(TIMER)

(***************************************************************************)
(* Properties                                                              *)
(***************************************************************************)
\* Data goes out once at most, and in the order in which the left gave it,
\* whatever ends, restarts and timeouts come between house and right_snd
\* (TBufChan.cpp:235,254,372); not claimed for what the left does while the house
\* is being sent, which goes to the house and is passed by what comes later.
Queue == INSTANCE LossyQueue WITH queue <- right_snd \o house, sent <- sent
KeepsOrder == [][Queue!Next \/ crossed']_<<right_snd \o house, sent>>

\* alive follows the channel, also when the answer to a demand and its timeout,
\* or a demand and an end, come in either order.  A channel that ends while the
\* house is being sent is taken for open afterwards (TBufChan.cpp:373-375).
AliveIsTheChannel ==
    crossed \/
       /\ alive => right = "open"
       /\ right = "open" /\ frames = 0 /\ ~gCFG.once => alive

\* "whether the channel is open" (TBufChan.cpp:64)
AliveMeansOpen == alive => right = "open"

\* A demand is timed until it is answered, and an alarm is for a demand: none goes
\* off for a channel that has come.  Not claimed when the left has sent
\* DMD_START_SESSION or DMD_END_SESSION since, which clear the timer of a demand
\* that stays (TBufChan.cpp:205,289).
AlarmIsTheDemand ==
    /\ alarm => demanding
    /\ gCFG.expired /\ demanding => alarm \/ disarmed

\* Data does not wait for ever and unheard of: it goes to the channel, or the left
\* hears of a timeout or an end.
WaitingEnds ==
    gCFG.willAsk /\ gCFG.expired /\ house # << >> ~>
        house = << >> \/ heard \/ disarmed

\* "channel timeout when accept DMD_START_SESSION" (Notitia.h:106): a demand that
\* is timed comes to an end.
DemandEnds == gCFG.expired /\ demanding ~> ~demanding
=============================================================================
