--------------------------- MODULE TBufChanProofs ---------------------------
(***************************************************************************)
(* For any data, any limit of the house and any depth of calls: alive      *)
(* follows the channel, a demand has its alarm and an alarm its demand,    *)
(* and data goes out in the order in which it came.                        *)
(***************************************************************************)
EXTENDS TBufChan, SequenceTheorems, TLAPS

\* What holds between the flags, the channel and the house while nothing has
\* come in between: a channel that is taken for open has no data that waits in
\* the house and no demand, and neither has one whose house is being sent.
Settled ==
    crossed \/
       /\ alive \/ frames > 0 => right = "open" /\ house = << >> /\ ~demanding
       /\ right = "open" /\ frames = 0 /\ ~gCFG.once => alive

IInv == TypeOK /\ AlarmIsTheDemand /\ Settled

LEMMA IInvImplies == IInv => TypeOK /\ AlarmIsTheDemand /\ AliveIsTheChannel
BY DEF IInv, Settled, AliveIsTheChannel

(***************************************************************************)
(* Two sequences, one behind the other.                                    *)
(***************************************************************************)
LEMMA Behind ==
  ASSUME NEW s \in Seq(Data), NEW h \in Seq(Data)
  PROVE  /\ s \o h \in Seq(Data) /\ Len(s) \in 0 .. Len(s \o h)
         /\ SubSeq(s \o h, 1, Len(s)) = s
         /\ SubSeq(s \o h, Len(s) + 1, Len(s \o h)) = h
         /\ s \o << >> = s /\ << >> \o h = h
<1>1. s \o h \in Seq(Data) /\ Len(s \o h) = Len(s) + Len(h)
  BY ConcatProperties
<1>2. Len(s) \in Nat /\ Len(h) \in Nat
  OBVIOUS
<1>3. SubSeq(s \o h, 1, Len(s)) = s
  BY SubSeqOfConcat1, SubSeqFull, <1>2
<1>4. SubSeq(s \o h, Len(s) + 1, Len(s \o h)) = h
  BY <1>1, <1>2, SubSeqOfConcat2, SubSeqFull
<1> QED
  BY <1>1, <1>2, <1>3, <1>4, ConcatEmptySeq

LEMMA BehindAppended ==
  ASSUME NEW s \in Seq(Data), NEW h \in Seq(Data), NEW d \in Data
  PROVE  s \o Append(h, d) = Append(s \o h, d)
<1>1. Append(h, d) = h \o <<d>> /\ <<d>> \in Seq(Data)
  BY AppendIsConcat
<1>2. s \o h \in Seq(Data) /\ Append(s \o h, d) = (s \o h) \o <<d>>
  BY ConcatProperties, AppendIsConcat
<1> QED
  BY <1>1, <1>2, ConcatAssociative

LEMMA BehindTail ==
  ASSUME NEW s \in Seq(Data), NEW h \in Seq(Data), s # << >>
  PROVE  s \o h # << >> /\ Head(s \o h) = Head(s) /\ Tail(s \o h) = Tail(s) \o h
<1>1. /\ s \o h \in Seq(Data) /\ Len(s \o h) = Len(s) + Len(h)
      /\ \A i \in 1 .. Len(s) + Len(h) :
            (s \o h)[i] = IF i <= Len(s) THEN s[i] ELSE h[i - Len(s)]
  BY ConcatProperties
<1>2. Len(s) \in Nat \ {0} /\ Len(h) \in Nat
  OBVIOUS
<1>3. s \o h # << >>
  BY <1>1, <1>2
<1>4. Head(s \o h) = Head(s)
  <2>1. (s \o h)[1] = s[1]
    BY <1>1, <1>2
  <2> QED
    BY <2>1, <1>3
<1>5. /\ Tail(s) \in Seq(Data) /\ Len(Tail(s)) = Len(s) - 1
      /\ \A i \in 1 .. Len(Tail(s)) : Tail(s)[i] = s[i + 1]
  BY HeadTailProperties
<1>6. /\ Tail(s \o h) \in Seq(Data) /\ Len(Tail(s \o h)) = Len(s \o h) - 1
      /\ \A i \in 1 .. Len(Tail(s \o h)) : Tail(s \o h)[i] = (s \o h)[i + 1]
  BY <1>1, <1>3, HeadTailProperties
<1>7. /\ Tail(s) \o h \in Seq(Data) /\ Len(Tail(s) \o h) = Len(Tail(s)) + Len(h)
      /\ \A i \in 1 .. Len(Tail(s)) + Len(h) :
            (Tail(s) \o h)[i] = IF i <= Len(Tail(s)) THEN Tail(s)[i]
                                                     ELSE h[i - Len(Tail(s))]
  BY <1>5, ConcatProperties
<1>8. Len(Tail(s \o h)) = Len(Tail(s) \o h)
  BY <1>1, <1>2, <1>5, <1>6, <1>7
<1>9. ASSUME NEW i \in 1 .. Len(Tail(s \o h))
      PROVE  Tail(s \o h)[i] = (Tail(s) \o h)[i]
  <2>1. i \in 1 .. Len(s) + Len(h) - 1 /\ i + 1 \in 1 .. Len(s) + Len(h)
    BY <1>1, <1>2, <1>6
  <2>2. (i + 1) - Len(s) = i - (Len(s) - 1)
    BY <1>2, <2>1
  <2>3. Tail(s \o h)[i] = IF i + 1 <= Len(s) THEN s[i + 1] ELSE h[(i + 1) - Len(s)]
    BY <1>1, <1>6, <2>1
  <2>4. (Tail(s) \o h)[i] = IF i <= Len(s) - 1 THEN Tail(s)[i] ELSE h[i - (Len(s) - 1)]
    BY <1>5, <1>7, <1>2, <2>1
  <2>5. CASE i <= Len(s) - 1
    <3>1. i \in 1 .. Len(Tail(s)) /\ i + 1 <= Len(s)
      BY <1>2, <1>5, <2>1, <2>5
    <3> QED
      BY <3>1, <1>5, <2>3, <2>4, <2>5
  <2>6. CASE ~(i <= Len(s) - 1)
    <3>1. ~(i + 1 <= Len(s))
      BY <1>2, <2>1, <2>6
    <3> QED
      BY <3>1, <2>2, <2>3, <2>4, <2>6
  <2> QED
    BY <2>5, <2>6
<1>10. Tail(s \o h) = Tail(s) \o h
  BY <1>6, <1>7, <1>8, <1>9, SeqEqual
<1> QED
  BY <1>3, <1>4, <1>10

(***************************************************************************)
(* The invariant.                                                          *)
(***************************************************************************)
LEMMA InitOK == Init => IInv
<1>1. 0 \in 0 .. max_buffer_times /\ 0 \in 0 .. MaxFrames
  BY TimesAssumption, BoundsAssumption
<1>2. << >> \in Seq(Data)
  BY EmptySeq
<1> SUFFICES ASSUME Init PROVE IInv
  OBVIOUS
<1>3. TypeOK
  BY <1>1, <1>2 DEF Init, TypeOK
<1>4. AlarmIsTheDemand
  BY DEF Init, AlarmIsTheDemand
<1>5. ~(frames > 0) /\ right # "open" /\ ~alive
  BY DEF Init
<1>6. Settled
  BY <1>5 DEF Settled
<1> QED
  BY <1>3, <1>4, <1>6 DEF IInv

\* A demand: it is timed, and it is made only when the channel is not taken for
\* open.
LEMMA DemandOK ==
  ASSUME TypeOK, AlarmIsTheDemand, NEW was \in BOOLEAN, was => alarm,
         Demand(was)
  PROVE  /\ demanding' \in BOOLEAN /\ alarm' \in BOOLEAN /\ disarmed' \in BOOLEAN
         /\ right' \in {"closed", "opening", "open"}
         /\ alarm' => demanding'
         /\ (was = alarm \/ demanding) =>
               (gCFG.expired /\ demanding' => alarm' \/ disarmed')
         /\ right' = "open" => right = "open"
<1>1. gCFG.expired \in BOOLEAN
  BY DEF TypeOK, Configurations
<1>2. CASE ~demanding /\ gCFG.willAsk
  BY <1>1, <1>2 DEF Demand, Asked, TypeOK
<1>3. CASE ~(~demanding /\ gCFG.willAsk)
  BY <1>1, <1>3 DEF Demand, AlarmIsTheDemand, TypeOK
<1> QED
  BY <1>2, <1>3

LEMMA StepOK == IInv /\ [Next]_vars => IInv'
<1> SUFFICES ASSUME IInv, [Next]_vars PROVE IInv'
  OBVIOUS
<1>0. TypeOK /\ AlarmIsTheDemand /\ Settled
  BY DEF IInv
<1>c. gCFG.expired \in BOOLEAN /\ gCFG.once \in BOOLEAN
  BY <1>0 DEF TypeOK, Configurations
<1>1. ASSUME NEW d \in Data, Given(d) PROVE IInv'
  <2>1. CASE ToChannel(d)
    <3>1. Append(right_snd, d) \in Seq(Data)
      BY <1>0 DEF TypeOK
    <3>2. TypeOK'
      BY <1>0, <1>1, <2>1, <3>1 DEF Given, ToChannel, Crossing, TypeOK, flags
    <3>3. AlarmIsTheDemand'
      BY <1>0, <1>1, <2>1 DEF Given, ToChannel, AlarmIsTheDemand, flags
    <3>4. Settled'
      BY <1>0, <1>1, <2>1 DEF Given, ToChannel, Crossing, Settled, flags
    <3> QED
      BY <3>2, <3>3, <3>4 DEF IInv
  <2>2. CASE ToHouse(d)
    <3>1. /\ Append(house, d) \in Seq(Data) /\ <<d>> \in Seq(Data)
          /\ has_buffered_num' \in 0 .. max_buffer_times
      BY <1>0, <2>2, TimesAssumption DEF TypeOK, ToHouse, Full
    <3>2. Demand(alarm) /\ alarm \in BOOLEAN
      BY <1>0, <2>2 DEF ToHouse, TypeOK
    <3>3. /\ demanding' \in BOOLEAN /\ alarm' \in BOOLEAN /\ disarmed' \in BOOLEAN
          /\ right' \in {"closed", "opening", "open"}
          /\ alarm' => demanding'
          /\ gCFG.expired /\ demanding' => alarm' \/ disarmed'
          /\ right' = "open" => right = "open"
      BY <1>0, <3>2, DemandOK
    <3>4. house' \in Seq(Data)
      BY <2>2, <3>1 DEF ToHouse
    <3>5. TypeOK'
      BY <1>0, <1>1, <2>2, <3>1, <3>3, <3>4 DEF Given, ToHouse, Crossing, TypeOK
    <3>6. AlarmIsTheDemand'
      BY <1>1, <3>3 DEF Given, AlarmIsTheDemand
    <3>7. Settled'
      BY <1>0, <1>1, <2>2, <3>3 DEF Given, ToHouse, Crossing, Settled, TypeOK
    <3> QED
      BY <3>5, <3>6, <3>7 DEF IInv
  <2> QED
    BY <1>1, <2>1, <2>2 DEF Given
<1>2. ASSUME DMD_START_SESSION PROVE IInv'
  <2>1. CASE alive
    <3>1. TypeOK'
      BY <1>0, <1>2, <2>1 DEF DMD_START_SESSION, Crossing, TypeOK, data
    <3>2. AlarmIsTheDemand'
      BY <1>0, <1>2, <2>1 DEF DMD_START_SESSION, AlarmIsTheDemand
    <3>3. Settled'
      BY <1>0, <1>2, <2>1 DEF DMD_START_SESSION, Crossing, Settled, data
    <3> QED
      BY <3>1, <3>2, <3>3 DEF IInv
  <2>2. CASE ~alive
    <3>1. Demand(FALSE)
      BY <1>2, <2>2 DEF DMD_START_SESSION
    <3>2. /\ demanding' \in BOOLEAN /\ alarm' \in BOOLEAN /\ disarmed' \in BOOLEAN
          /\ right' \in {"closed", "opening", "open"}
          /\ alarm' => demanding'
          /\ right' = "open" => right = "open"
          /\ (FALSE = alarm \/ demanding) =>
                (gCFG.expired /\ demanding' => alarm' \/ disarmed')
      BY <1>0, <3>1, DemandOK
    <3>3. FALSE = alarm \/ demanding
      BY <1>0 DEF TypeOK, AlarmIsTheDemand
    <3>4. TypeOK'
      BY <1>0, <1>2, <3>2 DEF DMD_START_SESSION, Crossing, TypeOK, data
    <3>5. AlarmIsTheDemand'
      BY <1>2, <3>2, <3>3 DEF DMD_START_SESSION, AlarmIsTheDemand
    <3>6. Settled'
      BY <1>0, <1>2, <2>2, <3>2 DEF DMD_START_SESSION, Crossing, Settled, TypeOK, data
    <3> QED
      BY <3>4, <3>5, <3>6 DEF IInv
  <2> QED
    BY <2>1, <2>2
<1>3. ASSUME DMD_END_SESSION PROVE IInv'
  <2>1. TypeOK'
    BY <1>0, <1>3, EmptySeq DEF DMD_END_SESSION, Crossing, TypeOK, flags
  <2>2. AlarmIsTheDemand'
    BY <1>0, <1>3 DEF DMD_END_SESSION, AlarmIsTheDemand, flags
  <2>3. Settled'
    BY <1>0, <1>3 DEF DMD_END_SESSION, Crossing, Settled, flags
  <2> QED
    BY <2>1, <2>2, <2>3 DEF IInv
<1>4. ASSUME TIMER PROVE IInv'
  <2>1. /\ demanding /\ alarm /\ alarm' = FALSE /\ demanding' = FALSE
        /\ alive' = FALSE /\ disarmed' = FALSE /\ heard' = TRUE
        /\ right_snd' = << >> /\ frames = 0
        /\ UNCHANGED <<gCFG, house, has_buffered_num, frames, right, sent, told, crossed>>
    BY <1>0, <1>4 DEF TIMER, Reset, AlarmIsTheDemand
  <2>2. TypeOK'
    BY <1>0, <2>1, EmptySeq DEF TypeOK
  <2>3. AlarmIsTheDemand'
    BY <2>1 DEF AlarmIsTheDemand
  <2>4. Settled'
    BY <1>0, <2>1 DEF Settled, TypeOK
  <2> QED
    BY <2>2, <2>3, <2>4 DEF IInv
<1>5. ASSUME START_SESSION PROVE IInv'
  <2>0. /\ right_snd' = house /\ has_buffered_num' = 0 /\ sent' = sent /\ heard' = heard
        /\ alarm' = FALSE /\ disarmed' = FALSE
    BY <1>5 DEF START_SESSION
  <2>1. /\ frames' \in 0 .. MaxFrames
        /\ alive' = ~gCFG.once \/ alive' = FALSE
        /\ told' = told \/ told' = FALSE
    <3>1. CASE house = << >>
      BY <1>0, <1>5, <3>1 DEF START_SESSION, TypeOK
    <3>2. CASE house # << >>
      <4>1. /\ frames < MaxFrames /\ frames' = frames + 1
            /\ told' = FALSE /\ alive' = FALSE
        BY <1>5, <3>2 DEF START_SESSION
      <4>2. frames \in 0 .. MaxFrames
        BY <1>0 DEF TypeOK
      <4>3. frames' \in 0 .. MaxFrames
        BY <4>1, <4>2, BoundsAssumption
      <4> QED
        BY <4>1, <4>3
    <3> QED
      BY <3>1, <3>2
  <2>3. AlarmIsTheDemand'
    BY <1>5 DEF START_SESSION, AlarmIsTheDemand
  <2>4. ~crossed /\ frames > 0 => FALSE
    BY <1>0, <1>5 DEF START_SESSION, Settled
  <2>5. frames = 0 => (frames' = 0 /\ alive' = ~gCFG.once) \/ frames' > 0
    BY <1>0, <1>5 DEF START_SESSION, TypeOK
  <2>6. crossed' = (crossed /\ frames > 0) /\ right' = "open" /\ house' = << >>
        /\ demanding' = FALSE /\ gCFG' = gCFG
    BY <1>5 DEF START_SESSION
  <2>7. frames \in Nat
    BY <1>0, BoundsAssumption DEF TypeOK
  <2>t. TypeOK'
    <3>1. 0 \in 0 .. max_buffer_times
      BY TimesAssumption
    <3>2. alive' \in BOOLEAN /\ told' \in BOOLEAN /\ crossed' \in BOOLEAN
      BY <1>0, <1>c, <2>1, <2>6 DEF TypeOK
    <3> QED
      BY <1>0, <2>0, <2>1, <2>6, <3>1, <3>2, EmptySeq DEF TypeOK
  <2>8. Settled'
    <3>1. CASE crossed'
      BY <3>1 DEF Settled
    <3>2. CASE ~crossed'
      <4>1. ~(frames > 0)
        BY <2>4, <2>6, <3>2
      <4>2. frames = 0
        BY <2>7, <4>1
      <4>3. (frames' = 0 /\ alive' = ~gCFG.once) \/ frames' > 0
        BY <2>5, <4>2
      <4>4. frames' > 0 => frames' # 0
        OBVIOUS
      <4> QED
        BY <2>6, <4>3, <4>4 DEF Settled
    <3> QED
      BY <3>1, <3>2
  <2> QED
    BY <2>3, <2>8, <2>t DEF IInv
<1>6. ASSUME Return PROVE IInv'
  <2>1. frames - 1 \in 0 .. MaxFrames /\ (frames > 1) \in BOOLEAN
    BY <1>0, <1>6, BoundsAssumption DEF Return, TypeOK
  <2>2. TypeOK'
    BY <1>0, <1>6, <1>c, <2>1 DEF Return, TypeOK, data, history
  <2>3. AlarmIsTheDemand'
    BY <1>0, <1>6 DEF Return, AlarmIsTheDemand, history
  <2>4. Settled'
    BY <1>0, <1>6 DEF Return, Settled, data, history
  <2> QED
    BY <2>2, <2>3, <2>4 DEF IInv
<1>7. ASSUME ChannelClosed PROVE IInv'
  <2>1. frames \in Nat
    BY <1>0, BoundsAssumption DEF TypeOK
  <2>2. TypeOK'
    <3>1. told' \in BOOLEAN /\ crossed' \in BOOLEAN
      BY <1>7 DEF ChannelClosed
    <3>2. /\ right_snd' = << >> /\ demanding' = FALSE /\ alarm' = FALSE
          /\ disarmed' = FALSE /\ alive' = FALSE /\ heard' = TRUE /\ right' = "closed"
          /\ UNCHANGED <<gCFG, house, has_buffered_num, frames, sent>>
      BY <1>7 DEF ChannelClosed, Reset
    <3> QED
      BY <1>0, <3>1, <3>2, EmptySeq DEF TypeOK
  <2>3. AlarmIsTheDemand'
    BY <1>7 DEF ChannelClosed, Reset, AlarmIsTheDemand
  <2>4. Settled'
    BY <1>7, <2>1 DEF ChannelClosed, Reset, Settled
  <2> QED
    BY <2>2, <2>3, <2>4 DEF IInv
<1>8. ASSUME FromRight \/ ConnectFails \/ ConnectsAgain PROVE IInv'
  <2>1. /\ UNCHANGED <<gCFG, data, flags, alarm, frames, sent, history>>
        /\ told' = told \/ told' \in BOOLEAN
        /\ (right' \in {"closed", "opening"} /\ right # "open") \/ right' = right
    <3>1. CASE FromRight
      <4>1. told' \in BOOLEAN
        BY <3>1 DEF FromRight
      <4> QED
        BY <3>1, <4>1 DEF FromRight
    <3>2. CASE ConnectFails
      BY <3>2 DEF ConnectFails
    <3>3. CASE ConnectsAgain
      BY <3>3 DEF ConnectsAgain
    <3> QED
      BY <1>8, <3>1, <3>2, <3>3
  <2>0. right' \in {"closed", "opening", "open"} /\ told' \in BOOLEAN
    BY <1>0, <2>1 DEF TypeOK
  <2>2. TypeOK'
    BY <1>0, <2>0, <2>1 DEF TypeOK, data, flags, history
  <2>3. AlarmIsTheDemand'
    BY <1>0, <2>1 DEF AlarmIsTheDemand, flags, history
  <2>4. Settled'
    BY <1>0, <2>1 DEF Settled, data, flags, history
  <2> QED
    BY <2>2, <2>3, <2>4 DEF IInv
<1>9. ASSUME Sends PROVE IInv'
  <2>1. Head(right_snd) \in Data /\ Tail(right_snd) \in Seq(Data)
    BY <1>0, <1>9, HeadTailProperties DEF Sends, TypeOK
  <2>2. TypeOK'
    BY <1>0, <1>9, <2>1 DEF Sends, TypeOK, flags, history
  <2>3. AlarmIsTheDemand'
    BY <1>0, <1>9 DEF Sends, AlarmIsTheDemand, flags, history
  <2>4. Settled'
    BY <1>0, <1>9 DEF Sends, Settled, flags, history
  <2> QED
    BY <2>2, <2>3, <2>4 DEF IInv
<1>10. ASSUME UNCHANGED vars PROVE IInv'
  BY <1>0, <1>10 DEF IInv, TypeOK, AlarmIsTheDemand, Settled, vars, data, flags, history
<1> QED
  BY <1>1, <1>2, <1>3, <1>4, <1>5, <1>6, <1>7, <1>8, <1>9, <1>10
     DEF Next, Left, Right, PRO_TBUF, PRO_UNIPAC

LEMMA Invariance == Spec => []IInv
BY InitOK, StepOK, PTL DEF Spec

(***************************************************************************)
(* Theorems                                                                *)
(***************************************************************************)
\* Types, so that the house is put into at most max_buffer_times times.
THEOREM TypeCorrect == Spec => []TypeOK
BY Invariance, IInvImplies, PTL

\* A timed demand has its alarm, unless the left had it cleared, and no alarm is
\* left when the channel has come or gone (TBufChan.cpp:174-180,257-264,360,381).
THEOREM AlarmsAreDemands == Spec => []AlarmIsTheDemand
BY Invariance, IInvImplies, PTL

\* alive says whether the channel is open, while nothing came between the sending
\* of the house and the setting of alive (TBufChan.cpp:368-375,389).
THEOREM AliveFollows == Spec => []AliveIsTheChannel
BY Invariance, IInvImplies, PTL

\* What each step does to the queue of right_snd and house.
LEMMA StepsKeepOrder ==
  ASSUME IInv, [Next]_vars
  PROVE  [Queue!Next \/ crossed']_<<right_snd \o house, sent>>
<1> DEFINE q == right_snd \o house
           n == Len(right_snd)
<1>0. right_snd \in Seq(Data) /\ house \in Seq(Data) /\ Settled /\ frames \in 0 .. MaxFrames
  BY DEF IInv, TypeOK
<1>1. /\ n \in 0 .. Len(q) /\ SubSeq(q, 1, n) = right_snd
      /\ SubSeq(q, n + 1, Len(q)) = house
      /\ right_snd \o << >> = right_snd /\ << >> \o house = house
  BY <1>0, Behind
<1>2. ASSUME NEW d \in Data, Given(d), ~crossed' PROVE Queue!Next
  <2>1. ~crossed /\ sent' = sent
    BY <1>2 DEF Given, Crossing
  <2>2. CASE ToChannel(d)
    <3>1. house = << >> /\ right_snd' = Append(right_snd, d) /\ house' = house
      BY <1>0, <2>1, <2>2 DEF ToChannel, Settled
    <3>2. Append(right_snd, d) \in Seq(Data)
      BY <1>0
    <3>3. (right_snd \o house)' = Append(right_snd \o house, d)
      BY <1>1, <3>1, <3>2, ConcatEmptySeq
    <3> QED
      BY <2>1, <3>3 DEF Queue!Next, Queue!Accept
  <2>3. CASE ToHouse(d) /\ ~Full
    <3>1. house' = Append(house, d) /\ right_snd' = right_snd
      BY <2>3 DEF ToHouse
    <3>2. (right_snd \o house)' = Append(right_snd \o house, d)
      BY <1>0, <3>1, BehindAppended
    <3> QED
      BY <2>1, <3>2 DEF Queue!Next, Queue!Accept
  <2>4. CASE ToHouse(d) /\ Full
    <3>1. house' = <<d>> /\ right_snd' = right_snd
      BY <2>4 DEF ToHouse
    <3>2. (right_snd \o house)' = Append(SubSeq(right_snd \o house, 1, n), d)
      BY <1>0, <1>1, <3>1, AppendIsConcat
    <3> QED
      BY <1>1, <2>1, <3>2 DEF Queue!Next, Queue!Replace
  <2> QED
    BY <1>2, <2>2, <2>3, <2>4 DEF Given
<1>3. CASE DMD_START_SESSION \/ FromRight \/ ConnectFails \/ ConnectsAgain \/ Return
           \/ UNCHANGED vars
  BY <1>3 DEF DMD_START_SESSION, FromRight, ConnectFails, ConnectsAgain, Return,
              vars, data
<1>4. CASE DMD_END_SESSION
  <2>1. (right_snd \o house)' = SubSeq(right_snd \o house, 1, n) /\ sent' = sent
    BY <1>1, <1>4 DEF DMD_END_SESSION
  <2> QED
    BY <1>1, <2>1 DEF Queue!Next, Queue!LoseNewest
<1>5. ASSUME right_snd' = << >>, house' = house, sent' = sent PROVE Queue!Next
  <2>1. (right_snd \o house)' = SubSeq(right_snd \o house, n + 1, Len(right_snd \o house))
    BY <1>1, <1>5
  <2> QED
    BY <1>1, <1>5, <2>1 DEF Queue!Next, Queue!LoseOldest
<1>6. CASE TIMER
  <2>1. demanding
    BY <1>6 DEF TIMER, IInv, AlarmIsTheDemand
  <2> QED
    BY <1>5, <1>6, <2>1 DEF TIMER, Reset
<1>7. CASE ChannelClosed
  BY <1>5, <1>7 DEF ChannelClosed, Reset
<1>8. CASE START_SESSION
  <2>1. right_snd' = house /\ house' = << >> /\ sent' = sent
    BY <1>8 DEF START_SESSION
  <2>2. (right_snd \o house)' = SubSeq(right_snd \o house, n + 1, Len(right_snd \o house))
    BY <1>0, <1>1, <2>1, ConcatEmptySeq
  <2> QED
    BY <1>1, <2>1, <2>2 DEF Queue!Next, Queue!LoseOldest
<1>9. CASE Sends
  <2>1. /\ right_snd # << >> /\ sent' = Head(right_snd)
        /\ right_snd' = Tail(right_snd) /\ house' = house
    BY <1>9 DEF Sends
  <2>2. /\ right_snd \o house # << >> /\ Head(right_snd \o house) = Head(right_snd)
        /\ Tail(right_snd \o house) = Tail(right_snd) \o house
    BY <1>0, <2>1, BehindTail
  <2> QED
    BY <2>1, <2>2 DEF Queue!Next, Queue!Deliver
<1> QED
  BY <1>2, <1>3, <1>4, <1>6, <1>7, <1>8, <1>9
     DEF Next, Left, Right, PRO_TBUF, PRO_UNIPAC

\* Data goes out once at most and in the order in which the left gave it, as long
\* as nothing comes while the house is being sent (TBufChan.cpp:235,254,372).
THEOREM OrderKept == Spec => KeepsOrder
BY Invariance, StepsKeepOrder, PTL DEF Spec, KeepsOrder
=============================================================================
