----------------------- MODULE SubscriberNormalProofs -----------------------
(***************************************************************************)
(* The safety properties of a connection in normal mode, for any topics,   *)
(* any number of subscriptions and any limit of the control queue.         *)
(***************************************************************************)
EXTENDS SubscriberNormal, TLAPS

\* An "ok" is written or on its way.
OkSent ==
    \/ answered
    \/ pending_frame = "ok"
    \/ \E i \in 1..Len(control_frames) : control_frames[i] = "ok"

\* The ways by which the writer comes to deliver: each step of it finds the
\* answer one step further.
AnswerInv ==
    /\ reader = "answered" \/ subscribed \/ record # 0 \/ writer = "getting"
          => OkSent
    /\ writer = "polling" /\ record # 0 => answered
    /\ writer = "delivering" => answered /\ record # 0
    /\ pending_frame \in Topics => answered /\ record # 0
    /\ writer = "getting" => record = 0
    /\ to_deliver # {} => writer = "delivering"

\* Only the reader refreshes, and killAlive is the last thing it does.
KilledInv == reader = "ended" /\ exists => heartbeat = "killed"

IInv == TypeOK /\ AnswerInv /\ KilledInv

\* Topics are no control frames.
LEMMA NoControlTopic == Topics \cap (Control \cup {"none"}) = {}
BY NormalAssumption DEF Control

-----------------------------------------------------------------------------
\* What a thread does to the control queue.

\* enqueueControlFrame: the queue grows at its end or stays, and keeps its
\* limit.
LEMMA Enqueued ==
    ASSUME TypeOK, NEW frame \in Control, NEW next, Enqueue(frame, next)
    PROVE  /\ control_frames' \in Seq(Control)
           /\ Len(control_frames') <= MaxControlFrames
           /\ \A i \in 1..Len(control_frames) :
                 i \in 1..Len(control_frames') /\ control_frames'[i] = control_frames[i]
           /\ \/ reader' = "ending" /\ control_frames' = control_frames
              \/ /\ reader' = next
                 /\ Len(control_frames') \in 1..Len(control_frames')
                 /\ control_frames'[Len(control_frames')] = frame
<1>1. CASE Len(control_frames) < MaxControlFrames
  <2>1. control_frames' = Append(control_frames, frame) /\ reader' = next
    BY <1>1 DEF Enqueue
  <2>2. /\ Len(control_frames) \in Nat
        /\ Len(control_frames') = Len(control_frames) + 1
        /\ control_frames' \in Seq(Control)
        /\ control_frames'[Len(control_frames) + 1] = frame
        /\ \A i \in 1..Len(control_frames) :
              control_frames'[i] = control_frames[i]
    BY <2>1 DEF TypeOK
  <2> QED BY <1>1, <2>1, <2>2, NormalAssumption
<1>2. CASE ~(Len(control_frames) < MaxControlFrames)
  BY <1>2, NormalAssumption DEF Enqueue, TypeOK
<1> QED BY <1>1, <1>2

\* flushPendingFrame takes the frame it writes out of the queue, and nothing
\* else.
LEMMA Taken ==
    ASSUME TypeOK, HasOutput, TakeFrame
    PROVE  /\ control_frames' \in Seq(Control)
           /\ Len(control_frames') <= MaxControlFrames
           /\ NextFrame \in Topics \cup Control
           /\ NextFrame \in Topics => pending_frame = NextFrame
           /\ \/ pending_frame = "ok"
              \/ \E i \in 1..Len(control_frames) : control_frames[i] = "ok"
              => \/ NextFrame = "ok"
                 \/ \E i \in 1..Len(control_frames') : control_frames'[i] = "ok"
<1>1. CASE pending_frame # "none"
  BY <1>1, NoControlTopic DEF TakeFrame, NextFrame, TypeOK, Control
<1>2. CASE pending_frame = "none"
  <2>1. control_frames # <<>> /\ control_frames' = Tail(control_frames)
    BY <1>2 DEF HasOutput, TakeFrame
  <2>2. NextFrame = control_frames[1] /\ NextFrame \in Control
    BY <1>2, <2>1 DEF NextFrame, TypeOK
  <2>3. /\ Len(control_frames') = Len(control_frames) - 1
        /\ control_frames' \in Seq(Control)
        /\ \A i \in 1..Len(control_frames') :
              control_frames'[i] = control_frames[i + 1]
    BY <2>1 DEF TypeOK
  <2>4. ASSUME NEW i \in 1..Len(control_frames), control_frames[i] = "ok"
        PROVE  \/ NextFrame = "ok"
               \/ \E j \in 1..Len(control_frames') : control_frames'[j] = "ok"
    <3>1. CASE i = 1
      BY <2>2, <2>4, <3>1
    <3>2. CASE i # 1
      <4>1. i - 1 \in 1..Len(control_frames') /\ control_frames'[i - 1] = "ok"
        BY <2>3, <2>4, <3>2 DEF TypeOK
      <4> QED BY <4>1
    <3> QED BY <3>1, <3>2
  <2>5. Len(control_frames') <= MaxControlFrames
    BY <2>3, NormalAssumption DEF TypeOK
  <2>6. NextFrame \notin Topics
    BY <2>2, NoControlTopic
  <2>7. pending_frame # "ok"
    BY <1>2
  <2> QED
    BY <2>2, <2>3, <2>4, <2>5, <2>6, <2>7
<1> QED BY <1>1, <1>2

-----------------------------------------------------------------------------
\* The constructor's state.
LEMMA InitIInv == Init => IInv
<1> SUFFICES ASSUME Init PROVE IInv
  OBVIOUS
<1>1. TypeOK
  <2>1. <<>> \in Seq(Control) /\ <<>> \in Seq(SUBSET Topics) /\ Len(<<>>) = 0
    OBVIOUS
  <2>2. 0 <= MaxControlFrames
    BY NormalAssumption
  <2>3. /\ Len(control_frames) <= MaxControlFrames
        /\ Len(due) = Len(topics_of)
        /\ consume_record \in 0..Len(topics_of)
        /\ record \in 0..Len(topics_of)
    BY <2>1, <2>2 DEF Init
  <2> QED BY <2>1, <2>3, Zenon DEF Init, TypeOK
<1>2. pending_frame \notin Topics
  BY NoControlTopic DEF Init
<1> QED
  BY <1>1, <1>2 DEF Init, IInv, AnswerInv, KilledInv

\* The steps of the reading thread
LEMMA ReaderIInv == IInv /\ Reader => IInv'
<1> SUFFICES ASSUME IInv, Reader PROVE IInv'
  OBVIOUS
<1>0. TypeOK
  BY DEF IInv
<1> USE DEF output, connection, records, writing
<1>1. ASSUME NEW frame \in Control, NEW next, Enqueue(frame, next),
             next \in {"refreshing", "reading", "answered"},
             next = "answered" => frame = "ok",
             UNCHANGED <<pending_frame, connection, socket, records, writing,
                         release, answered>>
      PROVE  IInv'
  <2>1. TypeOK'
    BY <1>0, <1>1, Enqueued DEF TypeOK
  <2>2. OkSent => OkSent'
    BY <1>0, <1>1, Enqueued DEF OkSent
  <2>3. reader' = "answered" => OkSent'
    BY <1>0, <1>1, Enqueued DEF OkSent
  <2>4. reader' # "ended"
    BY <1>0, <1>1, Enqueued
  <2> QED
    BY <1>1, <2>1, <2>2, <2>3, <2>4 DEF IInv, AnswerInv, KilledInv
<1>2. CASE ReadPing
  BY <1>1, <1>2 DEF ReadPing, Control
<1>3. CASE RefuseSubscription
  BY <1>1, <1>3 DEF RefuseSubscription, Control
<1>4. CASE RecordGone
  BY <1>1, <1>4 DEF RecordGone, Control
<1>5. CASE AnswerSubscription
  BY <1>1, <1>5 DEF AnswerSubscription, Control
<1>6. CASE Subscribes
  <2>1. PICK topics \in SUBSET Topics : CreateNewRecord(topics)
    BY <1>6 DEF Subscribes
  <2>2. TypeOK'
    BY <1>0, <2>1, NormalAssumption DEF CreateNewRecord, TypeOK
  <2> QED
    BY <2>1, <2>2 DEF CreateNewRecord, IInv, AnswerInv, KilledInv, OkSent
<1>7. CASE StartReceiving \/ ReadOther \/ LeaveReading \/ ReaderCloses
  <2>1. /\ reader' \in {"receiving", "reading", "ending", "closed"}
        /\ connection_alived' \in BOOLEAN
        /\ socket' \in {"open", "broken"}
        /\ UNCHANGED <<output, subscribed, exists, heartbeat, records, writing,
                       release, answered>>
    BY <1>0, <1>7 DEF StartReceiving, ReadOther, LeaveReading, ReaderCloses,
       TypeOK
  <2>2. TypeOK'
    BY <1>0, <2>1 DEF TypeOK
  <2>3. OkSent' = OkSent
    BY <2>1 DEF OkSent
  <2> QED
    BY <2>1, <2>2, <2>3 DEF IInv, AnswerInv, KilledInv
<1>8. CASE RefreshKeepAlive \/ ReaderEnds
  BY <1>8 DEF RefreshKeepAlive, ReaderEnds, KillAlive, IInv, TypeOK, AnswerInv,
     KilledInv, OkSent
<1>9. CASE PutSubscribed
  BY <1>9 DEF PutSubscribed, IInv, TypeOK, AnswerInv, KilledInv, OkSent
<1> QED
  BY <1>2, <1>3, <1>4, <1>5, <1>6, <1>7, <1>8, <1>9 DEF Reader

\* Nothing that the answer depends on is touched.
LEMMA SameAnswer ==
    ASSUME IInv, TypeOK',
           UNCHANGED <<output, reader, record, to_deliver, answered>>,
           subscribed' => subscribed,
           writer' \in {"checking", "looking", "flushing", "ending", "killed",
                        "ended"} \/ writer' = writer,
           writer' = writer \/ to_deliver = {},
           exists' => exists,
           heartbeat' = heartbeat \/ heartbeat' = "killed"
    PROVE  IInv'
<1>1. OkSent' = OkSent
  BY DEF OkSent, output
<1> QED
  BY <1>1 DEF IInv, AnswerInv, KilledInv, output

\* The steps of the writing thread
LEMMA WriterIInv == IInv /\ Writer => IInv'
<1> SUFFICES ASSUME IInv, Writer PROVE IInv'
  OBVIOUS
<1>0. TypeOK
  BY DEF IInv
<1> USE DEF output, connection, records, writing
<1>1. CASE Check \/ PassDone \/ WriterKills \/ WriterEnds
  <2>1. TypeOK'
    BY <1>0, <1>1 DEF Check, PassDone, WriterKills, WriterEnds, KillAlive,
       TypeOK
  <2>2. writer # "delivering" => to_deliver = {}
    BY DEF IInv, AnswerInv
  <2> QED
    BY <1>1, <2>1, <2>2, SameAnswer
       DEF Check, PassDone, WriterKills, WriterEnds, KillAlive
<1>2. CASE LookUp
  <2>1. TypeOK'
    BY <1>0, <1>2 DEF LookUp, TypeOK
  <2>2. OkSent' = OkSent
    BY <1>2 DEF LookUp, OkSent
  <2> QED
    BY <1>2, <2>1, <2>2 DEF LookUp, IInv, AnswerInv, KilledInv
<1>3. CASE GetRecord
  <2>1. TypeOK'
    BY <1>0, <1>3 DEF GetRecord, TypeOK
  <2>2. OkSent' = OkSent /\ OkSent
    BY <1>3 DEF GetRecord, OkSent, IInv, AnswerInv
  <2>3. pending_frame \in Topics => record' # 0
    BY <1>3 DEF GetRecord, IInv, AnswerInv
  <2> QED
    BY <1>3, <2>1, <2>2, <2>3 DEF GetRecord, IInv, AnswerInv, KilledInv
<1>4. CASE FlushIdle
  <2>1. TypeOK'
    BY <1>0, <1>4 DEF FlushIdle, TypeOK
  <2>2. OkSent' = OkSent
    BY <1>4 DEF FlushIdle, OkSent
  <2>3. control_frames = <<>> /\ pending_frame = "none"
    BY <1>4 DEF FlushIdle, HasOutput
  <2>4. OkSent => answered
    BY <2>3 DEF OkSent
  <2> QED
    BY <1>4, <2>1, <2>2, <2>4 DEF FlushIdle, IInv, AnswerInv, KilledInv
<1>5. CASE Poll
  <2>1. TypeOK'
    BY <1>0, <1>5 DEF Poll, TypeOK
  <2>2. OkSent' = OkSent
    BY <1>5 DEF Poll, OkSent
  <2> QED
    BY <1>5, <2>1, <2>2 DEF Poll, IInv, AnswerInv, KilledInv
<1>6. ASSUME NEW t \in Topics, DeliverNothing(t) PROVE IInv'
  <2>1. TypeOK'
    BY <1>0, <1>6 DEF DeliverNothing, TypeOK
  <2>2. OkSent' = OkSent
    BY <1>6 DEF DeliverNothing, OkSent
  <2> QED
    BY <1>6, <2>1, <2>2 DEF DeliverNothing, IInv, AnswerInv, KilledInv
<1>7. ASSUME NEW t \in Topics, DeliverComplete(t) PROVE IInv'
  <2>1. TypeOK'
    <3>1. due' \in Seq(SUBSET Topics) /\ Len(due') = Len(due)
      <4>1. due' = [due EXCEPT ![record] = @ \ {t}]
        BY <1>7 DEF DeliverComplete, Advance
      <4>2. due \in Seq(SUBSET Topics) /\ record \in 1..Len(due)
        BY <1>0, <1>7 DEF DeliverComplete, TypeOK, IInv, AnswerInv
      <4> QED BY <4>1, <4>2
    <3>2. to_deliver' \subseteq Topics
      BY <1>0, <1>7 DEF DeliverComplete, TypeOK
    <3> QED
      BY <1>0, <1>7, <3>1, <3>2 DEF DeliverComplete, TypeOK
  <2>2. OkSent' = OkSent
    BY <1>7 DEF DeliverComplete, OkSent
  <2> QED
    BY <1>7, <2>1, <2>2 DEF DeliverComplete, IInv, AnswerInv, KilledInv
<1>8. ASSUME NEW t \in Topics, DeliverBlocks(t) PROVE IInv'
  <2>1. TypeOK'
    BY <1>0, <1>8 DEF DeliverBlocks, TypeOK
  <2>2. answered /\ answered' /\ OkSent'
    BY <1>8 DEF DeliverBlocks, OkSent, IInv, AnswerInv
  <2> QED
    BY <1>8, <2>1, <2>2 DEF DeliverBlocks, IInv, AnswerInv, KilledInv
<1>9. ASSUME NEW t \in Topics, DeliverDisconnect(t) PROVE IInv'
  <2>1. TypeOK'
    BY <1>0, <1>9 DEF DeliverDisconnect, TypeOK
  <2>2. OkSent' = OkSent
    BY <1>9 DEF DeliverDisconnect, OkSent
  <2> QED
    BY <1>9, <2>1, <2>2 DEF DeliverDisconnect, IInv, AnswerInv, KilledInv
<1>10. CASE FlushComplete
  <2>1. HasOutput /\ TakeFrame /\ answered' = (answered \/ NextFrame = "ok")
    BY <1>10 DEF FlushComplete
  <2>2. due' \in Seq(SUBSET Topics) /\ Len(due') = Len(due)
    <3>1. CASE NextFrame \notin Topics
      BY <1>0, <1>10, <3>1 DEF FlushComplete, TypeOK
    <3>2. CASE NextFrame \in Topics
      BY <1>0, <1>10, <3>2 DEF FlushComplete, Advance, TypeOK
    <3> QED BY <3>1, <3>2
  <2>3. TypeOK'
    BY <1>0, <1>10, <2>1, <2>2, Taken DEF FlushComplete, TypeOK
  <2>4. OkSent => OkSent'
    BY <1>0, <1>10, <2>1, Taken DEF OkSent
  <2>5. pending_frame' \notin Topics
    BY <1>10, NoControlTopic DEF FlushComplete
  <2> QED
    BY <1>10, <2>3, <2>4, <2>5 DEF FlushComplete, IInv, AnswerInv, KilledInv
<1>11. CASE FlushBlocks \/ FlushError
  <2>1. /\ HasOutput /\ TakeFrame /\ pending_frame' = NextFrame
        /\ writer' \in {"checking", "ending"} /\ writer = "flushing"
        /\ UNCHANGED <<connection, socket, records, reader, record, to_deliver,
                       release, answered>>
    BY <1>11 DEF FlushBlocks, FlushError
  <2>2. TypeOK'
    BY <1>0, <2>1, Taken DEF TypeOK
  <2>3. OkSent => OkSent'
    BY <1>0, <2>1, Taken DEF OkSent
  <2>4. pending_frame' \in Topics => pending_frame \in Topics
    BY <1>0, <2>1, Taken
  <2> QED
    BY <2>1, <2>2, <2>3, <2>4 DEF IInv, AnswerInv, KilledInv
<1> QED
  BY <1>1, <1>2, <1>3, <1>4, <1>5, <1>6, <1>7, <1>8, <1>9, <1>10, <1>11
     DEF Writer, Deliver

\* The steps of the alive detection, the peer and the publishers
LEMMA OthersIInv ==
    IInv /\ (AliveDetection \/ SocketBreaks \/ \E t \in Topics : Publish(t))
        => IInv'
<1> SUFFICES ASSUME IInv,
                    AliveDetection \/ SocketBreaks \/ \E t \in Topics : Publish(t)
             PROVE  IInv'
  OBVIOUS
<1>0. TypeOK
  BY DEF IInv
<1> USE DEF output, connection, records, writing
<1>1. CASE AliveDetection
  <2>1. TypeOK'
    <3>1. CASE Expire
      BY <1>0, <3>1 DEF Expire, TypeOK
    <3>2. CASE RemoveRecord
      <4>1. 0 \in 0..Len(topics_of)
        BY <1>0 DEF TypeOK
      <4> QED BY <1>0, <3>2, <4>1 DEF RemoveRecord, TypeOK
    <3>3. CASE RemoveSubscribed
      <4>1. subscribed' \in BOOLEAN /\ exists' \in BOOLEAN
        BY <3>3 DEF RemoveSubscribed
      <4>2. release' = "released"
        BY <3>3 DEF RemoveSubscribed
      <4> QED BY <1>0, <3>3, <4>1, <4>2 DEF RemoveSubscribed, TypeOK
    <3> QED BY <1>1, <3>1, <3>2, <3>3 DEF AliveDetection
  <2> QED
    BY <1>1, <2>1, SameAnswer
       DEF AliveDetection, Expire, RemoveRecord, RemoveSubscribed
<1>2. CASE SocketBreaks
  <2>1. TypeOK'
    BY <1>0, <1>2 DEF SocketBreaks, TypeOK
  <2> QED
    BY <1>2, <2>1, SameAnswer DEF SocketBreaks
<1>3. ASSUME NEW t \in Topics, Publish(t) PROVE IInv'
  <2>1. due' \in Seq(SUBSET Topics) /\ Len(due') = Len(due)
    BY <1>0, <1>3 DEF Publish, TypeOK
  <2>2. TypeOK'
    BY <1>0, <1>3, <2>1 DEF Publish, TypeOK
  <2> QED
    BY <1>3, <2>2, SameAnswer DEF Publish
<1> QED BY <1>1, <1>2, <1>3

-----------------------------------------------------------------------------
\* The reader, the writer and the alive detection keep the inductive invariant,
\* whatever the topics, the subscriptions and the limit of the control queue.
THEOREM Invariance == Spec => []IInv
<1>1. IInv /\ [Next]_vars => IInv'
  <2> SUFFICES ASSUME IInv, [Next]_vars PROVE IInv'
    OBVIOUS
  <2>1. CASE UNCHANGED vars
    <3>1. OkSent' = OkSent
      BY <2>1 DEF vars, OkSent, output
    <3>2. TypeOK'
      BY <2>1 DEF IInv, vars, TypeOK, output, connection, records, writing
    <3> QED
      BY <2>1, <3>1, <3>2
         DEF IInv, vars, AnswerInv, KilledInv, output, connection, records,
             writing
  <2> QED
    BY <2>1, ReaderIInv, WriterIInv, OthersIInv DEF Next
<1> QED
  BY <1>1, InitIInv, PTL DEF Spec

\* The variables keep their types and the control queue its limit.
THEOREM TypeCorrect == Spec => []TypeOK
BY Invariance, PTL DEF IInv

\* enqueueControlFrame before putSubscribed, flushPendingFrame before
\* deliverTopic: no subscriber gets a message before an "ok".
THEOREM AnswerCorrect == Spec => []AnswerPrecedesData
<1>1. IInv => AnswerPrecedesData
  BY DEF IInv, AnswerInv, AnswerPrecedesData
<1> QED
  BY <1>1, Invariance, PTL

\* killAlive against refreshKeepAlive: a connection whose threads have returned
\* has an old heartbeat, so the alive detection frees its place.
THEOREM KillCorrect == Spec => []DeadIsKilled
<1>1. IInv => DeadIsKilled
  BY DEF IInv, KilledInv, DeadIsKilled
<1> QED
  BY <1>1, Invariance, PTL
=============================================================================
