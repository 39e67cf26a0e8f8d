--------------------- MODULE SubscriberEventLoopProofs ---------------------
(***************************************************************************)
(* Proofs of the safety properties of SubscriberEventLoop, for any topics  *)
(* and limits.  NoLostWakeup says something of a sleeping loop only; to    *)
(* keep it, WakeInv follows the loop through its callback: once a flush    *)
(* has found no output, what arrives later brings its own byte, and a      *)
(* callback that started without the consume record, and therefore will    *)
(* not pop, finds only topics that were submitted after it started.        *)
(***************************************************************************)
EXTENDS SubscriberEventLoop, EventLoopWorkerProofs

\* Where the reading thread and the loop are, and what they have to know
StageInv ==
    /\ loop \in {"idle", "popping", "delivering"} => frames < MaxFrames
    /\ loop \in {"delivering", "requeue"} => topic \in Topics
    /\ loop \in {"popping", "delivering", "requeue"} => consumeRecord
    /\ loop \in {"idle", "popping", "delivering", "requeue"}
          => pending_frame = "none"
    /\ pending_frame \in Topics => consumeRecord
    /\ consumeRecord => subscribed # "no"
    /\ reader = "answering" => subscribed = "no"
    /\ reader = "subscribing" => subscribed # "no"
    /\ initial_topic # NoTopic => subscribed # "no"
    /\ subscribed = "no" => topic_connections = {} /\ work_queue = <<>>

WakeInv ==
    /\ NoLostWakeup
    /\ loop \in {"idle", "popping"} /\ control_frames # <<>> => Woken
    /\ loop \in {"callback", "idle"} /\ ~consumeRecord
          /\ work_queue # <<>> /\ subscribed = "yes" /\ release = "live" => Woken

AnswerQueued == \E i \in 1..Len(control_frames) : control_frames[i] = "subscribe"

AnswerInv ==
    /\ subscribed # "no" \/ reader = "answering"
          => answered \/ pending_frame = "subscribe" \/ AnswerQueued
    /\ loop \in {"idle", "popping", "delivering", "requeue"} /\ consumeRecord
          => answered
    /\ pending_frame \in Topics => answered

StopInv ==
    /\ release \in {"cleared", "released"} => ~alive
    /\ detecting_finished => ~alive
    /\ release = "released" \/ detecting_finished
          => loop \in {"drained", "stopping", "stopped"} \/ Readable

IInv ==
    /\ TypeOK
    /\ StatusIsQueue
    /\ OwedIsQueued
    /\ StageInv
    /\ WakeInv
    /\ AnswerInv
    /\ StopInv

-----------------------------------------------------------------------------
\* How a step may change the queue, and how the pipe.
LEMMA QueueStep ==
  ASSUME TypeOK, StageInv, [Next]_vars
  PROVE  \/ \E t \in Topics : Accepts(t) /\ Push(t) /\ owed' = owed \cup {t}
         \/ \E t \in Topics : ~Accepts(t) /\ UNCHANGED queue
                                 /\ owed' = owed \cup {t}
         \/ PopFront /\ owed' = owed \ {Head(work_queue)}
         \/ StopWorker /\ owed' = {}
         \/ UNCHANGED queue /\ UNCHANGED owed
<1> DEFINE Goal ==
       \/ \E t \in Topics : Accepts(t) /\ Push(t) /\ owed' = owed \cup {t}
       \/ \E t \in Topics : ~Accepts(t) /\ UNCHANGED queue
                               /\ owed' = owed \cup {t}
       \/ PopFront /\ owed' = owed \ {Head(work_queue)}
       \/ StopWorker /\ owed' = {}
       \/ UNCHANGED queue /\ UNCHANGED owed
<1>1. CASE SubmitInitial
  <2>1. initial_topic \in Topics
    BY <1>1 DEF SubmitInitial, TypeOK
  <2> QED
    BY <1>1, <2>1 DEF SubmitInitial, SubmitWork, SubmitRefused
<1>2. ASSUME NEW t \in Topics, DispatchMessage(t) PROVE Goal
  BY <1>2 DEF DispatchMessage, SubmitWork, SubmitRefused
<1>3. CASE PopWork
  BY <1>3 DEF PopWork
<1>4. CASE Stop \/ Disconnect
  BY <1>4 DEF Stop, Disconnect
<1>5. CASE Requeue
  <2>1. topic \in Topics
    BY <1>5 DEF Requeue, StageInv
  <2> QED
    BY <1>5, <2>1 DEF Requeue
<1>6. CASE \/ ReadPing \/ ReadSubscribe \/ PutSubscribed \/ SubscribedAll
           \/ \E t \in Topics : PutTopicConnection(t)
           \/ ReaderEnds
  BY <1>6 DEF ReadPing, ReadSubscribe, PutSubscribed, SubscribedAll,
     PutTopicConnection, ReaderEnds, worker, queue
<1>7. CASE \/ Drain \/ Process \/ WriteCallback \/ EnterDead \/ Enter
           \/ FlushComplete \/ FlushBlocks \/ FlushIdle \/ NotSubscribed
           \/ MayPop \/ PopNothing \/ DeliverNothing \/ DeliverComplete
           \/ DeliverBlocks \/ Yield \/ NotifySelf
  BY <1>7 DEF Drain, Process, WriteCallback, EnterDead, Enter, FlushComplete,
     FlushBlocks, FlushIdle, NotSubscribed, MayPop, PopNothing, DeliverNothing,
     DeliverComplete, DeliverBlocks, Yield, NotifySelf, Return, worker, queue
<1>8. CASE \/ Detect \/ Release
           \/ \E h \in {"reader", "dispatcher"} : NotifyStartWork(h)
  BY <1>8 DEF Detect, Release, RemoveRecord, RemoveSubscribed, ClearAlive,
     NotifyStopWork, NotifyStartWork, worker, queue
<1>9. CASE UNCHANGED vars
  BY <1>9 DEF vars, worker, queue
<1> HIDE DEF Goal
<1>10. Goal
  BY <1>1, <1>2, <1>3, <1>4, <1>5, <1>6, <1>7, <1>8, <1>9
  DEF Next, Reader, Callback, Goal
<1> QED
  BY <1>10 DEF Goal

\* How a step may change the pipe of the worker.
LEMMA PipeStep ==
  ASSUME [Next]_vars
  PROVE  \/ WriteStart /\ stops' = stops
         \/ WriteStop /\ starts' = starts
         \/ DrainPipe /\ loop = "waiting" /\ loop' \in {"drained", "stopping"}
         \/ UNCHANGED pipe
<1>1. CASE Reader \/ \E t \in Topics : DispatchMessage(t)
  BY <1>1 DEF Reader, ReadPing, ReadSubscribe, PutSubscribed, SubscribedAll,
     PutTopicConnection, SubmitInitial, ReaderEnds, DispatchMessage, worker, pipe
<1>2. CASE Drain
  BY <1>2 DEF Drain
<1>3. CASE NotifySelf \/ \E h \in {"reader", "dispatcher"} : NotifyStartWork(h)
  BY <1>3 DEF NotifySelf, NotifyStartWork
<1>4. CASE \/ Stop \/ Process \/ WriteCallback \/ EnterDead \/ Enter
           \/ FlushComplete \/ FlushBlocks \/ FlushIdle \/ NotSubscribed
           \/ MayPop \/ PopNothing \/ PopWork \/ DeliverNothing
           \/ DeliverComplete \/ DeliverBlocks \/ Disconnect \/ Requeue \/ Yield
  BY <1>4 DEF Stop, Process, WriteCallback, EnterDead, Enter, FlushComplete,
     FlushBlocks, FlushIdle, NotSubscribed, MayPop, PopNothing, PopWork,
     DeliverNothing, DeliverComplete, DeliverBlocks, Disconnect, Requeue,
     Yield, Return, worker, pipe
<1>5. CASE Detect \/ Release
  BY <1>5 DEF Detect, Release, RemoveRecord, RemoveSubscribed, ClearAlive,
     NotifyStopWork, worker, pipe
<1>6. CASE UNCHANGED vars
  BY <1>6 DEF vars, worker, pipe
<1> QED
  BY <1>1, <1>2, <1>3, <1>4, <1>5, <1>6 DEF Next, Callback

\* Every step keeps the queue's types, and status and queue in agreement.
LEMMA QueueInv ==
  ASSUME TypeOK, StageInv, StatusIsQueue, OwedIsQueued, [Next]_vars
  PROVE  /\ QueueTypeOK' /\ StatusIsQueue' /\ OwedIsQueued'
         /\ owed' \subseteq Topics
<1>0. QueueTypeOK /\ owed \subseteq Topics /\ DisableDuplicates
  BY WorkerTypes, OutputAssumption DEF TypeOK
<1>1. ASSUME NEW t \in Topics, Accepts(t), Push(t), owed' = owed \cup {t}
      PROVE  /\ QueueTypeOK' /\ StatusIsQueue' /\ OwedIsQueued'
             /\ owed' \subseteq Topics
  <2>1. QueueTypeOK' /\ \A u \in Topics : Queued(u)' <=> Queued(u) \/ u = t
    BY <1>0, <1>1, PushQueue
  <2>2. StatusIsQueue'
    BY <1>0, <1>1, PushStatus
  <2> QED
    BY <1>0, <1>1, <2>1, <2>2 DEF OwedIsQueued
<1>2. ASSUME NEW t \in Topics, ~Accepts(t), UNCHANGED queue,
             owed' = owed \cup {t}
      PROVE  /\ QueueTypeOK' /\ StatusIsQueue' /\ OwedIsQueued'
             /\ owed' \subseteq Topics
  <2>1. Queued(t)
    BY <1>0, <1>2 DEF Accepts, StatusIsQueue
  <2> QED
    BY <1>0, <1>2, <2>1, SameQueue DEF OwedIsQueued
<1>3. CASE PopFront /\ owed' = owed \ {Head(work_queue)}
  <2>1. /\ QueueTypeOK'
        /\ \A u \in Topics : Queued(u) /\ u # Head(work_queue) => Queued(u)'
    BY <1>0, <1>3, PopQueue
  <2>2. StatusIsQueue'
    BY <1>0, <1>3, PopStatus
  <2> QED
    BY <1>0, <1>3, <2>1, <2>2 DEF OwedIsQueued
<1>4. CASE StopWorker /\ owed' = {}
  BY <1>4, StopQueue DEF OwedIsQueued
<1>5. CASE UNCHANGED queue /\ UNCHANGED owed
  BY <1>0, <1>5, SameQueue DEF OwedIsQueued
<1> QED
  BY <1>1, <1>2, <1>3, <1>4, <1>5, QueueStep

\* Every step keeps the types of the pipe, and only the loop, when it wakes,
\* empties it.
LEMMA PipeInv ==
  ASSUME TypeOK, [Next]_vars
  PROVE  /\ PipeTypeOK'
         /\ \/ Readable => Readable'
            \/ loop = "waiting" /\ loop' \in {"drained", "stopping"}
  BY PipeStep, WorkerTypes, StartWritten, StopWritten, PipeDrained, SamePipe
  DEF TypeOK

-----------------------------------------------------------------------------
\* What is in the control queue after an answer is queued, and after a frame
\* is taken.
LEMMA ControlPush ==
  ASSUME control_frames \in Seq(Control), NEW f \in Control,
         control_frames' = Append(control_frames, f)
  PROVE  /\ control_frames' \in Seq(Control)
         /\ Len(control_frames) \in Nat
         /\ Len(control_frames') = Len(control_frames) + 1
         /\ AnswerQueued \/ f = "subscribe" => AnswerQueued'
<1>1. /\ control_frames' \in Seq(Control)
      /\ Len(control_frames) \in Nat
      /\ Len(control_frames') = Len(control_frames) + 1
      /\ \A i \in 1..Len(control_frames) : control_frames'[i] = control_frames[i]
      /\ control_frames'[Len(control_frames) + 1] = f
  OBVIOUS
<1> QED
  BY <1>1 DEF AnswerQueued

\* flushPendingFrame: what is left in the control queue.
LEMMA ControlTake ==
  ASSUME control_frames \in Seq(Control), pending_frame \in Frame,
         HasOutput, TakeFrame
  PROVE  /\ control_frames' \in Seq(Control)
         /\ Len(control_frames) \in Nat
         /\ Len(control_frames') \in Nat
         /\ Len(control_frames') <= Len(control_frames)
         /\ NextFrame \in Frame \ {"none"}
         /\ AnswerQueued => AnswerQueued' \/ NextFrame = "subscribe"
         /\ NextFrame \in Topics => NextFrame = pending_frame
<1>1. CASE pending_frame # "none"
  BY <1>1, OutputAssumption DEF TakeFrame, NextFrame, AnswerQueued, Frame
<1>2. CASE pending_frame = "none"
  <2>1. /\ control_frames # <<>> /\ control_frames' = Tail(control_frames)
        /\ NextFrame = Head(control_frames)
    BY <1>2 DEF HasOutput, TakeFrame, NextFrame
  <2>2. /\ control_frames' \in Seq(Control)
        /\ NextFrame \in Control /\ NextFrame = control_frames[1]
        /\ Len(control_frames) \in Nat \ {0}
        /\ Len(control_frames') = Len(control_frames) - 1
        /\ \A i \in 1..Len(control_frames) - 1 :
              control_frames'[i] = control_frames[i + 1]
    BY <2>1
  <2>3. ASSUME NEW i \in 1..Len(control_frames),
               control_frames[i] = "subscribe", NextFrame # "subscribe"
        PROVE  AnswerQueued'
    <3>1. /\ i - 1 \in 1..Len(control_frames')
          /\ control_frames'[i - 1] = "subscribe"
      BY <2>2, <2>3
    <3> QED
      BY <3>1 DEF AnswerQueued
  <2>4. AnswerQueued => AnswerQueued' \/ NextFrame = "subscribe"
    BY <2>3 DEF AnswerQueued
  <2>5. NextFrame \in Frame \ {"none"} /\ NextFrame \notin Topics
    BY <2>2, OutputAssumption DEF Frame, Control
  <2> QED
    BY <2>2, <2>4, <2>5
<1> QED
  BY <1>1, <1>2

\* TypeOK without the worker
RestTypeOK ==
    /\ control_frames \in Seq(Control)
    /\ Len(control_frames) <= MaxControlFrames
    /\ pending_frame \in Frame
    /\ consumeRecord \in BOOLEAN
    /\ subscribed \in {"no", "yes", "removed"}
    /\ topic_connections \subseteq Topics
    /\ alive \in BOOLEAN
    /\ release \in {"live", "unrecorded", "unsubscribed", "cleared", "released"}
    /\ detecting_finished \in BOOLEAN
    /\ reader \in {"reading", "answering", "subscribing", "ended"}
    /\ to_subscribe \subseteq Topics
    /\ initial_topic \in Topics \cup {NoTopic}
    /\ notifying \subseteq {"reader", "dispatcher"}
    /\ loop \in {"waiting", "drained", "stopping", "entering", "callback",
                 "idle", "popping", "delivering", "requeue", "yielding",
                 "stopped"}
    /\ topic \in Topics \cup {NoTopic}
    /\ frames \in 0..MaxFrames
    /\ answered \in BOOLEAN

\* The type invariant: the worker's part and the rest.
LEMMA Types ==
  TypeOK <=> /\ QueueTypeOK /\ PipeTypeOK /\ write_event_enabled \in BOOLEAN
             /\ RestTypeOK /\ owed \subseteq Topics
  BY WorkerTypes DEF TypeOK, RestTypeOK

\* Every step keeps the types of the variables that are not the worker's, the
\* limit of frames of a callback and that of the control queue included.
LEMMA RestStep ==
  ASSUME TypeOK, StageInv, [Next]_vars
  PROVE  RestTypeOK' /\ write_event_enabled' \in BOOLEAN
<1>0. RestTypeOK /\ QueueTypeOK /\ write_event_enabled \in BOOLEAN
  BY Types
<1> USE OutputAssumption DEF worker, queue, pipe, output, subscription, reading,
        ending, looping, RestTypeOK
<1>1. CASE ReadPing \/ ReadSubscribe
  <2>1. PICK f \in Control : EnqueueControlFrame(f)
    BY <1>1 DEF ReadPing, ReadSubscribe, Control
  <2>2. /\ control_frames' \in Seq(Control)
        /\ Len(control_frames') <= MaxControlFrames
        /\ notifying' \subseteq {"reader", "dispatcher"}
    BY <1>0, <2>1, ControlPush DEF EnqueueControlFrame
  <2> QED
    BY <1>0, <1>1, <2>2 DEF ReadPing, ReadSubscribe
<1>2. CASE PutSubscribed \/ SubscribedAll \/ ReaderEnds
  <2>1. CASE PutSubscribed
    BY <1>0, <2>1 DEF PutSubscribed
  <2>2. CASE SubscribedAll
    BY <1>0, <2>2 DEF SubscribedAll
  <2>3. CASE ReaderEnds
    <3>1. alive' \in BOOLEAN
      BY <2>3 DEF ReaderEnds
    <3> QED
      BY <1>0, <2>3, <3>1 DEF ReaderEnds
  <2> QED
    BY <1>2, <2>1, <2>2, <2>3
<1>3. ASSUME NEW t \in Topics, PutTopicConnection(t)
      PROVE  RestTypeOK' /\ write_event_enabled' \in BOOLEAN
  BY <1>0, <1>3 DEF PutTopicConnection
<1>4. CASE SubmitInitial
  <2>1. notifying' \subseteq {"reader", "dispatcher"}
    BY <1>0, <1>4 DEF SubmitInitial, SubmitWork, SubmitRefused
  <2>2. /\ UNCHANGED <<write_event_enabled, output, subscription, alive, ending,
                       reader, to_subscribe, loop, looping>>
        /\ initial_topic' = NoTopic
    BY <1>4 DEF SubmitInitial
  <2> QED
    BY <1>0, <2>1, <2>2
<1>5. ASSUME NEW t \in Topics, DispatchMessage(t)
      PROVE  RestTypeOK' /\ write_event_enabled' \in BOOLEAN
  <2>1. notifying' \subseteq {"reader", "dispatcher"}
    BY <1>0, <1>5 DEF DispatchMessage, SubmitWork, SubmitRefused
  <2>2. UNCHANGED <<write_event_enabled, output, subscription, alive, ending,
                    reading, loop, looping>>
    BY <1>5 DEF DispatchMessage
  <2> QED
    BY <1>0, <2>1, <2>2
<1>6. ASSUME NEW h \in {"reader", "dispatcher"}, NotifyStartWork(h)
      PROVE  RestTypeOK' /\ write_event_enabled' \in BOOLEAN
  BY <1>0, <1>6 DEF NotifyStartWork
<1>7. CASE Drain \/ Process \/ WriteCallback \/ EnterDead
  <2>1. /\ UNCHANGED <<output, subscription, alive, ending, reading, notifying,
                       looping>>
        /\ loop' \in {"drained", "stopping", "entering", "waiting"}
    BY <1>7 DEF Drain, Process, WriteCallback, EnterDead, Return
  <2>2. write_event_enabled' \in BOOLEAN
    BY <1>0, <1>7 DEF Drain, Process, WriteCallback, EnterDead, Return
  <2> QED
    BY <1>0, <2>1, <2>2
<1>8. CASE Stop
  <2>1. /\ UNCHANGED <<output, subscription, alive, ending, reading, notifying,
                       looping>>
        /\ loop' = "stopped"
    BY <1>8 DEF Stop
  <2>2. write_event_enabled' \in BOOLEAN
    BY <1>8, StopQueue DEF Stop
  <2> QED
    BY <1>0, <2>1, <2>2
<1>9. CASE Enter
  BY <1>0, <1>9 DEF Enter
<1>10. CASE FlushComplete
  <2>1. /\ control_frames' \in Seq(Control)
        /\ Len(control_frames') <= MaxControlFrames
    BY <1>0, <1>10, ControlTake DEF FlushComplete
  <2>2. frames' \in 0..MaxFrames
    BY <1>0, <1>10 DEF FlushComplete, FlushStarts
  <2>3. answered' \in BOOLEAN
    BY <1>10 DEF FlushComplete
  <2>4. /\ topic' \in Topics \cup {NoTopic}
        /\ loop' \in {"callback", "requeue"}
        /\ pending_frame' = "none"
    BY <1>0, <1>10 DEF FlushComplete, FlushStarts
  <2>5. UNCHANGED <<worker, subscription, alive, ending, reading, notifying,
                    consumeRecord>>
    BY <1>10 DEF FlushComplete
  <2> QED
    BY <1>0, <2>1, <2>2, <2>3, <2>4, <2>5 DEF Frame
<1>11. CASE FlushBlocks
  <2>1. /\ control_frames' \in Seq(Control)
        /\ Len(control_frames') <= MaxControlFrames
        /\ pending_frame' \in Frame
    BY <1>0, <1>11, ControlTake DEF FlushBlocks, BlockOn
  <2>2. write_event_enabled' \in BOOLEAN
    BY <1>11 DEF FlushBlocks, BlockOn
  <2> QED
    BY <1>0, <1>11, <2>1, <2>2 DEF FlushBlocks, BlockOn
<1>12. CASE FlushIdle \/ NotSubscribed \/ MayPop \/ PopNothing
  <2>1. /\ UNCHANGED <<output, subscription, alive, ending, reading, notifying,
                       looping>>
        /\ loop' \in {"idle", "popping", "waiting"}
    BY <1>12 DEF FlushIdle, NotSubscribed, MayPop, PopNothing, Return
  <2>2. write_event_enabled' \in BOOLEAN
    BY <1>0, <1>12 DEF FlushIdle, NotSubscribed, MayPop, PopNothing, Return
  <2> QED
    BY <1>0, <2>1, <2>2
<1>13. CASE PopWork
  <2>1. Head(work_queue) \in Topics
    BY <1>0, <1>13, PopQueue DEF PopWork
  <2> QED
    BY <1>0, <1>13, <2>1 DEF PopWork
<1>14. CASE DeliverNothing \/ Requeue \/ Yield \/ NotifySelf
  <2>1. /\ UNCHANGED <<output, subscription, alive, ending, reading, notifying,
                       looping>>
        /\ loop' \in {"callback", "yielding", "waiting"}
    BY <1>14 DEF DeliverNothing, Requeue, Yield, NotifySelf
  <2>2. write_event_enabled' \in BOOLEAN
    BY <1>0, <1>14 DEF DeliverNothing, Requeue, Yield, NotifySelf
  <2> QED
    BY <1>0, <2>1, <2>2
<1>15. CASE DeliverComplete
  BY <1>0, <1>15 DEF DeliverComplete, StageInv
<1>16. CASE DeliverBlocks
  <2>1. topic \in Topics
    BY <1>16 DEF DeliverBlocks, StageInv
  <2>2. write_event_enabled' \in BOOLEAN
    BY <1>16 DEF DeliverBlocks, BlockOn
  <2> QED
    BY <1>0, <1>16, <2>1, <2>2 DEF DeliverBlocks, BlockOn, Frame
<1>17. CASE Disconnect
  <2>1. write_event_enabled' \in BOOLEAN /\ alive' \in BOOLEAN
    BY <1>17 DEF Disconnect, StopWorker
  <2> QED
    BY <1>0, <1>17, <2>1 DEF Disconnect, EraseSubscribed
<1>18. CASE Detect
  BY <1>0, <1>18 DEF Detect
<1>19. CASE Release
  <2>1. /\ UNCHANGED <<write_event_enabled, output, detecting_finished, reading,
                       notifying, loop, looping>>
        /\ release' \in {"unrecorded", "unsubscribed", "cleared", "released"}
        /\ topic_connections' \subseteq Topics
    BY <1>0, <1>19 DEF Release, RemoveRecord, RemoveSubscribed, ClearAlive,
       NotifyStopWork
  <2>2. subscribed' \in {"no", "yes", "removed"}
    BY <1>0, <1>19 DEF Release, RemoveRecord, RemoveSubscribed,
       EraseSubscribed, ClearAlive, NotifyStopWork
  <2>3. alive' \in BOOLEAN
    BY <1>0, <1>19 DEF Release, RemoveRecord, RemoveSubscribed, ClearAlive,
       NotifyStopWork
  <2> QED
    BY <1>0, <2>1, <2>2, <2>3
<1>20. CASE UNCHANGED vars
  BY <1>0, <1>20 DEF vars
<1> QED
  BY <1>1, <1>2, <1>3, <1>4, <1>5, <1>6, <1>7, <1>8, <1>9, <1>10, <1>11,
     <1>12, <1>13, <1>14, <1>15, <1>16, <1>17, <1>18, <1>19, <1>20
  DEF Next, Reader, Callback

-----------------------------------------------------------------------------
\* Every step keeps what the place of each thread says about the state.
LEMMA StageStep ==
  ASSUME TypeOK, StageInv, [Next]_vars
  PROVE  StageInv'
<1>0. RestTypeOK /\ QueueTypeOK
  BY Types
<1> USE OutputAssumption DEF worker, queue, pipe, output, subscription, reading,
        ending, looping, StageInv
<1>1. CASE ReadPing \/ ReadSubscribe
  BY <1>1 DEF ReadPing, ReadSubscribe
<1>2. CASE PutSubscribed \/ SubscribedAll \/ ReaderEnds
  BY <1>2 DEF PutSubscribed, SubscribedAll, ReaderEnds
<1>3. ASSUME NEW t \in Topics, PutTopicConnection(t) PROVE StageInv'
  BY <1>3 DEF PutTopicConnection
<1>4. CASE SubmitInitial
  BY <1>4 DEF SubmitInitial
<1>5. ASSUME NEW t \in Topics, DispatchMessage(t) PROVE StageInv'
  BY <1>5 DEF DispatchMessage
<1>6. ASSUME NEW h \in {"reader", "dispatcher"}, NotifyStartWork(h)
      PROVE  StageInv'
  BY <1>6 DEF NotifyStartWork
<1>7. CASE Drain \/ Process \/ WriteCallback \/ EnterDead
  BY <1>7 DEF Drain, Process, WriteCallback, EnterDead, Return
<1>8. CASE Stop
  BY <1>8 DEF Stop, StopWorker
<1>9. CASE Enter
  BY <1>0, <1>9 DEF Enter, RestTypeOK
<1>10. CASE FlushComplete
  <2>1. NextFrame \in Topics => consumeRecord
    BY <1>0, <1>10, ControlTake DEF FlushComplete, RestTypeOK
  <2>2. /\ pending_frame' = "none"
        /\ loop' \in {"callback", "requeue"}
        /\ loop' = "requeue" => NextFrame \in Topics /\ topic' \in Topics
    BY <1>10 DEF FlushComplete, FlushStarts
  <2>3. UNCHANGED <<worker, subscription, alive, ending, reading, notifying,
                    consumeRecord>>
    BY <1>10 DEF FlushComplete
  <2> QED
    BY <2>1, <2>2, <2>3
<1>11. CASE FlushBlocks
  <2>1. NextFrame \in Topics => consumeRecord
    BY <1>0, <1>11, ControlTake DEF FlushBlocks, RestTypeOK
  <2> QED
    BY <1>11, <2>1 DEF FlushBlocks, BlockOn
<1>12. CASE FlushIdle
  BY <1>12 DEF FlushIdle, FlushStarts, HasOutput
<1>13. CASE NotSubscribed \/ MayPop \/ PopNothing
  BY <1>13 DEF NotSubscribed, MayPop, PopNothing, Return
<1>14. CASE PopWork
  <2>1. Head(work_queue) \in Topics /\ work_queue # <<>>
    BY <1>0, <1>14, PopQueue DEF PopWork, PopFront
  <2> QED
    BY <1>14, <2>1 DEF PopWork
<1>15. CASE DeliverNothing \/ DeliverComplete \/ DeliverBlocks
  BY <1>15 DEF DeliverNothing, DeliverComplete, DeliverBlocks, BlockOn
<1>16. CASE Disconnect
  BY <1>16 DEF Disconnect, StopWorker, EraseSubscribed
<1>17. CASE Requeue
  BY <1>17 DEF Requeue
<1>18. CASE Yield \/ NotifySelf
  BY <1>18 DEF Yield, NotifySelf
<1>19. CASE Detect
  BY <1>19 DEF Detect
<1>20. CASE Release
  BY <1>20 DEF Release, RemoveRecord, RemoveSubscribed, EraseSubscribed,
     ClearAlive, NotifyStopWork
<1>21. CASE UNCHANGED vars
  BY <1>21 DEF vars
<1> QED
  BY <1>1, <1>2, <1>3, <1>4, <1>5, <1>6, <1>7, <1>8, <1>9, <1>10, <1>11,
     <1>12, <1>13, <1>14, <1>15, <1>16, <1>17, <1>18, <1>19, <1>20, <1>21
  DEF Next, Reader, Callback

-----------------------------------------------------------------------------
\* A byte written, or about to be written, keeps WakeInv.
LEMMA WokenStep == Woken' => WakeInv'
  BY DEF WakeInv, NoLostWakeup

\* Every step keeps a sleeping loop with something to write woken, or about to
\* be.
LEMMA WakeStep ==
  ASSUME TypeOK, StageInv, WakeInv, [Next]_vars
  PROVE  WakeInv'
<1>0. RestTypeOK /\ PipeTypeOK
  BY Types
<1> USE DEF worker, queue, pipe, output, subscription, reading, ending, looping
<1>1. CASE ReadPing \/ ReadSubscribe
  <2>1. Woken'
    BY <1>1 DEF ReadPing, ReadSubscribe, EnqueueControlFrame, Woken
  <2> QED
    BY <2>1, WokenStep
<1>2. CASE PutSubscribed
  <2>1. work_queue' = <<>>
    BY <1>2 DEF PutSubscribed, StageInv
  <2> QED
    BY <1>2, <2>1 DEF PutSubscribed, WakeInv, NoLostWakeup, Woken, Readable
<1>3. CASE SubscribedAll \/ ReaderEnds
  BY <1>3 DEF SubscribedAll, ReaderEnds, WakeInv, NoLostWakeup, Woken, Readable
<1>4. ASSUME NEW t \in Topics, PutTopicConnection(t) PROVE WakeInv'
  BY <1>4 DEF PutTopicConnection, WakeInv, NoLostWakeup, Woken, Readable
<1>5. CASE SubmitInitial
  <2>1. CASE SubmitWork("reader", initial_topic)
    <3>1. Woken'
      BY <2>1 DEF SubmitWork, Woken
    <3> QED
      BY <3>1, WokenStep
  <2>2. CASE UNCHANGED <<queue, notifying>>
    BY <1>5, <2>2 DEF SubmitInitial, WakeInv, NoLostWakeup, Woken, Readable
  <2> QED
    BY <1>5, <2>1, <2>2 DEF SubmitInitial, SubmitRefused
<1>6. ASSUME NEW t \in Topics, DispatchMessage(t) PROVE WakeInv'
  <2>1. CASE SubmitWork("dispatcher", t)
    <3>1. Woken'
      BY <2>1 DEF SubmitWork, Woken
    <3> QED
      BY <3>1, WokenStep
  <2>2. CASE UNCHANGED <<queue, notifying>>
    BY <1>6, <2>2 DEF DispatchMessage, WakeInv, NoLostWakeup, Woken, Readable
  <2> QED
    BY <1>6, <2>1, <2>2 DEF DispatchMessage, SubmitRefused
<1>7. CASE NotifySelf \/ \E h \in {"reader", "dispatcher"} : NotifyStartWork(h)
  <2>1. Woken'
    BY <1>0, <1>7, StartWritten DEF NotifySelf, NotifyStartWork, Woken
  <2> QED
    BY <2>1, WokenStep
<1>8. CASE Drain \/ Process \/ WriteCallback \/ EnterDead \/ Stop
  BY <1>8 DEF Drain, Process, WriteCallback, EnterDead, Stop, Return, WakeInv,
     NoLostWakeup
<1>9. CASE Enter
  BY <1>9 DEF Enter, WakeInv, NoLostWakeup
<1>10. CASE FlushComplete
  BY <1>10 DEF FlushComplete, FlushStarts, WakeInv, NoLostWakeup, Woken, Readable
<1>11. CASE FlushBlocks \/ DeliverBlocks
  BY <1>11 DEF FlushBlocks, DeliverBlocks, BlockOn, WakeInv, NoLostWakeup
<1>12. CASE FlushIdle
  BY <1>12 DEF FlushIdle, FlushStarts, HasOutput, WakeInv, NoLostWakeup, Woken,
     Readable
<1>13. CASE NotSubscribed
  BY <1>13 DEF NotSubscribed, Return, StageInv, WakeInv, NoLostWakeup, Woken,
     Readable
<1>14. CASE MayPop
  BY <1>14 DEF MayPop, WakeInv, NoLostWakeup, Woken, Readable
<1>15. CASE PopNothing
  BY <1>15 DEF PopNothing, Return, StageInv, WakeInv, NoLostWakeup, Woken,
     Readable
<1>16. CASE PopWork \/ DeliverComplete \/ Disconnect
  BY <1>16 DEF PopWork, DeliverComplete, Disconnect, WakeInv, NoLostWakeup
<1>17. CASE DeliverNothing \/ Requeue
  BY <1>17 DEF DeliverNothing, Requeue, StageInv, WakeInv, NoLostWakeup
<1>18. CASE Yield
  BY <1>18 DEF Yield, HasOutput, WakeInv, NoLostWakeup
<1>19. CASE Detect \/ NotifyStopWork
  <2>1. Woken'
    BY <1>0, <1>19, StopWritten DEF Detect, NotifyStopWork, Woken
  <2> QED
    BY <2>1, WokenStep
<1>20. CASE RemoveRecord \/ RemoveSubscribed \/ ClearAlive
  BY <1>20 DEF RemoveRecord, RemoveSubscribed, EraseSubscribed, ClearAlive,
     WakeInv, NoLostWakeup, Woken, Readable
<1>21. CASE UNCHANGED vars
  BY <1>21 DEF vars, WakeInv, NoLostWakeup, Woken, Readable
<1> QED
  BY <1>1, <1>2, <1>3, <1>4, <1>5, <1>6, <1>7, <1>8, <1>9, <1>10, <1>11,
     <1>12, <1>13, <1>14, <1>15, <1>16, <1>17, <1>18, <1>19, <1>20, <1>21
  DEF Next, Reader, Callback, Release

-----------------------------------------------------------------------------
\* Every step keeps a byte, or the promise of one, for a loop that has to stop.
LEMMA StopStep ==
  ASSUME TypeOK, StopInv, [Next]_vars
  PROVE  StopInv'
<1>0. RestTypeOK /\ PipeTypeOK
  BY Types
<1> USE DEF worker, queue, pipe, output, subscription, reading, ending, looping
<1>1. CASE Reader \/ \E t \in Topics : DispatchMessage(t)
  BY <1>1 DEF Reader, ReadPing, ReadSubscribe, PutSubscribed, SubscribedAll,
     PutTopicConnection, SubmitInitial, ReaderEnds, DispatchMessage, StopInv,
     Readable
<1>2. CASE Drain
  BY <1>2 DEF Drain, StopInv
<1>3. CASE NotifySelf \/ \E h \in {"reader", "dispatcher"} : NotifyStartWork(h)
  <2>1. Readable'
    BY <1>0, <1>3, StartWritten DEF NotifySelf, NotifyStartWork
  <2> QED
    BY <1>3, <2>1 DEF NotifySelf, NotifyStartWork, StopInv
<1>4. CASE Stop \/ Process \/ Disconnect
  BY <1>4 DEF Stop, Process, Disconnect, StopInv
<1>5. CASE \/ WriteCallback \/ EnterDead \/ Enter \/ FlushComplete
           \/ FlushBlocks \/ FlushIdle \/ NotSubscribed \/ MayPop \/ PopNothing
           \/ PopWork \/ DeliverNothing \/ DeliverComplete \/ DeliverBlocks
           \/ Requeue \/ Yield
  <2>1. /\ UNCHANGED <<pipe, alive, ending>>
        /\ loop \notin {"drained", "stopping", "stopped"}
    BY <1>5 DEF WriteCallback, EnterDead, Enter, FlushComplete, FlushBlocks,
       FlushIdle, FlushStarts, NotSubscribed, MayPop, PopNothing, PopWork,
       DeliverNothing, DeliverComplete, DeliverBlocks, Requeue, Yield, Return
  <2> QED
    BY <2>1 DEF StopInv, Readable
<1>6. CASE Detect \/ NotifyStopWork
  <2>1. Readable'
    BY <1>0, <1>6, StopWritten DEF Detect, NotifyStopWork
  <2> QED
    BY <1>6, <2>1 DEF Detect, NotifyStopWork, StopInv
<1>7. CASE RemoveRecord \/ RemoveSubscribed \/ ClearAlive
  BY <1>7 DEF RemoveRecord, RemoveSubscribed, ClearAlive, StopInv, Readable
<1>8. CASE UNCHANGED vars
  BY <1>8 DEF vars, StopInv, Readable
<1> QED
  BY <1>1, <1>2, <1>3, <1>4, <1>5, <1>6, <1>7, <1>8 DEF Next, Callback, Release

-----------------------------------------------------------------------------
\* Every step keeps the answer before the messages.
LEMMA AnswerStep ==
  ASSUME TypeOK, StageInv, AnswerInv, [Next]_vars
  PROVE  AnswerInv'
<1>0. RestTypeOK
  BY Types
<1> USE DEF worker, queue, pipe, output, subscription, reading, ending, looping
<1>1. CASE ReadPing \/ ReadSubscribe
  <2>1. PICK f \in Control : /\ EnqueueControlFrame(f)
                             /\ ReadSubscribe => f = "subscribe"
    BY <1>1 DEF ReadPing, ReadSubscribe, Control
  <2>2. /\ AnswerQueued => AnswerQueued'
        /\ ReadSubscribe => AnswerQueued'
    BY <1>0, <2>1, ControlPush DEF EnqueueControlFrame, RestTypeOK
  <2> QED
    BY <1>1, <2>2 DEF ReadPing, ReadSubscribe, AnswerInv
<1>2. CASE PutSubscribed
  BY <1>2 DEF PutSubscribed, AnswerInv, AnswerQueued
<1>3. CASE FlushComplete
  <2>1. /\ AnswerQueued => AnswerQueued' \/ NextFrame = "subscribe"
        /\ NextFrame \in Topics => NextFrame = pending_frame
        /\ pending_frame = "subscribe" => NextFrame = "subscribe"
    BY <1>0, <1>3, ControlTake DEF FlushComplete, RestTypeOK, NextFrame
  <2>2. answered \/ NextFrame = "subscribe" => answered'
    BY <1>3 DEF FlushComplete
  <2>3. /\ UNCHANGED <<subscription, reading, consumeRecord>>
        /\ pending_frame' = "none"
        /\ loop' \in {"callback", "requeue"}
        /\ loop' = "requeue" => NextFrame \in Topics
    BY <1>3 DEF FlushComplete, FlushStarts
  <2> QED
    BY <2>1, <2>2, <2>3, OutputAssumption DEF AnswerInv
<1>4. CASE FlushBlocks
  <2>1. /\ AnswerQueued => AnswerQueued' \/ NextFrame = "subscribe"
        /\ NextFrame \in Topics => NextFrame = pending_frame
        /\ pending_frame = "subscribe" => NextFrame = "subscribe"
    BY <1>0, <1>4, ControlTake DEF FlushBlocks, RestTypeOK, NextFrame
  <2>2. /\ UNCHANGED <<subscription, reading, looping>>
        /\ pending_frame' = NextFrame
        /\ loop' = "waiting"
    BY <1>4 DEF FlushBlocks, BlockOn
  <2> QED
    BY <2>1, <2>2 DEF AnswerInv
<1>5. CASE FlushIdle
  <2>1. consumeRecord => answered
    BY <1>5 DEF FlushIdle, HasOutput, AnswerInv, AnswerQueued, StageInv
  <2> QED
    BY <1>5, <2>1, OutputAssumption
    DEF FlushIdle, HasOutput, AnswerInv, AnswerQueued
<1>6. CASE DeliverBlocks
  <2>1. answered /\ pending_frame = "none" /\ topic \in Topics
    BY <1>6 DEF DeliverBlocks, AnswerInv, StageInv
  <2> QED
    BY <1>6, <2>1 DEF DeliverBlocks, BlockOn, AnswerInv, AnswerQueued
<1>7. CASE Enter
  BY <1>7 DEF Enter, AnswerInv, AnswerQueued
<1>8. CASE Disconnect \/ RemoveSubscribed
  BY <1>8 DEF Disconnect, RemoveSubscribed, EraseSubscribed, AnswerInv,
     AnswerQueued
<1>9. CASE MayPop \/ PopWork \/ DeliverComplete
  BY <1>9 DEF MayPop, PopWork, DeliverComplete, AnswerInv, AnswerQueued
<1>10. CASE \/ Drain \/ Stop \/ Process \/ WriteCallback \/ EnterDead
            \/ NotSubscribed \/ PopNothing \/ DeliverNothing \/ Requeue
            \/ Yield \/ NotifySelf
  <2>1. /\ UNCHANGED <<output, subscribed, reader, consumeRecord, answered>>
        /\ loop' \notin {"idle", "popping", "delivering", "requeue"}
    BY <1>10 DEF Drain, Stop, Process, WriteCallback, EnterDead, NotSubscribed,
       PopNothing, DeliverNothing, Requeue, Yield, NotifySelf, Return
  <2> QED
    BY <2>1 DEF AnswerInv, AnswerQueued
<1>11. CASE SubscribedAll \/ ReaderEnds
  BY <1>11 DEF SubscribedAll, ReaderEnds, AnswerInv, AnswerQueued
<1>12. CASE \/ \E t \in Topics : PutTopicConnection(t) \/ DispatchMessage(t)
            \/ \E h \in {"reader", "dispatcher"} : NotifyStartWork(h)
            \/ SubmitInitial \/ Detect \/ RemoveRecord \/ ClearAlive
            \/ NotifyStopWork \/ UNCHANGED vars
  <2>1. UNCHANGED <<output, subscribed, reader, consumeRecord, answered, loop>>
    BY <1>12 DEF PutTopicConnection, DispatchMessage, NotifyStartWork,
       SubmitInitial, Detect, RemoveRecord, ClearAlive, NotifyStopWork, vars
  <2> QED
    BY <2>1 DEF AnswerInv, AnswerQueued
<1> QED
  BY <1>1, <1>2, <1>3, <1>4, <1>5, <1>6, <1>7, <1>8, <1>9, <1>10, <1>11, <1>12
  DEF Next, Reader, Callback, Release

-----------------------------------------------------------------------------
\* What the accepting thread establishes before it starts reader and loop.
LEMMA IInvInit == Init => IInv
<1> SUFFICES ASSUME Init PROVE IInv
  OBVIOUS
<1>1. WorkerTypeOK /\ StatusIsQueue /\ work_queue = <<>>
  BY WorkerInit DEF Init
<1>2. RestTypeOK
  <2>1. /\ consumeRecord \in BOOLEAN /\ alive \in BOOLEAN
        /\ detecting_finished \in BOOLEAN /\ answered \in BOOLEAN
    BY DEF Init
  <2>2. control_frames \in Seq(Control) /\ Len(control_frames) <= MaxControlFrames
    BY OutputAssumption DEF Init
  <2> QED
    BY <2>1, <2>2, OutputAssumption DEF Init, RestTypeOK, Frame
<1>3. TypeOK
  BY <1>1, <1>2, WorkerTypes, Types DEF Init
<1>4. OwedIsQueued /\ StageInv
  BY <1>1, OutputAssumption DEF Init, OwedIsQueued, StageInv
<1>5. WakeInv /\ AnswerInv /\ StopInv
  BY <1>1, OutputAssumption DEF Init, WakeInv, NoLostWakeup, AnswerInv, StopInv
<1> QED
  BY <1>1, <1>3, <1>4, <1>5 DEF IInv

\* Every step keeps the inductive invariant.
LEMMA IInvStep == IInv /\ [Next]_vars => IInv'
<1> SUFFICES ASSUME IInv, [Next]_vars PROVE IInv'
  OBVIOUS
<1>1. /\ TypeOK /\ StatusIsQueue /\ OwedIsQueued /\ StageInv /\ WakeInv
      /\ AnswerInv /\ StopInv
  BY DEF IInv
<1>2. TypeOK'
  BY <1>1, QueueInv, PipeInv, RestStep
  DEF TypeOK, WorkerTypeOK, QueueTypeOK, PipeTypeOK, RestTypeOK
<1> QED
  BY <1>1, <1>2, QueueInv, StageStep, WakeStep, AnswerStep, StopStep DEF IInv

\* Reader, loop, dispatcher and the end of the connection keep the inductive
\* invariant, for any topics, limits of frames and sizes of the pipe.
THEOREM Invariance == Spec => []IInv
  BY IInvInit, IInvStep, PTL DEF Spec

\* The variables of a connection in event-loop mode keep their types, a
\* callback its limit of frames and the control queue its bound.
THEOREM TypeCorrect == Spec => []TypeOK
  BY Invariance, PTL DEF IInv

\* submitWork, popWork, stop: work_queue_status mirrors the queue of the
\* connection's worker.
THEOREM StatusCorrect == Spec => []StatusIsQueue
  BY Invariance, PTL DEF IInv

\* submitWork: a topic whose submission was refused is in the queue.
THEOREM OwedCorrect == Spec => []OwedIsQueued
  BY Invariance, PTL DEF IInv

\* processEventLoopOutput: however reader, dispatcher, loop and the end of the
\* connection interleave, a sleeping loop with something to write is woken.
THEOREM WakeupCorrect == Spec => []NoLostWakeup
<1>1. IInv => NoLostWakeup
  BY DEF IInv, WakeInv
<1> QED
  BY <1>1, Invariance, PTL

\* acceptHandle, processEventLoopOutput: no message is written before the
\* answer to the subscription.
THEOREM AnswerCorrect == Spec => []AnswerPrecedesData
<1>1. IInv => AnswerPrecedesData
  BY DEF IInv, AnswerInv, StageInv, AnswerPrecedesData
<1> QED
  BY <1>1, Invariance, PTL

\* releaseConnectionEventData, startConnectionDetectingThread: a loop that has
\* to stop has a byte to wake it, although notifyStopWork may fail.
THEOREM StopCorrect == Spec => []StopIsSeen
<1>1. IInv => StopIsSeen
  BY DEF IInv, StopInv, StopIsSeen
<1> QED
  BY <1>1, Invariance, PTL
=============================================================================
