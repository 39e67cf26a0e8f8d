------------------------ MODULE SubscriberEventLoop ------------------------
(***************************************************************************)
(* One subscriber connection in event-loop mode, over its EventLoopWorker. *)
(* Five threads meet here: the reader of the connection answers pings and  *)
(* the subscription, the dispatching loop submits topics, the loop of the  *)
(* connection writes frames, the detecting thread and the alive detection  *)
(* end it.  What a topic's messages are is left to MessageCircle: here a   *)
(* delivery ends in one of the ways deliverTopic can end, and the question *)
(* is whether work, control frames or a half-written frame can be left     *)
(* behind by a loop that sleeps.                                           *)
(***************************************************************************)
EXTENDS EventLoopWorker

CONSTANTS
    MaxFrames,          \* MAX_FRAMES_PER_CALLBACK
    MaxControlFrames,   \* MAX_CONTROL_FRAMES
    NoTopic

ASSUME OutputAssumption ==
    /\ MaxFrames \in Nat \ {0}
    /\ MaxControlFrames \in Nat \ {0}
    /\ Topics \cap {"pong", "subscribe", "none"} = {}
    /\ NoTopic \notin Topics
    /\ DisableDuplicates            \* set when the worker is created

VARIABLES
    control_frames,     \* output_state->control_frames
    pending_frame,      \* what output_state->pending_frame is a frame of
    consumeRecord,      \* does the loop hold the consume record?
    subscribed,         \* the connection's entry in connection_subscribed_
    topic_connections,  \* topics whose topic_connection_map_ entry lists it
    alive,              \* *connection_alived
    release,            \* progress of clearConnectionResource
    detecting_finished,
    reader,             \* where the reading thread is
    to_subscribe,       \* topics of the subscription it has not got to
    initial_topic,      \* the topic it is about to submit
    notifying,          \* threads that will write a byte as their next step
    loop,               \* where the thread of the event loop is
    topic,              \* the topic that the loop works on
    frames,             \* completed_frames of the running callback
    answered,           \* history: the answer to the subscription is written
    owed                \* history: topics submitted and not popped since

output == <<control_frames, pending_frame>>
subscription == <<subscribed, topic_connections>>
reading == <<reader, to_subscribe, initial_topic>>
ending == <<release, detecting_finished>>
looping == <<consumeRecord, topic, frames, answered>>

vars == <<worker, output, subscription, alive, ending, reading, notifying,
          loop, looping, owed>>

Control == {"pong", "subscribe"}

Init ==
    /\ InitWorker
    /\ control_frames = <<>>
    /\ pending_frame = "none"
    /\ consumeRecord = FALSE
    /\ subscribed = "no"
    /\ topic_connections = {}
    /\ alive = TRUE
    /\ release = "live"
    /\ detecting_finished = FALSE
    /\ reader = "reading"
    /\ to_subscribe = {}
    /\ initial_topic = NoTopic
    /\ notifying = {}
    /\ loop = "waiting"
    /\ topic = NoTopic
    /\ frames = 0
    /\ answered = FALSE
    /\ owed = {}

-----------------------------------------------------------------------------
\* The reading thread.

\* enqueueControlFrame: the frame is queued, and the byte follows.
EnqueueControlFrame(frame) ==
    /\ Len(control_frames) < MaxControlFrames
    /\ control_frames' = Append(control_frames, frame)
    /\ notifying' = notifying \cup {"reader"}

\* A ping, or a subscription without a topic that is allowed: an answer, and
\* nothing else that this module has to know.
ReadPing ==
    /\ reader = "reading" /\ "reader" \notin notifying
    /\ EnqueueControlFrame("pong")
    /\ UNCHANGED <<worker, pending_frame, subscription, alive, ending, reading,
                   loop, looping, owed>>

\* The record exists and its topics are initialized; the answer is queued.
\* Bound: a connection subscribes once, to all of Topics.
ReadSubscribe ==
    /\ reader = "reading" /\ "reader" \notin notifying
    /\ subscribed = "no"
    /\ EnqueueControlFrame("subscribe")
    /\ reader' = "answering"
    /\ to_subscribe' = Topics
    /\ UNCHANGED <<worker, pending_frame, subscription, alive, ending,
                   initial_topic, loop, looping, owed>>

PutSubscribed ==
    /\ reader = "answering" /\ "reader" \notin notifying
    /\ subscribed' = "yes"
    /\ reader' = "subscribing"
    /\ UNCHANGED <<worker, output, topic_connections, alive, ending,
                   to_subscribe, initial_topic, notifying, loop, looping, owed>>

\* putTopicConnection for the next topic; the submission follows.
PutTopicConnection(t) ==
    /\ reader = "subscribing" /\ "reader" \notin notifying
    /\ initial_topic = NoTopic
    /\ t \in to_subscribe
    /\ to_subscribe' = to_subscribe \ {t}
    /\ topic_connections' = topic_connections \cup {t}
    /\ initial_topic' = t
    /\ UNCHANGED <<worker, output, subscribed, alive, ending, reader,
                   notifying, loop, looping, owed>>

SubscribedAll ==
    /\ reader = "subscribing" /\ "reader" \notin notifying
    /\ initial_topic = NoTopic
    /\ to_subscribe = {}
    /\ reader' = "reading"
    /\ UNCHANGED <<worker, output, subscription, alive, ending, to_subscribe,
                   initial_topic, notifying, loop, looping, owed>>

\* submitWork by thread h, which notifies only if the topic was accepted.
SubmitWork(h, t) ==
    /\ Accepts(t)
    /\ Push(t)
    /\ notifying' = notifying \cup {h}
    /\ owed' = owed \cup {t}

SubmitRefused(h, t) ==
    /\ ~Accepts(t)
    /\ owed' = owed \cup {t}
    /\ UNCHANGED <<queue, notifying>>

\* The reader finds the worker unless the connection was released.
SubmitInitial ==
    /\ initial_topic # NoTopic
    /\ initial_topic' = NoTopic
    /\ \/ SubmitWork("reader", initial_topic)
       \/ SubmitRefused("reader", initial_topic)
       \/ /\ release = "released"
          /\ UNCHANGED <<queue, notifying, owed>>
    /\ UNCHANGED <<pipe, write_event_enabled, output, subscription, alive,
                   ending, reader, to_subscribe, loop, looping>>

\* The reader leaves its loop: the peer is gone, the connection was marked
\* dead, a frame was malformed, or the control queue is full.
ReaderEnds ==
    /\ reader = "reading" /\ "reader" \notin notifying
    /\ reader' = "ended"
    /\ alive' = FALSE
    /\ UNCHANGED <<worker, output, subscription, ending, to_subscribe,
                   initial_topic, notifying, loop, looping, owed>>

\* dispatchMessage holds rw_lock_ while it submits and notifies, and
\* releaseConnectionEventData takes it for writing.
DispatchMessage(t) ==
    /\ "dispatcher" \notin notifying
    /\ release \notin {"cleared", "released"}
    /\ t \in topic_connections
    /\ SubmitWork("dispatcher", t) \/ SubmitRefused("dispatcher", t)
    /\ UNCHANGED <<pipe, write_event_enabled, output, subscription, alive,
                   ending, reading, loop, looping>>

NotifyStartWork(h) ==
    /\ h \in notifying
    /\ WriteStart
    /\ notifying' = notifying \ {h}
    /\ UNCHANGED <<queue, stops, write_event_enabled, output, subscription,
                   alive, ending, reading, loop, looping, owed>>

-----------------------------------------------------------------------------
\* The thread of the event loop: how a callback starts and stops.

Drain ==
    /\ loop = "waiting"
    /\ Readable
    /\ DrainPipe
    /\ loop' = IF stops > 0 THEN "stopping" ELSE "drained"
    /\ UNCHANGED <<queue, write_event_enabled, output, subscription, alive,
                   ending, reading, notifying, looping, owed>>

Stop ==
    /\ loop = "stopping" \/ (loop = "drained" /\ ~alive)
    /\ StopWorker
    /\ loop' = "stopped"
    /\ owed' = {}
    /\ UNCHANGED <<pipe, output, subscription, alive, ending, reading,
                   notifying, looping>>

\* Mutant: the callback of the pipe does not look at connection_alived.
ProcessDead ==
    /\ loop = "drained"
    /\ loop' = "entering"
    /\ UNCHANGED <<worker, output, subscription, alive, ending, reading,
                   notifying, looping, owed>>

Process ==
    /\ loop = "drained" /\ alive
    /\ loop' = "entering"
    /\ UNCHANGED <<worker, output, subscription, alive, ending, reading,
                   notifying, looping, owed>>

\* The socket is writable.
WriteCallback ==
    /\ loop = "waiting"
    /\ write_event_enabled
    /\ loop' = "entering"
    /\ UNCHANGED <<worker, output, subscription, alive, ending, reading,
                   notifying, looping, owed>>

\* A callback that returns with nothing to write to the socket
Return ==
    /\ write_event_enabled' = FALSE
    /\ loop' = "waiting"
    /\ UNCHANGED <<queue, pipe, output, subscription, alive, ending, reading,
                   notifying, looping, owed>>

EnterDead ==
    /\ loop = "entering" /\ ~alive
    /\ Return

\* The loop takes the record once, when it first finds the connection
\* subscribed and its record not yet removed.
Enter ==
    /\ loop = "entering" /\ alive
    /\ consumeRecord' = (consumeRecord \/ (subscribed = "yes" /\ release = "live"))
    /\ frames' = 0
    /\ loop' = "callback"
    /\ UNCHANGED <<worker, output, subscription, alive, ending, reading,
                   notifying, topic, answered, owed>>

\* removeSubscribed, which finds no entry before putSubscribed
EraseSubscribed ==
    subscribed' = IF subscribed = "no" THEN "no" ELSE "removed"

-----------------------------------------------------------------------------
\* The loop of processEventLoopOutput.

\* flushPendingFrame writes what is pending or else the first control frame.
FlushStarts == loop = "callback" /\ frames < MaxFrames

HasOutput == pending_frame # "none" \/ control_frames # <<>>

NextFrame ==
    IF pending_frame # "none" THEN pending_frame ELSE Head(control_frames)

TakeFrame ==
    control_frames' = IF pending_frame # "none" THEN control_frames
                                                ELSE Tail(control_frames)

\* The kernel took the whole frame; a topic's frame is followed by
\* requeueTopicIfPending.
FlushComplete ==
    /\ FlushStarts
    /\ HasOutput
    /\ TakeFrame
    /\ pending_frame' = "none"
    /\ frames' = frames + 1
    /\ answered' = (answered \/ NextFrame = "subscribe")
    /\ IF NextFrame \in Topics
       THEN loop' = "requeue" /\ topic' = NextFrame
       ELSE UNCHANGED <<loop, topic>>
    /\ UNCHANGED <<worker, subscription, alive, ending, reading, notifying,
                   consumeRecord, owed>>

\* Mutant: a blocked callback returns without asking for the write event.
BlockSilently(frame) ==
    /\ pending_frame' = frame
    /\ write_event_enabled' = FALSE
    /\ loop' = "waiting"

\* The kernel did not take the whole frame: it stays pending, and the write
\* event calls the loop again.
BlockOn(frame) ==
    /\ pending_frame' = frame
    /\ write_event_enabled' = TRUE
    /\ loop' = "waiting"

FlushBlocks ==
    /\ FlushStarts
    /\ HasOutput
    /\ TakeFrame
    /\ BlockOn(NextFrame)
    /\ UNCHANGED <<queue, pipe, subscription, alive, ending, reading,
                   notifying, looping, owed>>

FlushIdle ==
    /\ FlushStarts
    /\ ~HasOutput
    /\ loop' = "idle"
    /\ UNCHANGED <<worker, output, subscription, alive, ending, reading,
                   notifying, looping, owed>>

NotSubscribed ==
    /\ loop = "idle"
    /\ subscribed # "yes" \/ ~consumeRecord
    /\ Return

\* Mutant: only the subscription is looked at, the record is fetched again.
MayPopSubscribed ==
    /\ loop = "idle"
    /\ subscribed = "yes"
    /\ loop' = "popping"
    /\ UNCHANGED <<worker, output, subscription, alive, ending, reading,
                   notifying, looping, owed>>

MayPop ==
    /\ loop = "idle"
    /\ subscribed = "yes" /\ consumeRecord
    /\ loop' = "popping"
    /\ UNCHANGED <<worker, output, subscription, alive, ending, reading,
                   notifying, looping, owed>>

PopNothing ==
    /\ loop = "popping"
    /\ work_queue = <<>>
    /\ Return

PopWork ==
    /\ loop = "popping"
    /\ PopFront
    /\ topic' = Head(work_queue)
    /\ owed' = owed \ {Head(work_queue)}
    /\ loop' = "delivering"
    /\ UNCHANGED <<pipe, write_event_enabled, output, subscription, alive,
                   ending, reading, notifying, consumeRecord, frames, answered>>

\* deliverTopic: no circle, or no message to read
DeliverNothing ==
    /\ loop = "delivering"
    /\ loop' = "callback"
    /\ UNCHANGED <<worker, output, subscription, alive, ending, reading,
                   notifying, looping, owed>>

\* A whole frame was written, or an empty message was skipped.
DeliverComplete ==
    /\ loop = "delivering"
    /\ frames' = frames + 1
    /\ loop' = "requeue"
    /\ UNCHANGED <<worker, output, subscription, alive, ending, reading,
                   notifying, consumeRecord, topic, answered, owed>>

DeliverBlocks ==
    /\ loop = "delivering"
    /\ BlockOn(topic)
    /\ UNCHANGED <<queue, pipe, control_frames, subscription, alive, ending,
                   reading, notifying, looping, owed>>

\* disconnectEventLoopSubscriber: the socket failed, or the subscriber was
\* overrun and the policy is to disconnect.
Disconnect ==
    /\ (FlushStarts /\ HasOutput) \/ loop = "delivering"
    /\ EraseSubscribed
    /\ alive' = FALSE
    /\ StopWorker
    /\ loop' = "stopped"
    /\ owed' = {}
    /\ UNCHANGED <<pipe, output, topic_connections, ending, reading, notifying,
                   looping>>

\* requeueTopicIfPending: submits without a byte, if there is more to read.
Requeue ==
    /\ loop = "requeue"
    /\ loop' = "callback"
    /\ \/ Accepts(topic) /\ Push(topic) /\ owed' = owed \cup {topic}
       \/ ~Accepts(topic) /\ owed' = owed \cup {topic} /\ UNCHANGED queue
       \/ UNCHANGED <<queue, owed>>
    /\ UNCHANGED <<pipe, write_event_enabled, output, subscription, alive,
                   ending, reading, notifying, looping>>

\* Mutant: the callback that used up its frames forgets the control frames.
YieldForWork ==
    /\ loop = "callback"
    /\ frames >= MaxFrames
    /\ write_event_enabled' = FALSE
    /\ loop' = IF work_queue # <<>> THEN "yielding" ELSE "waiting"
    /\ UNCHANGED <<queue, pipe, output, subscription, alive, ending, reading,
                   notifying, looping, owed>>

\* Mutant: it forgets the topics that are queued.
YieldForOutput ==
    /\ loop = "callback"
    /\ frames >= MaxFrames
    /\ write_event_enabled' = FALSE
    /\ loop' = IF HasOutput THEN "yielding" ELSE "waiting"
    /\ UNCHANGED <<queue, pipe, output, subscription, alive, ending, reading,
                   notifying, looping, owed>>

\* The callback has written its share of frames and notifies itself if there
\* is more.
Yield ==
    /\ loop = "callback"
    /\ frames >= MaxFrames
    /\ write_event_enabled' = FALSE
    /\ loop' = IF HasOutput \/ work_queue # <<>> THEN "yielding" ELSE "waiting"
    /\ UNCHANGED <<queue, pipe, output, subscription, alive, ending, reading,
                   notifying, looping, owed>>

NotifySelf ==
    /\ loop = "yielding"
    /\ WriteStart
    /\ loop' = "waiting"
    /\ UNCHANGED <<queue, stops, write_event_enabled, output, subscription,
                   alive, ending, reading, notifying, looping, owed>>

-----------------------------------------------------------------------------
\* The end of the connection.

\* startConnectionDetectingThread sees the flag cleared.
Detect ==
    /\ ~alive
    /\ ~detecting_finished
    /\ WriteStop
    /\ detecting_finished' = TRUE
    /\ UNCHANGED <<queue, starts, write_event_enabled, output, subscription,
                   alive, release, reading, notifying, loop, looping, owed>>

\* startAliveDetection: the connection has expired or was killed.
RemoveRecord ==
    /\ release = "live"
    /\ release' = "unrecorded"
    /\ UNCHANGED <<worker, output, subscription, alive, detecting_finished,
                   reading, notifying, loop, looping, owed>>

RemoveSubscribed ==
    /\ release = "unrecorded"
    /\ release' = "unsubscribed"
    /\ EraseSubscribed
    /\ UNCHANGED <<worker, output, topic_connections, alive,
                   detecting_finished, reading, notifying, loop, looping, owed>>

\* releaseConnectionEventData: first the flag, then the byte.
ClearAlive ==
    /\ release = "unsubscribed"
    /\ "dispatcher" \notin notifying
    /\ release' = "cleared"
    /\ alive' = FALSE
    /\ UNCHANGED <<worker, output, subscription, detecting_finished, reading,
                   notifying, loop, looping, owed>>

NotifyStopWork ==
    /\ release = "cleared"
    /\ WriteStop
    /\ release' = "released"
    /\ topic_connections' = {}
    /\ UNCHANGED <<queue, starts, write_event_enabled, output, subscribed,
                   alive, detecting_finished, reading, notifying, loop,
                   looping, owed>>

-----------------------------------------------------------------------------
Reader ==
    \/ ReadPing \/ ReadSubscribe \/ PutSubscribed \/ SubscribedAll
    \/ \E t \in Topics : PutTopicConnection(t)
    \/ SubmitInitial \/ ReaderEnds

Callback ==
    \/ Drain \/ Stop \/ Process \/ WriteCallback \/ EnterDead \/ Enter
    \/ FlushComplete \/ FlushBlocks \/ FlushIdle \/ NotSubscribed \/ MayPop
    \/ PopNothing \/ PopWork \/ DeliverNothing \/ DeliverComplete
    \/ DeliverBlocks \/ Disconnect \/ Requeue \/ Yield \/ NotifySelf

Release == RemoveRecord \/ RemoveSubscribed \/ ClearAlive \/ NotifyStopWork

Next ==
    \/ Reader
    \/ \E t \in Topics : DispatchMessage(t)
    \/ \E h \in {"reader", "dispatcher"} : NotifyStartWork(h)
    \/ Callback
    \/ Detect
    \/ Release

\* Every thread that has something to do is scheduled; nothing makes a client
\* send, a topic be published or a connection expire.  A socket that blocks
\* takes a whole frame in the end: that is an assumption on the subscriber,
\* which keeps reading.  A topic is submitted because there is a message, so
\* a loop that goes on popping topics goes on completing frames.  The
\* detecting thread forgets a released connection.
Fairness ==
    /\ WF_vars(Callback)
    /\ SF_vars(FlushComplete)
    /\ SF_vars(DeliverComplete)
    /\ \A h \in {"reader", "dispatcher"} : WF_vars(NotifyStartWork(h))
    /\ WF_vars(PutSubscribed \/ SubscribedAll \/ SubmitInitial
                 \/ \E t \in Topics : PutTopicConnection(t))
    /\ WF_vars(Detect /\ release # "released")
    /\ WF_vars(Release /\ release # "live")

Spec == Init /\ [][Next]_vars
FairSpec == Spec /\ Fairness

-----------------------------------------------------------------------------
Frame == Topics \cup Control \cup {"none"}

\* Types of the variables; a callback completes at most MaxFrames frames and
\* the control queue keeps its limit.
TypeOK ==
    /\ WorkerTypeOK
    /\ control_frames \in Seq(Control)
    /\ Len(control_frames) <= MaxControlFrames
    /\ pending_frame \in Frame
    /\ consumeRecord \in BOOLEAN
    /\ subscribed \in {"no", "yes", "removed"}
    /\ topic_connections \subseteq Topics
    /\ alive \in BOOLEAN
    /\ release \in {"live", "unrecorded", "unsubscribed", "cleared", "released"}
    /\ detecting_finished \in BOOLEAN
    /\ reader \in {"reading", "answering", "subscribing", "ended"}
    /\ to_subscribe \subseteq Topics
    /\ initial_topic \in Topics \cup {NoTopic}
    /\ notifying \subseteq {"reader", "dispatcher"}
    /\ loop \in {"waiting", "drained", "stopping", "entering", "callback",
                 "idle", "popping", "delivering", "requeue", "yielding",
                 "stopped"}
    /\ topic \in Topics \cup {NoTopic}
    /\ frames \in 0..MaxFrames
    /\ answered \in BOOLEAN
    /\ owed \subseteq Topics

\* submitWork: a topic that was submitted, also one that was refused because
\* it is queued already, is in the queue until a pop that comes after.
OwedIsQueued == \A t \in owed : Queued(t)

\* Somebody will call the loop: a byte is in the pipe or about to be.
Woken == Readable \/ notifying # {}

\* processEventLoopOutput, flushPendingFrame, enqueueControlFrame: the loop of
\* a live connection never sleeps on a frame that is half written, on control
\* frames or on the topics of a subscription without a byte, a thread about
\* to write one or the write event to wake it.
NoLostWakeup ==
    loop = "waiting" /\ alive =>
        /\ pending_frame # "none" => write_event_enabled \/ Woken
        /\ control_frames # <<>> => write_event_enabled \/ Woken
        /\ work_queue # <<>> /\ subscribed = "yes" /\ release = "live"
              => write_event_enabled \/ Woken

\* enqueueControlFrame before putSubscribed, and the record looked up once
\* before the first frame of a callback: the subscriber gets the answer to
\* its subscription before it gets a message (a layer connector relies on it).
AnswerPrecedesData ==
    loop \in {"delivering", "requeue"} \/ pending_frame \in Topics => answered

\* notifyStopWork may fail on a full pipe, but then the bytes in it run the
\* callback, which looks at connection_alived: no loop of a connection that
\* was released, or detected as broken, sleeps without a byte.
StopIsSeen ==
    (release = "released" \/ detecting_finished) /\ loop = "waiting" => Readable

\* processEventLoopOutput: every topic submitted is popped eventually, unless
\* the connection ends.  Control frames come first, so the client must stop
\* sending pings for a while: ever more pings would keep the topics waiting.
OwedIsHandled ==
    <>[][~ReadPing]_vars =>
        \A t \in Topics : (t \in owed) ~> (t \notin owed \/ ~alive)

\* enqueueControlFrame, flushPendingFrame: once the client stops sending pings,
\* what is queued or half written, the answer to its subscription included,
\* is written in the end, unless the connection ends.
OutputIsFlushed ==
    <>[][~ReadPing]_vars => (HasOutput ~> (~HasOutput \/ ~alive))

\* However the connection ends, its event loop stops and frees its thread.
DeadLoopStops == ~alive ~> (loop = "stopped")
=============================================================================
