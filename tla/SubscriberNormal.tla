-------------------------- MODULE SubscriberNormal --------------------------
(***************************************************************************)
(* One subscriber connection in normal mode: the reading thread, the       *)
(* writing thread that polls, and the alive detection that clears what the *)
(* two leave behind.  The threads share the output state, the flag         *)
(* connection_alived, the entries of the connection in                     *)
(* connection_subscribed_ and client_connections_, and its consume record, *)
(* which the writer looks up once and keeps.  A record is known by its     *)
(* number and its topics; due says which topics it still has to read.      *)
(***************************************************************************)
EXTENDS Integers, Sequences

CONSTANTS
    Topics,
    MaxControlFrames,   \* MAX_CONTROL_FRAMES
    MaxSubscriptions    \* bound: subscriptions of one connection

ASSUME NormalAssumption ==
    /\ MaxControlFrames \in Nat \ {0}
    /\ MaxSubscriptions \in Nat \ {0}
    /\ Topics \cap {"pong", "refusal", "ok", "none"} = {}

VARIABLES
    control_frames,     \* output_state->control_frames
    pending_frame,      \* what output_state->pending_frame is a frame of
    connection_alived,
    subscribed,         \* is the connection in connection_subscribed_?
    exists,             \* is it in client_connections_?
    heartbeat,          \* "fresh", or "killed" by killAlive
    socket,             \* "open", or "broken" once send() fails
    topics_of,          \* topics_of[n]: topics of the n-th record made
    due,                \* due[n]: those of them with a message to deliver
    consume_record,     \* its number in the composite; 0 if there is none
    reader,             \* where the reading thread is
    writer,             \* where the writing thread is
    record,             \* the record the writer holds; 0 for nullptr
    to_deliver,         \* topics left in the writer's pass over the record
    release,            \* progress of the alive detection
    answered            \* history: an "ok" is written

output == <<control_frames, pending_frame>>
connection == <<connection_alived, subscribed, exists, heartbeat>>
records == <<topics_of, due, consume_record>>
writing == <<writer, record, to_deliver>>

vars == <<output, connection, socket, records, reader, writing, release,
          answered>>

Control == {"pong", "refusal", "ok"}

Init ==
    /\ control_frames = <<>>
    /\ pending_frame = "none"
    /\ connection_alived = TRUE
    /\ subscribed = FALSE
    /\ exists = TRUE
    /\ heartbeat = "fresh"
    /\ socket = "open"
    /\ topics_of = <<>>
    /\ due = <<>>
    /\ consume_record = 0
    /\ reader = "reading"
    /\ writer = "checking"
    /\ record = 0
    /\ to_deliver = {}
    /\ release = "watching"
    /\ answered = FALSE

-----------------------------------------------------------------------------
\* The reading thread.

\* enqueueControlFrame; the reader leaves its loop when the queue is full.
Enqueue(frame, next) ==
    IF Len(control_frames) < MaxControlFrames
    THEN control_frames' = Append(control_frames, frame) /\ reader' = next
    ELSE reader' = "ending" /\ UNCHANGED control_frames

\* The head of the reader's loop
StartReceiving ==
    /\ reader = "reading" /\ connection_alived
    /\ reader' = "receiving"
    /\ UNCHANGED <<output, connection, socket, records, writing, release,
                   answered>>

ReadPing ==
    /\ reader = "receiving"
    /\ Enqueue("pong", "refreshing")
    /\ UNCHANGED <<pending_frame, connection, socket, records, writing, release,
                   answered>>

\* A message that the reader ignores
ReadOther ==
    /\ reader = "receiving"
    /\ reader' = "reading"
    /\ UNCHANGED <<output, connection, socket, records, writing, release,
                   answered>>

\* startAliveDetection holds the lock of client_connections_ while it releases
\* a connection.
Unlocked == release \in {"watching", "released"}

KillAlive ==
    /\ Unlocked
    /\ heartbeat' = IF exists THEN "killed" ELSE heartbeat

\* Mutant: the reader of a dead connection returns without killAlive.
RefreshAndEnd ==
    /\ reader = "refreshing"
    /\ Unlocked
    /\ heartbeat' = IF exists THEN "fresh" ELSE heartbeat
    /\ reader' = IF connection_alived THEN "reading" ELSE "ended"
    /\ UNCHANGED <<output, connection_alived, subscribed, exists, socket,
                   records, writing, release, answered>>

\* refreshKeepAlive, whatever became of the connection meanwhile
RefreshKeepAlive ==
    /\ reader = "refreshing"
    /\ Unlocked
    /\ heartbeat' = IF exists THEN "fresh" ELSE heartbeat
    /\ reader' = "reading"
    /\ UNCHANGED <<output, connection_alived, subscribed, exists, socket,
                   records, writing, release, answered>>

\* A subscription without an allowed topic, or one too many for the composite
RefuseSubscription ==
    /\ reader = "receiving"
    /\ Enqueue("refusal", "reading")
    /\ UNCHANGED <<pending_frame, connection, socket, records, writing, release,
                   answered>>

\* createNewRecord replaces the record of the connection.
CreateNewRecord(topics) ==
    /\ reader = "receiving"
    /\ Len(topics_of) < MaxSubscriptions
    /\ topics_of' = Append(topics_of, topics)
    /\ due' = Append(due, {})
    /\ consume_record' = Len(topics_of) + 1
    /\ reader' = "created"
    /\ UNCHANGED <<output, connection, socket, writing, release, answered>>

\* getRecord finds that the alive detection has removed it.
RecordGone ==
    /\ reader = "created"
    /\ consume_record = 0
    /\ Enqueue("refusal", "reading")
    /\ UNCHANGED <<pending_frame, connection, socket, records, writing, release,
                   answered>>

\* The topics are initialized and the answer is queued.
AnswerSubscription ==
    /\ reader = "created"
    /\ consume_record # 0
    /\ Enqueue("ok", "answered")
    /\ UNCHANGED <<pending_frame, connection, socket, records, writing, release,
                   answered>>

PutSubscribed ==
    /\ reader = "answered"
    /\ subscribed' = TRUE
    /\ reader' = "reading"
    /\ UNCHANGED <<output, connection_alived, exists, heartbeat, socket, records,
                   writing, release, answered>>

\* The flag is cleared, or nothing more can be received: the peer is gone, the
\* flag is cleared while waiting, or a frame is too large.
LeaveReading ==
    /\ (reader = "reading" /\ ~connection_alived) \/ reader = "receiving"
    /\ reader' = "ending"
    /\ UNCHANGED <<output, connection, socket, records, writing, release,
                   answered>>

\* shutdown and close
ReaderCloses ==
    /\ reader = "ending"
    /\ reader' = "closed"
    /\ connection_alived' = FALSE
    /\ socket' = "broken"
    /\ UNCHANGED <<output, subscribed, exists, heartbeat, records, writing,
                   release, answered>>

ReaderEnds ==
    /\ reader = "closed"
    /\ reader' = "ended"
    /\ KillAlive
    /\ UNCHANGED <<output, connection_alived, subscribed, exists, socket,
                   records, writing, release, answered>>

-----------------------------------------------------------------------------
\* The writing thread: one action per step of its loop.

Check ==
    /\ writer = "checking"
    /\ Unlocked
    /\ writer' = IF connection_alived /\ exists THEN "looking" ELSE "ending"
    /\ UNCHANGED <<output, connection, socket, records, reader, record,
                   to_deliver, release, answered>>

\* isSubscribed and then getRecord, while the writer has no record
LookUp ==
    /\ writer = "looking"
    /\ writer' = IF record = 0 /\ subscribed THEN "getting" ELSE "flushing"
    /\ UNCHANGED <<output, connection, socket, records, reader, record,
                   to_deliver, release, answered>>

GetRecord ==
    /\ writer = "getting"
    /\ record' = consume_record
    /\ writer' = "flushing"
    /\ UNCHANGED <<output, connection, socket, records, reader, to_deliver,
                   release, answered>>

HasOutput == pending_frame # "none" \/ control_frames # <<>>

NextFrame ==
    IF pending_frame # "none" THEN pending_frame ELSE Head(control_frames)

TakeFrame ==
    control_frames' = IF pending_frame # "none" THEN control_frames
                                                ELSE Tail(control_frames)

\* updateSequence of the record that the writer holds, up to its last message;
\* one that is published later makes the topic due again.
Advance(t) == due' = [due EXCEPT ![record] = @ \ {t}]

\* Mutant: the frame that was written stays pending.
FlushWithoutReset ==
    /\ writer = "flushing"
    /\ HasOutput
    /\ socket = "open"
    /\ TakeFrame
    /\ pending_frame' = NextFrame
    /\ answered' = (answered \/ NextFrame = "ok")
    /\ IF NextFrame \in Topics THEN Advance(NextFrame) ELSE UNCHANGED due
    /\ writer' = "checking"
    /\ UNCHANGED <<connection, socket, topics_of, consume_record, reader, record,
                   to_deliver, release>>

FlushComplete ==
    /\ writer = "flushing"
    /\ HasOutput
    /\ socket = "open"
    /\ TakeFrame
    /\ pending_frame' = "none"
    /\ answered' = (answered \/ NextFrame = "ok")
    /\ IF NextFrame \in Topics THEN Advance(NextFrame) ELSE UNCHANGED due
    /\ writer' = "checking"
    /\ UNCHANGED <<connection, socket, topics_of, consume_record, reader, record,
                   to_deliver, release>>

FlushBlocks ==
    /\ writer = "flushing"
    /\ HasOutput
    /\ TakeFrame
    /\ pending_frame' = NextFrame
    /\ writer' = "checking"
    /\ UNCHANGED <<connection, socket, records, reader, record, to_deliver,
                   release, answered>>

FlushError ==
    /\ writer = "flushing"
    /\ HasOutput
    /\ socket = "broken"
    /\ TakeFrame
    /\ pending_frame' = NextFrame
    /\ writer' = "ending"
    /\ UNCHANGED <<connection, socket, records, reader, record, to_deliver,
                   release, answered>>

FlushIdle ==
    /\ writer = "flushing"
    /\ ~HasOutput
    /\ writer' = "polling"
    /\ UNCHANGED <<output, connection, socket, records, reader, record,
                   to_deliver, release, answered>>

\* Mutant: a missing record is looked up here, after the flush.
PollLookUp ==
    /\ writer = "polling"
    /\ record' = IF record = 0 THEN consume_record ELSE record
    /\ IF subscribed /\ record' # 0
       THEN writer' = "delivering" /\ to_deliver' = topics_of[record']
       ELSE writer' = "checking" /\ UNCHANGED to_deliver
    /\ UNCHANGED <<output, connection, socket, records, reader, release,
                   answered>>

\* The second look at the subscription.  The connection may have become
\* subscribed since LookUp: then the writer has no record and ends it.
Poll ==
    /\ writer = "polling"
    /\ IF ~subscribed
       THEN writer' = "checking" /\ UNCHANGED to_deliver
       ELSE IF record = 0
            THEN writer' = "ending" /\ UNCHANGED to_deliver
            ELSE writer' = "delivering" /\ to_deliver' = topics_of[record]
    /\ UNCHANGED <<output, connection, socket, records, reader, record, release,
                   answered>>

\* deliverTopic, one topic after the other: there is nothing to read,
DeliverNothing(t) ==
    /\ writer = "delivering"
    /\ t \in to_deliver \ due[record]
    /\ to_deliver' = to_deliver \ {t}
    /\ UNCHANGED <<output, connection, socket, records, reader, writer, record,
                   release, answered>>

\* or the kernel takes the whole frame, or the message is empty and skipped,
DeliverComplete(t) ==
    /\ writer = "delivering"
    /\ t \in to_deliver \cap due[record]
    /\ Advance(t)
    /\ to_deliver' = to_deliver \ {t}
    /\ UNCHANGED <<output, connection, socket, topics_of, consume_record, reader,
                   writer, record, release, answered>>

\* or the frame stays pending and the pass ends,
DeliverBlocks(t) ==
    /\ writer = "delivering"
    /\ t \in to_deliver \cap due[record]
    /\ pending_frame' = t
    /\ to_deliver' = {}
    /\ writer' = "checking"
    /\ UNCHANGED <<control_frames, connection, socket, records, reader, record,
                   release, answered>>

\* or the send fails, or the subscriber was overrun and is disconnected.
DeliverDisconnect(t) ==
    /\ writer = "delivering"
    /\ t \in to_deliver \cap due[record]
    /\ subscribed' = FALSE
    /\ connection_alived' = FALSE
    /\ to_deliver' = {}
    /\ writer' = "ending"
    /\ UNCHANGED <<output, exists, heartbeat, socket, records, reader, record,
                   release, answered>>

PassDone ==
    /\ writer = "delivering"
    /\ to_deliver = {}
    /\ writer' = "checking"
    /\ UNCHANGED <<output, connection, socket, records, reader, record,
                   to_deliver, release, answered>>

\* shutdown, killAlive,
WriterKills ==
    /\ writer = "ending"
    /\ writer' = "killed"
    /\ socket' = "broken"
    /\ KillAlive
    /\ UNCHANGED <<output, connection_alived, subscribed, exists, records,
                   reader, record, to_deliver, release, answered>>

\* Mutant: the writer does not clear the flag.
WriterEndsSilently ==
    /\ writer = "killed"
    /\ writer' = "ended"
    /\ UNCHANGED <<output, connection, socket, records, reader, record,
                   to_deliver, release, answered>>

\* and only then the flag
WriterEnds ==
    /\ writer = "killed"
    /\ writer' = "ended"
    /\ connection_alived' = FALSE
    /\ UNCHANGED <<output, subscribed, exists, heartbeat, socket, records,
                   reader, record, to_deliver, release, answered>>

-----------------------------------------------------------------------------
\* startAliveDetection: one step per table, all under the lock of
\* client_connections_.

\* The connection was killed or idle for too long; its descriptor is closed.
Expire ==
    /\ release = "watching"
    /\ exists
    /\ release' = "closed"
    /\ socket' = "broken"
    /\ UNCHANGED <<output, connection, records, reader, writing, answered>>

RemoveRecord ==
    /\ release = "closed"
    /\ release' = "unrecorded"
    /\ consume_record' = 0
    /\ UNCHANGED <<output, connection, socket, topics_of, due, reader, writing,
                   answered>>

RemoveSubscribed ==
    /\ release = "unrecorded"
    /\ release' = "released"
    /\ subscribed' = FALSE
    /\ exists' = FALSE
    /\ UNCHANGED <<output, connection_alived, heartbeat, socket, records, reader,
                   writing, answered>>

\* The peer closes the connection, or the network fails.
SocketBreaks ==
    /\ socket = "open"
    /\ socket' = "broken"
    /\ UNCHANGED <<output, connection, records, reader, writing, release,
                   answered>>

\* A message is published: the topic is due to the records that list it.
Publish(t) ==
    /\ due' = [n \in DOMAIN due |->
                  due[n] \cup (topics_of[n] \cap {t})]
    /\ UNCHANGED <<output, connection, socket, topics_of, consume_record, reader,
                   writing, release, answered>>

-----------------------------------------------------------------------------
Subscribes == \E topics \in SUBSET Topics \ {{}} : CreateNewRecord(topics)

Reader ==
    \/ StartReceiving \/ ReadPing \/ RefreshKeepAlive \/ ReadOther
    \/ RefuseSubscription \/ Subscribes \/ RecordGone \/ AnswerSubscription
    \/ PutSubscribed \/ LeaveReading \/ ReaderCloses \/ ReaderEnds

Deliver ==
    \E t \in Topics : \/ DeliverNothing(t) \/ DeliverComplete(t)
                      \/ DeliverBlocks(t) \/ DeliverDisconnect(t)

Writer ==
    \/ Check \/ LookUp \/ GetRecord \/ FlushComplete \/ FlushBlocks
    \/ FlushError \/ FlushIdle \/ Poll \/ Deliver \/ PassDone
    \/ WriterKills \/ WriterEnds

AliveDetection == Expire \/ RemoveRecord \/ RemoveSubscribed

Next ==
    \/ Reader
    \/ Writer
    \/ AliveDetection
    \/ SocketBreaks
    \/ \E t \in Topics : Publish(t)

\* Every thread runs; nothing makes a client send or a message be published.
\* The reader polls the flag every 100 ms.  The alive detection expires what
\* was killed.  A socket that blocks takes a whole frame in the end, unless
\* it breaks: an assumption on the subscriber, which keeps reading.
Fairness ==
    /\ WF_vars(Writer)
    /\ SF_vars(FlushComplete \/ FlushError)
    /\ WF_vars(Reader /\ reader \notin {"reading", "receiving"})
    /\ WF_vars(LeaveReading /\ ~connection_alived)
    /\ WF_vars(AliveDetection /\ (heartbeat = "killed" \/ release # "watching"))

Spec == Init /\ [][Next]_vars
FairSpec == Spec /\ Fairness

-----------------------------------------------------------------------------
\* Types of the variables; the control queue keeps its limit.
TypeOK ==
    /\ control_frames \in Seq(Control)
    /\ Len(control_frames) <= MaxControlFrames
    /\ pending_frame \in Topics \cup Control \cup {"none"}
    /\ connection_alived \in BOOLEAN
    /\ subscribed \in BOOLEAN
    /\ exists \in BOOLEAN
    /\ heartbeat \in {"fresh", "killed"}
    /\ socket \in {"open", "broken"}
    /\ topics_of \in Seq(SUBSET Topics)
    /\ due \in Seq(SUBSET Topics)
    /\ Len(due) = Len(topics_of)
    /\ consume_record \in 0..Len(topics_of)
    /\ reader \in {"reading", "receiving", "refreshing", "created", "answered",
                   "ending", "closed", "ended"}
    /\ writer \in {"checking", "looking", "getting", "flushing", "polling",
                   "delivering", "ending", "killed", "ended"}
    /\ record \in 0..Len(topics_of)
    /\ to_deliver \subseteq Topics
    /\ release \in {"watching", "closed", "unrecorded", "released"}
    /\ answered \in BOOLEAN

\* enqueueControlFrame before putSubscribed, and flushPendingFrame before
\* deliverTopic: the subscriber gets an "ok" before its first message.
AnswerPrecedesData ==
    writer = "delivering" \/ pending_frame \in Topics => answered

\* killAlive, refreshKeepAlive: when both threads of a connection have
\* returned, its heartbeat is an old one, so the alive detection will free its
\* place and its record, also when a ping was answered after the kill.
DeadIsKilled ==
    reader = "ended" /\ writer = "ended" /\ exists => heartbeat = "killed"

\* Nobody sends to the repeater any more.
Quiet ==
    <>[][/\ ~ReadPing /\ ~RefuseSubscription
         /\ \A t \in Topics : ~Publish(t)]_vars

DueTo(n) == IF n = 0 THEN {} ELSE due[n]

\* deliverTopic, flushPendingFrame: once publishers and client are quiet, what
\* is due to the record that the writer holds is delivered, or the connection
\* ends.  (While the client keeps sending, control frames come first; while
\* publishers do, a pass that blocks starts again at the first topic.)
DueIsDelivered ==
    Quiet => \A t \in Topics :
                (t \in DueTo(record))
                    ~> (t \notin DueTo(record) \/ ~connection_alived)

\* killAlive and startAliveDetection: when one of the threads has returned, the
\* connection is removed and its place freed in the end.
PlaceIsFreed == (reader = "ended" \/ writer = "ended") ~> ~exists

-----------------------------------------------------------------------------
\* What the program says of itself, and does not keep.

\* "client success to subscribe" is logged for a connection that is going to
\* be served: the writer ends one only if it broke, expired or was given up.
HealthyConnectionKept ==
    writer = "ending" => socket = "broken" \/ ~connection_alived \/ ~exists

TopicsOf(n) == IF n = 0 THEN {} ELSE topics_of[n]

\* The same line names every topic of a subscription, also of a second one on
\* the connection: each becomes one that the writer delivers, or the connection
\* ends or subscribes again.
SubscribedIsServed ==
    \A t \in Topics :
        (subscribed /\ t \in TopicsOf(consume_record))
            ~> (\/ t \in TopicsOf(record) \/ t \notin TopicsOf(consume_record)
                \/ ~connection_alived)

\* "clear resource": when the alive detection has cleared a connection and its
\* threads have returned, no record and no subscribed mark of it are left.
ClearedStaysCleared ==
    release = "released" /\ reader = "ended" /\ writer = "ended" =>
        consume_record = 0 /\ ~subscribed
=============================================================================
