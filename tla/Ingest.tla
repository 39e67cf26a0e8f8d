------------------------------- MODULE Ingest -------------------------------
(***************************************************************************)
(* How a message gets into the repeater: the handler of a publisher's      *)
(* connection, the thread of a layer connector, the table of message       *)
(* circles with its limit, the dispatching event loop that has to see      *)
(* every message, and the watchdog that reports a full table.  The worker  *)
(* and its loop are those of DispatchLoop.                                 *)
(***************************************************************************)
EXTENDS DispatchLoop, FiniteSets

CONSTANTS
    Publishers,         \* connections of publishers; the other threads are
                        \* those of layer connectors
    LayerTopics,        \* layer_subscribe_topics, a sequence
    MaxTopicNumber,     \* max_topic_number
    MaxMessages         \* bound: messages received

ASSUME IngestAssumption ==
    /\ Publishers \subseteq Threads
    /\ MaxTopicNumber \in Nat /\ MaxMessages \in Nat

Layers == Threads \ Publishers

VARIABLES
    thread,             \* where the thread of a connection is, with a topic
    starting,           \* topics start_layer_replay has not come to yet
    topics_,            \* the topics that have a circle
    topic_circles_,     \* topic -> number of messages appended
    announced,          \* history: how many of them were there when the loop
                        \* last took the topic
    received,           \* messages received so far
    watchdog,           \* the copy of topics_ it looks at, <<>> while it sleeps
    reported            \* history: has a full table been reported

composite == <<topics_, topic_circles_>>
watch == <<watchdog, reported>>
vars == <<dispatch, thread, starting, composite, announced, received, watch>>

Idle == [at |-> "recv"]
At(place, t) == [at |-> place, topic |-> t]

Init ==
    /\ DispatchInit
    /\ thread = [h \in Threads |-> Idle]
    /\ starting = LayerTopics
    /\ topics_ = {}
    /\ topic_circles_ = [t \in {} |-> 0]
    /\ announced = [t \in Topics |-> 0]
    /\ received = 0
    /\ watchdog = <<>>
    /\ reported = FALSE

-----------------------------------------------------------------------------
(* MessageCircleComposite                                                  *)

\* Mutant: one topic more than the limit.
RefusesAbove(t) ==
    t \notin topics_ /\ Cardinality(DOMAIN topic_circles_) > MaxTopicNumber

\* createCircleIfAbsent returns false
Refuses(t) ==
    t \notin topics_ /\ Cardinality(DOMAIN topic_circles_) >= MaxTopicNumber

\* createCircleIfAbsent: nothing is done for a topic that is there.
CreateCircleIfAbsent(t) ==
    IF t \in topics_ \/ Refuses(t) THEN UNCHANGED composite
    ELSE /\ topics_' = topics_ \cup {t}
         /\ topic_circles_' = [u \in DOMAIN topic_circles_ \cup {t} |->
                IF u \in DOMAIN topic_circles_ THEN topic_circles_[u] ELSE 0]

-----------------------------------------------------------------------------
(* The threads.                                                            *)

\* start_layer_replay has a circle made for each of its topics in turn.
StartLayer ==
    /\ starting # <<>>
    /\ CreateCircleIfAbsent(Head(starting))
    /\ starting' = Tail(starting)
    /\ UNCHANGED <<dispatch, thread, announced, received, watch>>

\* A complete frame with a topic that is allowed and a body that is not too
\* large.  Any other frame leaves everything here as it is, and so do the end
\* of a connection and the next one (see ConnectionTable).
Receive(h, t) ==
    /\ thread[h].at = "recv"
    /\ submitter[h] = "idle"
    /\ received < MaxMessages
    /\ h \in Layers => starting = <<>>
    /\ received' = received + 1
    /\ thread' = [thread EXCEPT ![h] =
                    At(IF h \in Publishers THEN "create" ELSE "append", t)]
    /\ UNCHANGED <<dispatch, starting, composite, announced, watch>>

Create(h) ==
    /\ thread[h].at = "create"
    /\ LET t == thread[h].topic
       IN  /\ CreateCircleIfAbsent(t)
           /\ thread' = [thread EXCEPT ![h] = IF Refuses(t) THEN Idle
                                              ELSE At("append", t)]
    /\ UNCHANGED <<dispatch, starting, announced, received, watch>>

\* appendMessageToCircle; a layer connector may find no circle.
AppendMessage(h) ==
    /\ thread[h].at = "append"
    /\ LET t == thread[h].topic
       IN  IF t \in DOMAIN topic_circles_
           THEN /\ topic_circles_' = [topic_circles_ EXCEPT ![t] = @ + 1]
                /\ thread' = [thread EXCEPT ![h] = At("submit", t)]
           ELSE /\ thread' = [thread EXCEPT ![h] = Idle]
                /\ UNCHANGED topic_circles_
    /\ UNCHANGED <<dispatch, starting, topics_, announced, received, watch>>

\* Mutant: a topic is submitted with its first message only.
SubmitOnce(h) ==
    /\ thread[h].at = "submit"
    /\ LET t == thread[h].topic
       IN  IF topic_circles_[t] = 1
           THEN SubmitWork(h, t) \/ SubmitRefused(h, t)
           ELSE UNCHANGED dispatch
    /\ thread' = [thread EXCEPT ![h] = Idle]
    /\ UNCHANGED <<starting, composite, announced, received, watch>>

Submit(h) ==
    /\ thread[h].at = "submit"
    /\ SubmitWork(h, thread[h].topic) \/ SubmitRefused(h, thread[h].topic)
    /\ thread' = [thread EXCEPT ![h] = Idle]
    /\ UNCHANGED <<starting, composite, announced, received, watch>>

Notify(h) ==
    /\ NotifyStartWork(h)
    /\ UNCHANGED <<thread, starting, composite, announced, received, watch>>

ThreadStep(h) ==
    Create(h) \/ AppendMessage(h) \/ Submit(h) \/ Notify(h)

-----------------------------------------------------------------------------
(* The dispatching loop and the watchdog.                                  *)

\* What is in a circle when its topic is taken will be dispatched.
AnnounceWorks ==
    /\ PopWorks
    /\ announced' = [t \in Topics |->
                     IF Queued(t) THEN topic_circles_[t] ELSE announced[t]]
    /\ UNCHANGED <<thread, starting, composite, received, watch>>

LoopStep ==
    \/ AnnounceWorks
    \/ /\ Drain \/ Dispatched
       /\ UNCHANGED <<thread, starting, composite, announced, received, watch>>

\* The watchdog, which is started last, wakes up and takes a copy of the
\* topics ...
WatchTopics ==
    /\ starting = <<>>
    /\ watchdog = <<>>
    /\ watchdog' = <<topics_>>
    /\ UNCHANGED <<dispatch, thread, starting, composite, announced, received,
                   reported>>

\* Mutant: a warning only when the limit has been passed.
AboveLimit(topics) == Cardinality(topics) > MaxTopicNumber

AtLimit(topics) == Cardinality(topics) >= MaxTopicNumber

\* ... and goes back to sleep if there are fewer than are allowed,
WatchSleeps ==
    /\ watchdog # <<>>
    /\ ~AtLimit(watchdog[1])
    /\ watchdog' = <<>>
    /\ UNCHANGED <<dispatch, thread, starting, composite, announced, received,
                   reported>>

\* or sends a warning: send_message returns 0 for an answer that has "ok",
SendWarning ==
    /\ watchdog # <<>>
    /\ AtLimit(watchdog[1])
    /\ watchdog' = <<>>
    /\ reported' = TRUE
    /\ UNCHANGED <<dispatch, thread, starting, composite, announced, received>>

\* or an error if the request or its answer fails, which is logged only.
SendWarningFails ==
    /\ watchdog # <<>>
    /\ AtLimit(watchdog[1])
    /\ watchdog' = <<>>
    /\ UNCHANGED <<dispatch, thread, starting, composite, announced, received,
                   reported>>

WatchStep == WatchTopics \/ WatchSleeps \/ SendWarning \/ SendWarningFails

Next ==
    \/ \E h \in Threads, t \in Topics : Receive(h, t)
    \/ \E h \in Threads : ThreadStep(h)
    \/ LoopStep \/ StartLayer \/ WatchStep

\* Every thread of the process is scheduled; nobody has to send anything.  A
\* warning that is sent again and again gets through in the end.
Fairness ==
    /\ \A h \in Threads : WF_vars(ThreadStep(h))
    /\ WF_vars(LoopStep) /\ WF_vars(StartLayer)
    /\ WF_vars(WatchStep) /\ SF_vars(SendWarning)

Spec == Init /\ [][Next]_vars
FairSpec == Spec /\ Fairness

-----------------------------------------------------------------------------
\* createCircleIfAbsent under several publishers and start_layer_replay:
\* never more circles than max_topic_number, and every message that is on
\* its way to a circle, but for a layer connector's, has one.
TopicsWithinLimit ==
    /\ Cardinality(DOMAIN topic_circles_) <= MaxTopicNumber
    /\ \A h \in Publishers :
          thread[h].at \in {"append", "submit"} =>
              thread[h].topic \in DOMAIN topic_circles_

\* acceptHandle and layer_replay_work: once a topic has a circle, each message
\* received for it is appended, and the loop takes the topic after that; a
\* submission that is refused, or a table that is full, does not lose it.
AdmittedIsAnnounced ==
    \A t \in Topics, n \in 0..(MaxMessages - 1) :
        (/\ t \in DOMAIN topic_circles_
         /\ \E h \in Threads :
              \/ thread[h] \in {At("create", t), At("append", t)}
                 /\ topic_circles_[t] = n
              \/ thread[h] = At("submit", t) /\ topic_circles_[t] = n + 1)
        ~> announced[t] > n

\* watch_connections_and_circles: a table that has become full is reported,
\* however many warnings could not be sent.
FullTableIsReported ==
    (Cardinality(topics_) = MaxTopicNumber) ~> reported
=============================================================================
