---------------------------- MODULE IngestProofs ----------------------------
(***************************************************************************)
(* Publishers, layer connectors, the table of circles and the watchdog     *)
(* use the dispatching loop as DispatchLoop says its threads may, so that  *)
(* what is proved of it holds of their composition; and the table keeps    *)
(* its limit, for any number of threads and topics.                        *)
(***************************************************************************)
EXTENDS Ingest, EventLoopWorkerProofs, FiniteSetTheorems

-----------------------------------------------------------------------------
(* The dispatching loop, under any threads that submit.  The status of a   *)
(* topic mirrors its place in the queue, so that a refused submitter may   *)
(* leave the byte to the thread that queued the topic; and the loop drains *)
(* the pipe before it pops.                                                *)

DispatchInv ==
    /\ TypeOK
    /\ StatusIsQueue
    /\ OwedIsQueued
    /\ NoLostWakeup

\* A worker that was just created, with an empty queue and pipe.
LEMMA DispatchInvInit == DispatchInit => DispatchInv
<1> SUFFICES ASSUME DispatchInit PROVE DispatchInv
  OBVIOUS
<1>1. WorkerTypeOK /\ StatusIsQueue /\ work_queue = <<>>
  BY WorkerInit DEF DispatchInit
<1>2. submitter \in [Threads -> {"idle", "submitted"}]
  BY DEF DispatchInit
<1> QED
  BY <1>1, <1>2 DEF DispatchInit, DispatchInv, TypeOK, OwedIsQueued, NoLostWakeup

\* Each step of the submitters and of the dispatching callback keeps the
\* inductive invariant.
LEMMA DispatchInvStep == DispatchInv /\ [DispatchNext]_dispatch => DispatchInv'
<1> SUFFICES ASSUME DispatchInv, [DispatchNext]_dispatch PROVE DispatchInv'
  OBVIOUS
<1>0. /\ QueueTypeOK /\ PipeTypeOK /\ write_event_enabled \in BOOLEAN
      /\ submitter \in [Threads -> {"idle", "submitted"}]
      /\ loop \in {"waiting", "drained", "dispatching"}
      /\ owed \subseteq Topics
  BY WorkerTypes DEF DispatchInv, TypeOK
<1>1. StatusIsQueue /\ OwedIsQueued /\ NoLostWakeup
  BY DEF DispatchInv
<1>2. ASSUME NEW h \in Threads, NEW t \in Topics, SubmitWork(h, t)
      PROVE  DispatchInv'
  <2>1. /\ Accepts(t) /\ Push(t) /\ UNCHANGED pipe
        /\ UNCHANGED <<write_event_enabled, loop>>
        /\ submitter' = [submitter EXCEPT ![h] = "submitted"]
        /\ owed' = owed \cup {t}
    BY <1>2 DEF SubmitWork
  <2>2. QueueTypeOK' /\ PipeTypeOK' /\ StatusIsQueue'
    BY <1>0, <1>1, <2>1, PushQueue, PushStatus, SamePipe
  <2>3. TypeOK'
    BY <1>0, <2>1, <2>2 DEF TypeOK, WorkerTypeOK, QueueTypeOK, PipeTypeOK
  <2>4. \A u \in Topics : Queued(u)' <=> Queued(u) \/ u = t
    BY <1>0, <2>1, PushQueue
  <2>5. OwedIsQueued'
    BY <1>0, <1>1, <2>1, <2>4 DEF OwedIsQueued
  <2>6. NoLostWakeup'
    <3>1. submitter'[h] = "submitted"
      BY <1>0, <2>1
    <3> QED
      BY <3>1 DEF NoLostWakeup
  <2> QED
    BY <2>2, <2>3, <2>5, <2>6 DEF DispatchInv
<1>3. ASSUME NEW h \in Threads, NEW t \in Topics, SubmitRefused(h, t)
      PROVE  DispatchInv'
  <2>1. /\ ~Accepts(t) /\ UNCHANGED worker /\ UNCHANGED <<submitter, loop>>
        /\ owed' = owed \cup {t}
    BY <1>3 DEF SubmitRefused
  <2>2. UNCHANGED queue /\ UNCHANGED pipe /\ UNCHANGED write_event_enabled
    BY <2>1 DEF worker, queue, pipe
  <2>3. QueueTypeOK' /\ PipeTypeOK' /\ StatusIsQueue'
    BY <1>0, <1>1, <2>2, SameQueue, SamePipe
  <2>4. TypeOK'
    BY <1>0, <2>1, <2>2, <2>3 DEF TypeOK, WorkerTypeOK, QueueTypeOK, PipeTypeOK
  <2>5. OwedIsQueued'
    <3>1. DisableDuplicates => Queued(t)
      BY <1>1, <2>1 DEF Accepts, StatusIsQueue
    <3> QED
      BY <1>0, <1>1, <2>1, <2>2, <3>1, SameQueue DEF OwedIsQueued
  <2>6. NoLostWakeup'
    BY <1>1, <2>1, <2>2 DEF NoLostWakeup, queue, pipe, Readable
  <2> QED
    BY <2>3, <2>4, <2>5, <2>6 DEF DispatchInv
<1>4. ASSUME NEW h \in Threads, NotifyStartWork(h) PROVE DispatchInv'
  <2>1. /\ WriteStart /\ stops' = stops /\ UNCHANGED queue
        /\ UNCHANGED <<write_event_enabled, loop, owed>>
        /\ submitter' = [submitter EXCEPT ![h] = "idle"]
    BY <1>4 DEF NotifyStartWork
  <2>2. QueueTypeOK' /\ PipeTypeOK' /\ StatusIsQueue' /\ Readable'
    BY <1>0, <1>1, <2>1, SameQueue, StartWritten
  <2>3. TypeOK'
    BY <1>0, <2>1, <2>2 DEF TypeOK, WorkerTypeOK, QueueTypeOK, PipeTypeOK
  <2>4. OwedIsQueued'
    BY <1>0, <1>1, <2>1, SameQueue DEF OwedIsQueued
  <2>5. NoLostWakeup'
    BY <1>1, <2>1, <2>2 DEF NoLostWakeup, queue
  <2> QED
    BY <2>2, <2>3, <2>4, <2>5 DEF DispatchInv
<1>5. CASE Drain
  <2>1. /\ DrainPipe /\ UNCHANGED queue /\ loop' = "drained"
        /\ UNCHANGED <<write_event_enabled, submitter, owed>>
    BY <1>5 DEF Drain
  <2>2. QueueTypeOK' /\ PipeTypeOK' /\ StatusIsQueue'
    BY <1>0, <1>1, <2>1, SameQueue, PipeDrained
  <2>3. TypeOK'
    BY <1>0, <2>1, <2>2 DEF TypeOK, WorkerTypeOK, QueueTypeOK, PipeTypeOK
  <2>4. OwedIsQueued'
    BY <1>0, <1>1, <2>1, SameQueue DEF OwedIsQueued
  <2>5. NoLostWakeup'
    BY <1>1, <2>1 DEF NoLostWakeup, queue
  <2> QED
    BY <2>2, <2>3, <2>4, <2>5 DEF DispatchInv
<1>6. CASE PopWorks
  <2>1. /\ PopAll /\ UNCHANGED pipe /\ loop' = "dispatching"
        /\ UNCHANGED <<write_event_enabled, submitter>>
        /\ owed' = {t \in owed : ~Queued(t)}
    BY <1>6 DEF PopWorks
  <2>2. QueueTypeOK' /\ PipeTypeOK' /\ StatusIsQueue' /\ work_queue' = <<>>
    BY <1>0, <1>1, <2>1, PopAllQueue, SamePipe
  <2>3. TypeOK'
    BY <1>0, <2>1, <2>2 DEF TypeOK, WorkerTypeOK, QueueTypeOK, PipeTypeOK
  <2>4. OwedIsQueued'
    BY <1>1, <2>1 DEF OwedIsQueued
  <2>5. NoLostWakeup'
    BY <2>2, WorkerAssumption DEF NoLostWakeup
  <2> QED
    BY <2>2, <2>3, <2>4, <2>5 DEF DispatchInv
<1>7. CASE Dispatched
  <2>1. /\ loop = "dispatching" /\ loop' = "waiting"
        /\ UNCHANGED worker /\ UNCHANGED <<submitter, owed>>
    BY <1>7 DEF Dispatched
  <2>2. UNCHANGED queue /\ UNCHANGED pipe /\ UNCHANGED write_event_enabled
    BY <2>1 DEF worker, queue, pipe
  <2>3. QueueTypeOK' /\ PipeTypeOK' /\ StatusIsQueue'
    BY <1>0, <1>1, <2>2, SameQueue, SamePipe
  <2>4. TypeOK'
    BY <1>0, <2>1, <2>2, <2>3 DEF TypeOK, WorkerTypeOK, QueueTypeOK, PipeTypeOK
  <2>5. OwedIsQueued'
    BY <1>0, <1>1, <2>1, <2>2, SameQueue DEF OwedIsQueued
  <2>6. NoLostWakeup'
    BY <1>1, <2>1, <2>2 DEF NoLostWakeup, queue, pipe, Readable
  <2> QED
    BY <2>3, <2>4, <2>5, <2>6 DEF DispatchInv
<1>8. CASE UNCHANGED dispatch
  BY <1>8 DEF dispatch, worker, queue, pipe, DispatchInv, TypeOK, WorkerTypeOK,
     StatusIsQueue, OwedIsQueued, Queued, NoLostWakeup, Readable
<1> QED
  BY <1>2, <1>3, <1>4, <1>5, <1>6, <1>7, <1>8 DEF DispatchNext, Callback

\* EventLoopWorker under startEventLoopForDispatching keeps the inductive invariant,
\* for any number of threads and topics and any limit.
THEOREM DispatchInvariance == DispatchSpec => []DispatchInv
  BY DispatchInvInit, DispatchInvStep, PTL DEF DispatchSpec

-----------------------------------------------------------------------------
(* The table of circles.                                                   *)

Places == {Idle} \cup {At(place, t) : place \in {"create", "append", "submit"},
                                      t \in Topics}

\* A message on its way has a topic; topics_ and topic_circles_ agree.
TableInv ==
    /\ thread \in [Threads -> Places]
    /\ topics_ = DOMAIN topic_circles_
    /\ IsFiniteSet(topics_)

\* What main and GlobalContext::init establish.
LEMMA TableInit == Init => TableInv /\ TopicsWithinLimit
<1> SUFFICES ASSUME Init PROVE TableInv /\ TopicsWithinLimit
  OBVIOUS
<1>1. topics_ = {} /\ DOMAIN topic_circles_ = {}
  BY DEF Init
<1>2. TableInv
  BY <1>1, FS_EmptySet DEF Init, TableInv, Places
<1>3. Cardinality(DOMAIN topic_circles_) = 0
  BY <1>1, FS_EmptySet
<1>4. \A h \in Publishers : thread[h].at = "recv"
  BY IngestAssumption DEF Init, Idle
<1> QED
  BY <1>2, <1>3, <1>4, IngestAssumption DEF TopicsWithinLimit

\* createCircleIfAbsent adds at most one topic, and none at the limit.
LEMMA CreateKeepsLimit ==
    ASSUME TableInv, TopicsWithinLimit, NEW t, CreateCircleIfAbsent(t)
    PROVE  /\ topics_' = DOMAIN topic_circles_'
           /\ IsFiniteSet(topics_')
           /\ Cardinality(DOMAIN topic_circles_') <= MaxTopicNumber
           /\ DOMAIN topic_circles_ \subseteq DOMAIN topic_circles_'
           /\ ~Refuses(t) => t \in DOMAIN topic_circles_'
<1>1. Cardinality(topics_) \in Nat
  BY FS_CardinalityType DEF TableInv
<1>2. CASE t \in topics_ \/ Refuses(t)
  <2>1. UNCHANGED composite
    BY <1>2 DEF CreateCircleIfAbsent
  <2> QED
    BY <1>2, <2>1 DEF composite, TableInv, TopicsWithinLimit
<1>3. CASE t \notin topics_ /\ ~Refuses(t)
  <2>1. topics_' = topics_ \cup {t} /\ DOMAIN topic_circles_' = topics_ \cup {t}
    BY <1>3 DEF CreateCircleIfAbsent, TableInv
  <2>2. Cardinality(topics_) < MaxTopicNumber
    BY <1>1, <1>3, IngestAssumption DEF Refuses, TableInv
  <2>3. /\ IsFiniteSet(topics_ \cup {t})
        /\ Cardinality(topics_ \cup {t}) = Cardinality(topics_) + 1
    BY <1>3, FS_AddElement DEF TableInv
  <2> QED
    BY <1>1, <2>1, <2>2, <2>3, IngestAssumption DEF TableInv
<1> QED
  BY <1>2, <1>3

\* Each step of each thread keeps the table and the limit.
LEMMA TableStep ==
    TableInv /\ TopicsWithinLimit /\ [Next]_vars
        => TableInv' /\ TopicsWithinLimit'
<1> SUFFICES ASSUME TableInv, TopicsWithinLimit, [Next]_vars
             PROVE  TableInv' /\ TopicsWithinLimit'
  OBVIOUS
<1>0. Publishers \subseteq Threads
  BY IngestAssumption
<1>1. ASSUME UNCHANGED composite, UNCHANGED thread
      PROVE  TableInv' /\ TopicsWithinLimit'
  BY <1>1 DEF composite, TableInv, TopicsWithinLimit
<1>2. CASE StartLayer
  <2>1. CreateCircleIfAbsent(Head(starting)) /\ UNCHANGED thread
    BY <1>2 DEF StartLayer
  <2> QED
    BY <2>1, CreateKeepsLimit DEF TableInv, TopicsWithinLimit
<1>3. ASSUME NEW h \in Threads, NEW t \in Topics, Receive(h, t)
      PROVE  TableInv' /\ TopicsWithinLimit'
  <2>1. /\ thread' = [thread EXCEPT ![h] =
                       At(IF h \in Publishers THEN "create" ELSE "append", t)]
        /\ UNCHANGED <<topics_, topic_circles_>>
    BY <1>3 DEF Receive, composite
  <2>2. thread' \in [Threads -> Places]
    BY <2>1 DEF TableInv, Places
  <2>3. \A g \in Publishers : thread'[g] = thread[g] \/ thread'[g].at = "create"
    BY <1>0, <2>1 DEF TableInv, At
  <2> QED
    BY <2>1, <2>2, <2>3 DEF TableInv, TopicsWithinLimit
<1>4. ASSUME NEW h \in Threads, Create(h)
      PROVE  TableInv' /\ TopicsWithinLimit'
  <2> DEFINE t == thread[h].topic
  <2>0. t \in Topics
    BY <1>4 DEF Create, TableInv, Places, At, Idle
  <2>1. /\ CreateCircleIfAbsent(t)
        /\ thread' = [thread EXCEPT ![h] = IF Refuses(t) THEN Idle
                                           ELSE At("append", t)]
    BY <1>4 DEF Create
  <2>2. thread' \in [Threads -> Places]
    BY <2>0, <2>1 DEF TableInv, Places
  <2>3. /\ topics_' = DOMAIN topic_circles_'
        /\ IsFiniteSet(topics_')
        /\ Cardinality(DOMAIN topic_circles_') <= MaxTopicNumber
        /\ DOMAIN topic_circles_ \subseteq DOMAIN topic_circles_'
        /\ ~Refuses(t) => t \in DOMAIN topic_circles_'
    BY <2>1, CreateKeepsLimit
  <2>4. \A g \in Publishers :
           \/ thread'[g] = thread[g]
           \/ thread'[g] = Idle
           \/ ~Refuses(t) /\ thread'[g] = At("append", t)
    BY <1>0, <2>1 DEF TableInv
  <2> QED
    BY <2>2, <2>3, <2>4 DEF TableInv, TopicsWithinLimit, Idle, At
<1>5. ASSUME NEW h \in Threads, AppendMessage(h)
      PROVE  TableInv' /\ TopicsWithinLimit'
  <2> DEFINE t == thread[h].topic
  <2>0. t \in Topics
    BY <1>5 DEF AppendMessage, TableInv, Places, At, Idle
  <2>1. /\ DOMAIN topic_circles_' = DOMAIN topic_circles_
        /\ UNCHANGED topics_
    BY <1>5 DEF AppendMessage
  <2>2. \/ thread' = [thread EXCEPT ![h] = Idle]
        \/ /\ t \in DOMAIN topic_circles_
           /\ thread' = [thread EXCEPT ![h] = At("submit", t)]
    BY <1>5 DEF AppendMessage
  <2>3. thread' \in [Threads -> Places]
    BY <2>0, <2>2 DEF TableInv, Places
  <2>4. \A g \in Publishers :
           \/ thread'[g] = thread[g]
           \/ thread'[g] = Idle
           \/ t \in DOMAIN topic_circles_ /\ thread'[g] = At("submit", t)
    BY <1>0, <2>2 DEF TableInv
  <2> QED
    BY <2>1, <2>3, <2>4 DEF TableInv, TopicsWithinLimit, Idle, At
<1>6. ASSUME NEW h \in Threads, Submit(h)
      PROVE  TableInv' /\ TopicsWithinLimit'
  <2>1. /\ thread' = [thread EXCEPT ![h] = Idle]
        /\ UNCHANGED <<topics_, topic_circles_>>
    BY <1>6 DEF Submit, composite
  <2>2. thread' \in [Threads -> Places]
    BY <2>1 DEF TableInv, Places
  <2>3. \A g \in Publishers : thread'[g] = thread[g] \/ thread'[g] = Idle
    BY <1>0, <2>1 DEF TableInv
  <2> QED
    BY <2>1, <2>2, <2>3 DEF TableInv, TopicsWithinLimit, Idle
<1>7. ASSUME NEW h \in Threads, Notify(h)
      PROVE  TableInv' /\ TopicsWithinLimit'
  BY <1>1, <1>7 DEF Notify
<1>8. CASE LoopStep \/ WatchStep
  BY <1>1, <1>8 DEF LoopStep, AnnounceWorks, WatchStep, WatchTopics, WatchSleeps,
                    SendWarning, SendWarningFails
<1>9. CASE UNCHANGED vars
  BY <1>1, <1>9 DEF vars
<1> QED
  BY <1>2, <1>3, <1>4, <1>5, <1>6, <1>7, <1>8, <1>9 DEF Next, ThreadStep

\* createCircleIfAbsent: the table has never more than max_topic_number
\* circles, and a publisher's message on its way has one, however many
\* publishers and layer connectors create circles at a time.
THEOREM LimitCorrect == Spec => []TopicsWithinLimit
<1>1. Spec => [](TableInv /\ TopicsWithinLimit)
  BY TableInit, TableStep, PTL DEF Spec
<1> QED
  BY <1>1, PTL

-----------------------------------------------------------------------------
(* Their composition.                                                      *)

\* Each step is a step of the dispatching loop's specification, or leaves
\* the worker and its threads as they are.
LEMMA DispatchStep == TableInv /\ [Next]_vars => [DispatchNext]_dispatch
<1> SUFFICES ASSUME TableInv, [Next]_vars PROVE [DispatchNext]_dispatch
  OBVIOUS
<1>1. ASSUME NEW h \in Threads, Submit(h) PROVE DispatchNext
  <2>1. thread[h].topic \in Topics
    BY <1>1 DEF Submit, TableInv, Places, At, Idle
  <2>2. \/ SubmitWork(h, thread[h].topic)
        \/ SubmitRefused(h, thread[h].topic)
    BY <1>1 DEF Submit
  <2> QED
    BY <2>1, <2>2 DEF DispatchNext
<1>2. ASSUME NEW h \in Threads, Notify(h) PROVE DispatchNext
  BY <1>2 DEF Notify, DispatchNext
<1>3. CASE LoopStep
  BY <1>3 DEF LoopStep, AnnounceWorks, DispatchNext, Callback
<1>4. ASSUME NEW h \in Threads, Create(h) \/ AppendMessage(h)
      PROVE  UNCHANGED dispatch
  BY <1>4 DEF Create, AppendMessage
<1>5. ASSUME NEW h \in Threads, NEW t \in Topics, Receive(h, t)
      PROVE  UNCHANGED dispatch
  BY <1>5 DEF Receive
<1>6. CASE StartLayer \/ WatchStep \/ UNCHANGED vars
  BY <1>6 DEF StartLayer, WatchStep, WatchTopics, WatchSleeps, SendWarning,
              SendWarningFails, vars
<1> QED
  BY <1>1, <1>2, <1>3, <1>4, <1>5, <1>6 DEF Next, ThreadStep

\* Publishers and layer connectors submit and notify just as the threads of
\* DispatchLoop do.
THEOREM DispatchRefinement == Spec => DispatchSpec
<1>1. Init => DispatchInit
  BY DEF Init
<1> QED
  BY <1>1, TableInit, TableStep, DispatchStep, PTL DEF Spec, DispatchSpec

\* submitWork and popWorks, called by publishers, layer connectors and the
\* loop: work_queue_status mirrors the queue, which holds no topic twice.
THEOREM StatusCorrect == Spec => []StatusIsQueue
  BY DispatchRefinement, DispatchInvariance, PTL DEF DispatchInv

\* submit_message_topic_to_event_loop: a topic whose submission was refused to
\* a publisher or a layer connector is in the queue.
THEOREM OwedCorrect == Spec => []OwedIsQueued
  BY DispatchRefinement, DispatchInvariance, PTL DEF DispatchInv

\* notify_message_topic_to_event_loop: however the threads and the loop
\* interleave, no message that was appended is left to a dispatching loop that
\* nobody will wake.
THEOREM WakeupCorrect == Spec => []NoLostWakeup
  BY DispatchRefinement, DispatchInvariance, PTL DEF DispatchInv
=============================================================================
