-------------------------- MODULE EventLoopWorker --------------------------
(***************************************************************************)
(* The class EventLoopWorker: a queue of topics under a lock, a pipe whose *)
(* bytes wake the thread of the libevent loop, and an optional write event *)
(* on a socket.  Each operator is what one method does to the worker; the  *)
(* modules DispatchLoop and SubscriberEventLoop model the threads that     *)
(* call them.                                                              *)
(***************************************************************************)
EXTENDS Integers, Sequences

CONSTANTS
    Topics,
    DisableDuplicates,  \* disable_duplicate_entries; set by both users
    QueueLimit,         \* 150: the limit of a queue that keeps duplicates
    PipeCapacity        \* bytes the pipe holds before a write gets EAGAIN

ASSUME WorkerAssumption ==
    /\ DisableDuplicates \in BOOLEAN
    /\ QueueLimit \in Nat \ {0}
    /\ PipeCapacity \in Nat \ {0}

VARIABLES
    work_queue,         \* the topics to work on
    work_queue_status,  \* topic -> TRUE while it is queued
    starts,             \* bytes of value 1 in notify_pipe
    stops,              \* bytes of value 5 in notify_pipe
    write_event_enabled

queue == <<work_queue, work_queue_status>>
pipe == <<starts, stops>>
worker == <<queue, pipe, write_event_enabled>>

InitWorker ==
    /\ work_queue = <<>>
    /\ work_queue_status = [t \in Topics |-> FALSE]
    /\ starts = 0
    /\ stops = 0
    /\ write_event_enabled = FALSE

Queued(t) == \E i \in 1..Len(work_queue) : work_queue[i] = t

-----------------------------------------------------------------------------
\* What submitWork returns
Accepts(t) ==
    IF DisableDuplicates THEN ~work_queue_status[t]
                         ELSE Len(work_queue) < QueueLimit

SetStatus(t, queued) ==
    work_queue_status' = IF DisableDuplicates
                         THEN [work_queue_status EXCEPT ![t] = queued]
                         ELSE work_queue_status

\* What submitWork does when it returns true
Push(t) ==
    /\ work_queue' = Append(work_queue, t)
    /\ SetStatus(t, TRUE)

\* What popWork does when it returns true
PopFront ==
    /\ work_queue # <<>>
    /\ work_queue' = Tail(work_queue)
    /\ SetStatus(Head(work_queue), FALSE)

\* Mutant: popWorks leaves the status of the topics it takes.
PopAllKeepStatus == work_queue' = <<>> /\ UNCHANGED work_queue_status

\* What popWorks does
PopAll ==
    /\ work_queue' = <<>>
    /\ work_queue_status' =
          IF DisableDuplicates
          THEN [t \in Topics |-> work_queue_status[t] /\ ~Queued(t)]
          ELSE work_queue_status

PipeHasRoom == starts + stops < PipeCapacity

\* write() of notifyStartWork; on a full pipe it gets EAGAIN and returns true.
WriteStart == starts' = IF PipeHasRoom THEN starts + 1 ELSE starts

\* write() of notifyStopWork; on a full pipe it fails.
WriteStop == stops' = IF PipeHasRoom THEN stops + 1 ELSE stops

\* The pipe's event is level-triggered: its callback runs while there is a
\* byte, and reads them all.
Readable == starts + stops > 0

DrainPipe == starts' = 0 /\ stops' = 0

\* Mutant: stop() leaves the statuses it finds.
StopWorkerKeepStatus ==
    /\ write_event_enabled' = FALSE
    /\ work_queue' = <<>>
    /\ UNCHANGED work_queue_status

\* stop(): the loop is broken off and what was queued is forgotten.
StopWorker ==
    /\ write_event_enabled' = FALSE
    /\ work_queue' = <<>>
    /\ work_queue_status' = [t \in Topics |-> FALSE]

-----------------------------------------------------------------------------
WorkerTypeOK ==
    /\ work_queue \in Seq(Topics)
    /\ work_queue_status \in [Topics -> BOOLEAN]
    /\ starts \in 0..PipeCapacity
    /\ stops \in 0..PipeCapacity
    /\ starts + stops <= PipeCapacity
    /\ write_event_enabled \in BOOLEAN

\* submitWork/popWork/popWorks/stop: work_queue_status tells exactly which
\* topics are in the queue, and none is there twice, so a queue without
\* duplicates needs no limit.
StatusIsQueue ==
    DisableDuplicates =>
        /\ \A t \in Topics : work_queue_status[t] <=> Queued(t)
        /\ \A i, j \in 1..Len(work_queue) :
              work_queue[i] = work_queue[j] => i = j
=============================================================================
