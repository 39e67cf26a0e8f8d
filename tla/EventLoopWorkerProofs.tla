----------------------- MODULE EventLoopWorkerProofs -----------------------
(***************************************************************************)
(* What the methods of EventLoopWorker preserve, for any topics, limit and *)
(* pipe capacity.  The proofs about the threads that call them, in         *)
(* IngestProofs and SubscriberEventLoopProofs, rest on these lemmas.       *)
(***************************************************************************)
EXTENDS EventLoopWorker, TLAPS

QueueTypeOK ==
    /\ work_queue \in Seq(Topics)
    /\ work_queue_status \in [Topics -> BOOLEAN]

PipeTypeOK ==
    /\ starts \in 0..PipeCapacity
    /\ stops \in 0..PipeCapacity
    /\ starts + stops <= PipeCapacity

\* The type invariant of a worker, part by part.
LEMMA WorkerTypes ==
  WorkerTypeOK <=> QueueTypeOK /\ PipeTypeOK /\ write_event_enabled \in BOOLEAN
  BY DEF WorkerTypeOK, QueueTypeOK, PipeTypeOK

\* What is in a queue after a push and after a pop.
LEMMA PushFacts ==
  ASSUME NEW q \in Seq(Topics), NEW t \in Topics
  PROVE  /\ Append(q, t) \in Seq(Topics)
         /\ Len(Append(q, t)) = Len(q) + 1
         /\ \A i \in 1..Len(q) : Append(q, t)[i] = q[i]
         /\ Append(q, t)[Len(q) + 1] = t
         /\ Append(q, t) # <<>>
  OBVIOUS

\* popWork, popWorks: what is left in the queue.
LEMMA PopFacts ==
  ASSUME NEW q \in Seq(Topics), q # <<>>
  PROVE  /\ Tail(q) \in Seq(Topics)
         /\ Head(q) \in Topics /\ Head(q) = q[1]
         /\ Len(q) \in Nat \ {0} /\ Len(Tail(q)) = Len(q) - 1
         /\ \A i \in 1..Len(q) - 1 : Tail(q)[i] = q[i + 1]
  OBVIOUS

\* submitWork: the topic is queued and nothing leaves the queue.
LEMMA PushQueue ==
  ASSUME QueueTypeOK, NEW t \in Topics, Push(t)
  PROVE  /\ QueueTypeOK'
         /\ work_queue' # <<>>
         /\ \A u \in Topics : Queued(u)' <=> Queued(u) \/ u = t
         /\ Len(work_queue') = Len(work_queue) + 1
<1>1. work_queue \in Seq(Topics) /\ work_queue' = Append(work_queue, t)
  BY DEF QueueTypeOK, Push
<1>2. /\ work_queue' \in Seq(Topics)
      /\ work_queue' # <<>>
      /\ Len(work_queue') = Len(work_queue) + 1
      /\ \A i \in 1..Len(work_queue) : work_queue'[i] = work_queue[i]
      /\ work_queue'[Len(work_queue) + 1] = t
      /\ Len(work_queue) \in Nat
  BY <1>1, PushFacts
<1>3. \A u \in Topics : Queued(u)' <=> Queued(u) \/ u = t
  BY <1>2 DEF Queued
<1>4. work_queue_status' \in [Topics -> BOOLEAN]
  BY DEF Push, SetStatus, QueueTypeOK
<1> QED
  BY <1>2, <1>3, <1>4 DEF QueueTypeOK

\* submitWork: the status of the item submitted is set.
LEMMA PushStatus ==
  ASSUME QueueTypeOK, StatusIsQueue, NEW t \in Topics, Accepts(t), Push(t)
  PROVE  StatusIsQueue'
<1> SUFFICES ASSUME DisableDuplicates
             PROVE  /\ \A u \in Topics : work_queue_status'[u] <=> Queued(u)'
                    /\ \A i, j \in 1..Len(work_queue') :
                          work_queue'[i] = work_queue'[j] => i = j
  BY DEF StatusIsQueue
<1>1. /\ work_queue' = Append(work_queue, t)
      /\ work_queue_status' = [work_queue_status EXCEPT ![t] = TRUE]
      /\ ~work_queue_status[t]
  BY DEF Push, SetStatus, Accepts
<1>2. /\ \A i \in 1..Len(work_queue) : work_queue[i] # t
      /\ \A u \in Topics : work_queue_status[u] <=> Queued(u)
      /\ \A i, j \in 1..Len(work_queue) :
            work_queue[i] = work_queue[j] => i = j
  BY <1>1 DEF StatusIsQueue, Queued
<1>3. /\ Len(work_queue') = Len(work_queue) + 1
      /\ \A i \in 1..Len(work_queue) : work_queue'[i] = work_queue[i]
      /\ work_queue'[Len(work_queue) + 1] = t
      /\ Len(work_queue) \in Nat
  BY <1>1, PushFacts DEF QueueTypeOK
<1>4. \A u \in Topics : work_queue_status'[u] <=> Queued(u)'
  <2>1. \A u \in Topics : work_queue_status'[u] <=> work_queue_status[u] \/ u = t
    BY <1>1 DEF QueueTypeOK
  <2> QED
    BY <2>1, <1>2, PushQueue
<1>5. \A i, j \in 1..Len(work_queue') : work_queue'[i] = work_queue'[j] => i = j
  BY <1>2, <1>3
<1> QED
  BY <1>4, <1>5

\* popWork: the head leaves the queue and the others stay.
LEMMA PopQueue ==
  ASSUME QueueTypeOK, PopFront
  PROVE  /\ QueueTypeOK'
         /\ Head(work_queue) \in Topics
         /\ Queued(Head(work_queue))
         /\ Len(work_queue') = Len(work_queue) - 1
         /\ \A u \in Topics : Queued(u) /\ u # Head(work_queue) => Queued(u)'
         /\ \A u \in Topics : Queued(u)' => Queued(u)
<1> DEFINE t == Head(work_queue)
<1>1. work_queue' = Tail(work_queue) /\ work_queue # <<>>
      /\ work_queue \in Seq(Topics)
  BY DEF PopFront, QueueTypeOK
<1>2. /\ work_queue' \in Seq(Topics)
      /\ t \in Topics /\ t = work_queue[1]
      /\ Len(work_queue) \in Nat \ {0}
      /\ Len(work_queue') = Len(work_queue) - 1
      /\ \A i \in 1..Len(work_queue) - 1 : work_queue'[i] = work_queue[i + 1]
  BY <1>1, PopFacts
<1> HIDE DEF t
<1>3. ASSUME NEW u \in Topics, Queued(u), u # t PROVE Queued(u)'
  <2>1. PICK i \in 1..Len(work_queue) : work_queue[i] = u
    BY <1>3 DEF Queued
  <2>2. i - 1 \in 1..Len(work_queue') /\ work_queue'[i - 1] = u
    BY <1>2, <1>3, <2>1
  <2> QED
    BY <2>2 DEF Queued
<1>4. ASSUME NEW u \in Topics, Queued(u)' PROVE Queued(u)
  <2>1. PICK i \in 1..Len(work_queue') : work_queue'[i] = u
    BY <1>4 DEF Queued
  <2>2. i + 1 \in 1..Len(work_queue) /\ work_queue[i + 1] = u
    BY <1>2, <2>1
  <2> QED
    BY <2>2 DEF Queued
<1>5. Queued(t)
  BY <1>2 DEF Queued
<1>6. work_queue_status' \in [Topics -> BOOLEAN]
  BY DEF PopFront, SetStatus, QueueTypeOK
<1> QED
  BY <1>2, <1>3, <1>4, <1>5, <1>6 DEF QueueTypeOK, t

\* popWork, popWorks: the status of the items taken is cleared.
LEMMA PopStatus ==
  ASSUME QueueTypeOK, StatusIsQueue, PopFront
  PROVE  StatusIsQueue'
<1> SUFFICES ASSUME DisableDuplicates
             PROVE  /\ \A u \in Topics : work_queue_status'[u] <=> Queued(u)'
                    /\ \A i, j \in 1..Len(work_queue') :
                          work_queue'[i] = work_queue'[j] => i = j
  BY DEF StatusIsQueue
<1>0. PICK t \in Topics : t = Head(work_queue)
  BY PopQueue
<1>1. /\ work_queue' = Tail(work_queue) /\ work_queue # <<>>
      /\ work_queue_status' = [work_queue_status EXCEPT ![t] = FALSE]
      /\ work_queue \in Seq(Topics)
  BY <1>0 DEF PopFront, SetStatus, QueueTypeOK
<1>2. /\ t \in Topics /\ t = work_queue[1]
      /\ Len(work_queue) \in Nat \ {0}
      /\ Len(work_queue') = Len(work_queue) - 1
      /\ \A i \in 1..Len(work_queue) - 1 : work_queue'[i] = work_queue[i + 1]
  BY <1>0, <1>1, PopFacts
<1>3. /\ \A u \in Topics : work_queue_status[u] <=> Queued(u)
      /\ \A i, j \in 1..Len(work_queue) :
            work_queue[i] = work_queue[j] => i = j
  BY DEF StatusIsQueue
<1>4. \A u \in Topics : Queued(u) /\ u # t => Queued(u)'
  BY <1>0, PopQueue
<1>5. \A u \in Topics : Queued(u)' => Queued(u)
  BY PopQueue
<1>6. \A u \in Topics : work_queue_status'[u] <=> work_queue_status[u] /\ u # t
  BY <1>1, <1>2 DEF QueueTypeOK
<1>7. ~Queued(t)'
  <2> SUFFICES ASSUME NEW i \in 1..Len(work_queue'), work_queue'[i] = t
               PROVE  FALSE
    BY DEF Queued
  <2>1. i + 1 \in 1..Len(work_queue) /\ work_queue[i + 1] = work_queue[1]
    BY <1>2
  <2>2. i + 1 = 1
    BY <1>2, <1>3, <2>1
  <2> QED
    BY <1>2, <2>2
<1>8. \A u \in Topics : work_queue_status'[u] <=> Queued(u)'
  BY <1>3, <1>4, <1>5, <1>6, <1>7
<1>9. ASSUME NEW i \in 1..Len(work_queue'), NEW j \in 1..Len(work_queue'),
             work_queue'[i] = work_queue'[j]
      PROVE  i = j
  <2>1. i + 1 \in 1..Len(work_queue) /\ j + 1 \in 1..Len(work_queue)
        /\ work_queue[i + 1] = work_queue[j + 1]
    BY <1>2, <1>9
  <2>2. i + 1 = j + 1
    BY <1>3, <2>1
  <2> QED
    BY <1>2, <2>2
<1> QED
  BY <1>8, <1>9

\* popWorks and stop: the queue is empty, and so are the statuses.
LEMMA PopAllQueue ==
  ASSUME QueueTypeOK, StatusIsQueue, PopAll
  PROVE  QueueTypeOK' /\ StatusIsQueue' /\ work_queue' = <<>>
<1>1. work_queue' = <<>> /\ work_queue' \in Seq(Topics)
  BY DEF PopAll
<1>2. work_queue_status' \in [Topics -> BOOLEAN]
  BY DEF PopAll, QueueTypeOK
<1>3. DisableDuplicates => \A t \in Topics : ~work_queue_status'[t]
  BY DEF PopAll, StatusIsQueue
<1> QED
  BY <1>1, <1>2, <1>3 DEF QueueTypeOK, StatusIsQueue, Queued

\* EventLoopWorker::stop: nothing is queued and no status is set.
LEMMA StopQueue ==
  ASSUME StopWorker
  PROVE  /\ QueueTypeOK' /\ StatusIsQueue' /\ work_queue' = <<>>
         /\ write_event_enabled' = FALSE
<1>1. work_queue' = <<>> /\ work_queue' \in Seq(Topics)
  BY DEF StopWorker
<1>2. work_queue_status' \in [Topics -> BOOLEAN]
      /\ \A t \in Topics : ~work_queue_status'[t]
  BY DEF StopWorker
<1>3. write_event_enabled' = FALSE
  BY DEF StopWorker
<1> QED
  BY <1>1, <1>2, <1>3 DEF QueueTypeOK, StatusIsQueue, Queued

\* A step that leaves the queue alone leaves what is said of it alone.
LEMMA SameQueue ==
  ASSUME UNCHANGED queue
  PROVE  /\ QueueTypeOK => QueueTypeOK'
         /\ StatusIsQueue => StatusIsQueue'
         /\ \A u \in Topics : Queued(u)' <=> Queued(u)
  BY DEF queue, QueueTypeOK, StatusIsQueue, Queued

\* After a write, also one that met a full pipe, there is a byte to read.
LEMMA StartWritten ==
  ASSUME PipeTypeOK, WriteStart, stops' = stops
  PROVE  PipeTypeOK' /\ Readable'
  BY WorkerAssumption DEF PipeTypeOK, WriteStart, PipeHasRoom, Readable

\* notifyStopWork: once it has written there is a byte to read.
LEMMA StopWritten ==
  ASSUME PipeTypeOK, WriteStop, starts' = starts
  PROVE  PipeTypeOK' /\ Readable'
  BY WorkerAssumption DEF PipeTypeOK, WriteStop, PipeHasRoom, Readable

\* The callback reads the pipe empty.
LEMMA PipeDrained ==
  ASSUME DrainPipe
  PROVE  PipeTypeOK' /\ ~Readable'
  BY WorkerAssumption DEF PipeTypeOK, DrainPipe, Readable

\* A step that leaves the pipe alone.
LEMMA SamePipe ==
  ASSUME UNCHANGED pipe
  PROVE  (PipeTypeOK => PipeTypeOK') /\ (Readable <=> Readable')
  BY DEF pipe, PipeTypeOK, Readable

\* EventLoopWorker's constructor.
LEMMA WorkerInit ==
  ASSUME InitWorker
  PROVE  /\ WorkerTypeOK /\ StatusIsQueue
         /\ work_queue = <<>>
<1>1. work_queue = <<>> /\ work_queue \in Seq(Topics)
  BY DEF InitWorker
<1>2. work_queue_status \in [Topics -> BOOLEAN]
      /\ \A t \in Topics : ~work_queue_status[t]
  BY DEF InitWorker
<1>3. write_event_enabled \in BOOLEAN
  BY DEF InitWorker
<1>4. PipeTypeOK
  BY WorkerAssumption DEF InitWorker, PipeTypeOK
<1> QED
  BY <1>1, <1>2, <1>3, <1>4, WorkerTypes, WorkerAssumption
  DEF QueueTypeOK, StatusIsQueue, Queued
=============================================================================
