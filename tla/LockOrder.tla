----------------------------- MODULE LockOrder ------------------------------
(***************************************************************************)
(* The mutexes of the repeater and the order in which its threads take     *)
(* them.  What a thread does is left out but for its locks: a program is   *)
(* the sequence of its requests and releases, and a thread that holds      *)
(* nothing may return from it early.  Sockets, pipes and events are in the *)
(* other modules; none is waited for under a lock.                         *)
(***************************************************************************)
EXTENDS Integers, Sequences, FiniteSets

CONSTANTS
    Readers,            \* reading threads of subscriber connections
    Writers,            \* their writing threads, of either mode
    Publishers,         \* handlers of publishers, and layer connectors
    MaxRunning          \* bound: threads that run at the same time

Threads == Readers \cup Writers \cup Publishers
             \cup {"accepting", "detection", "dispatching", "detecting",
                   "watchdog"}

VARIABLES
    steps,              \* steps[t]: what is left of the program of t
    held                \* held[t]: the requests granted to t, oldest first

vars == <<steps, held>>

Running == DOMAIN steps

Exclusive(lock) == [lock |-> lock, shared |-> FALSE]
Shared(lock) == [lock |-> lock, shared |-> TRUE]
Release == [lock |-> "none", shared |-> FALSE]

\* A scope with a lock_guard, unique_lock or shared_lock, and what is done in it.
Under(request, inner) == <<request>> \o inner \o <<Release>>
Alone(request) == Under(request, <<>>)

\* rw_lock_ of AbstractBootstrap, and the one SubscriberBootstrap has besides
Table == "table"
Subscriber == "subscriber"

-----------------------------------------------------------------------------
\* AbstractBootstrap
StartAccept == Alone(Exclusive(Table))
RefreshKeepAlive == Alone(Exclusive(Table))
KillAlive == Alone(Exclusive(Table))
IsConnectionExists == Alone(Shared(Table))

\* GlobalContext
UpdateConnectionsFull == Alone(Exclusive("context"))
GetConnectionsFullRoles == Alone(Shared("context"))

\* ConsumeRecordComposite and ConsumeRecord
CreateNewRecord == Alone(Exclusive("records"))
GetRecord == Alone(Shared("records"))
RemoveRecord == Alone(Exclusive("records"))
GetMeta == Alone(Shared("record"))
Initialize == Alone(Exclusive("record"))
UpdateSequence == Alone(Exclusive("record"))

\* MessageCircleComposite and MessageCircle
CreateCircleIfAbsent == Alone(Exclusive("circles"))
Append1 == Alone(Exclusive("circle"))
AppendMessageToCircle == Under(Shared("circles"), Append1)
GetTopics == Alone(Shared("circles"))
GetCircle == Alone(Shared("circles"))
GetCircleMeta == Alone(Shared("circle"))
Read == Alone(Shared("circle"))

\* EventLoopWorker: of the dispatching, and of a connection
SubmitWork(worker) == Alone(Exclusive(worker))
PopWork(worker) == Alone(Exclusive(worker))
HasWorks(worker) == Alone(Shared(worker))
Stop(worker) == Alone(Exclusive(worker))

\* SubscriberBootstrap
PutSubscribed == Alone(Exclusive(Subscriber))
RemoveSubscribed == Alone(Exclusive(Subscriber))
IsSubscribed == Alone(Shared(Subscriber))
PutTopicConnection == Alone(Exclusive(Subscriber))
FindEventLoop == Alone(Shared(Subscriber))
ReleaseConnectionEventData == Alone(Exclusive(Subscriber))
EnqueueControlFrame == Alone(Exclusive("control"))
TakeControlFrame == Alone(Exclusive("control"))

-----------------------------------------------------------------------------
ClearConnectionResource ==
    RemoveRecord \o RemoveSubscribed \o ReleaseConnectionEventData

StartAliveDetection(expired) ==
    Under(Exclusive(Table),
          (IF expired THEN ClearConnectionResource ELSE <<>>)
              \o UpdateConnectionsFull)

\* Mutant: the connection of a loop that cannot be notified is killed at once.
DispatchMessageKills ==
    Under(Shared(Subscriber), SubmitWork("worker") \o KillAlive)

DispatchMessage == Under(Shared(Subscriber), SubmitWork("worker"))

\* The loop that takes topics and passes them on
Dispatch == PopWork("works") \o DispatchMessage

\* startConnectionDetectingThread: it copies the map and looks afterwards.
DetectConnection ==
    Alone(Shared(Subscriber)) \o IsConnectionExists \o IsSubscribed \o KillAlive

WatchConnectionsAndCircles ==
    GetTopics \o GetCircle \o GetCircleMeta \o GetConnectionsFullRoles

Publish ==
    CreateCircleIfAbsent \o AppendMessageToCircle \o SubmitWork("works")

AnswerPing == EnqueueControlFrame \o RefreshKeepAlive

Subscribe ==
    CreateNewRecord \o GetRecord \o GetCircle \o GetCircleMeta \o Initialize
        \o EnqueueControlFrame \o PutSubscribed \o PutTopicConnection
        \o FindEventLoop \o SubmitWork("worker")

FlushPendingFrame == TakeControlFrame \o UpdateSequence

DeliverTopic ==
    GetCircle \o GetMeta \o GetCircleMeta \o Initialize \o Read \o UpdateSequence

\* The writing thread of normal mode
WriteNormal ==
    IsConnectionExists \o IsSubscribed \o GetRecord \o FlushPendingFrame
        \o IsSubscribed \o DeliverTopic \o RemoveSubscribed \o KillAlive

RequeueTopicIfPending ==
    GetCircle \o GetMeta \o GetCircleMeta \o SubmitWork("worker")

DisconnectEventLoopSubscriber == RemoveSubscribed \o Stop("worker")

\* The writing thread of event-loop mode
ProcessEventLoopOutput ==
    IsSubscribed \o GetRecord \o FlushPendingFrame \o IsSubscribed
        \o PopWork("worker") \o DeliverTopic \o RequeueTopicIfPending
        \o TakeControlFrame \o HasWorks("worker")
        \o DisconnectEventLoopSubscriber

Programs(t) ==
    CASE t = "accepting" -> {StartAccept}
      [] t = "detection" -> {StartAliveDetection(e) : e \in BOOLEAN}
      [] t = "dispatching" -> {Dispatch}
      [] t = "detecting" -> {DetectConnection}
      [] t = "watchdog" -> {WatchConnectionsAndCircles}
      [] t \in Readers -> {AnswerPing, Subscribe, KillAlive}
      [] t \in Writers -> {WriteNormal, ProcessEventLoopOutput}
      [] t \in Publishers -> {Publish, RefreshKeepAlive, KillAlive}

-----------------------------------------------------------------------------
Init ==
    \E running \in SUBSET Threads :
        /\ Cardinality(running) = MaxRunning
        /\ steps = [t \in running |-> <<>>]
        /\ held = [t \in running |-> <<>>]

Start(t) ==
    /\ steps[t] = <<>>
    /\ \E program \in Programs(t) : steps' = [steps EXCEPT ![t] = program]
    /\ UNCHANGED held

Requests(t) == steps[t] # <<>> /\ Head(steps[t]) # Release

\* Two requests of one mutex that are not granted together.
Conflict(r, s) == r.lock = s.lock /\ ~(r.shared /\ s.shared)

HeldBy(t) == {held[t][i] : i \in DOMAIN held[t]}

\* A mutex is not recursive: a thread may be in its own way.
InTheWay(u, request) == \E r \in HeldBy(u) : Conflict(r, request)

Lock(t) ==
    /\ Requests(t)
    /\ \A u \in Running : ~InTheWay(u, Head(steps[t]))
    /\ held' = [held EXCEPT ![t] = Append(@, Head(steps[t]))]
    /\ steps' = [steps EXCEPT ![t] = Tail(@)]

\* Locks are released in the opposite order, as scopes end.
Unlock(t) ==
    /\ steps[t] # <<>> /\ Head(steps[t]) = Release
    /\ held' = [held EXCEPT ![t] = SubSeq(@, 1, Len(@) - 1)]
    /\ steps' = [steps EXCEPT ![t] = Tail(@)]

\* The rest is not done: no such connection, nothing to send, a full queue.
Return(t) ==
    /\ steps[t] # <<>> /\ held[t] = <<>>
    /\ steps' = [steps EXCEPT ![t] = <<>>]
    /\ UNCHANGED held

Next == \E t \in Running : Start(t) \/ Lock(t) \/ Unlock(t) \/ Return(t)

Spec == Init /\ [][Next]_vars

-----------------------------------------------------------------------------
\* t cannot go on before u does: u holds what t requests, or u waits for it
\* exclusively and shared_mutex lets nobody pass.
WaitsFor(t, u) ==
    /\ Requests(t)
    /\ \/ InTheWay(u, Head(steps[t]))
       \/ /\ u # t /\ Requests(u)
          /\ Head(steps[t]).shared
          /\ Head(steps[u]) = Exclusive(Head(steps[t]).lock)

\* startAliveDetection, dispatchMessage, appendMessageToCircle: though each
\* takes a lock under another, no threads wait for each other in a circle,
\* whether readers or writers of a shared_mutex go first.
NoCircularWait ==
    \A waiting \in SUBSET Running \ {{}} :
        \E t \in waiting : \A u \in waiting : ~WaitsFor(t, u)
=============================================================================
