---------------------------- MODULE DispatchLoop ----------------------------
(***************************************************************************)
(* The event loop that dispatches.  A publisher or layer thread appends a  *)
(* message, submits its topic to the dispatching worker and writes a byte  *)
(* only if the topic was accepted; the loop drains the pipe, takes every   *)
(* topic and passes each one to the connections.  A refused submitter      *)
(* relies on the thread that queued the topic, which may not have written  *)
(* its byte yet.                                                           *)
(***************************************************************************)
EXTENDS EventLoopWorker

CONSTANT Threads        \* threads of publishers and layer connectors

VARIABLES
    submitter,          \* submitter[h]: has h queued a topic and not notified
    loop,               \* where the thread of the event loop is
    owed                \* history: topics submitted, refused ones included,
                        \* and not taken by the loop since

dispatch == <<worker, submitter, loop, owed>>

DispatchInit ==
    /\ InitWorker
    /\ submitter = [h \in Threads |-> "idle"]
    /\ loop = "waiting"
    /\ owed = {}

\* Mutant: the publisher does not notify after an accepted submission.
SubmitOnly(h, t) ==
    /\ submitter[h] = "idle"
    /\ Accepts(t)
    /\ Push(t)
    /\ owed' = owed \cup {t}
    /\ UNCHANGED <<pipe, write_event_enabled, submitter, loop>>

\* submit_message_topic_to_event_loop returns true, and the thread goes on
\* to notify.
SubmitWork(h, t) ==
    /\ submitter[h] = "idle"
    /\ Accepts(t)
    /\ Push(t)
    /\ submitter' = [submitter EXCEPT ![h] = "submitted"]
    /\ owed' = owed \cup {t}
    /\ UNCHANGED <<pipe, write_event_enabled, loop>>

\* It returns false, and the thread does not notify.
SubmitRefused(h, t) ==
    /\ submitter[h] = "idle"
    /\ ~Accepts(t)
    /\ owed' = owed \cup {t}
    /\ UNCHANGED <<worker, submitter, loop>>

NotifyStartWork(h) ==
    /\ submitter[h] = "submitted"
    /\ WriteStart
    /\ submitter' = [submitter EXCEPT ![h] = "idle"]
    /\ UNCHANGED <<queue, stops, write_event_enabled, loop, owed>>

Drain ==
    /\ loop = "waiting"
    /\ Readable
    /\ DrainPipe
    /\ loop' = "drained"
    /\ UNCHANGED <<queue, write_event_enabled, submitter, owed>>

PopWorks ==
    /\ loop = "drained"
    /\ PopAll
    /\ owed' = {t \in owed : ~Queued(t)}
    /\ loop' = "dispatching"
    /\ UNCHANGED <<pipe, write_event_enabled, submitter>>

\* dispatchMessage has been called for every topic taken.
Dispatched ==
    /\ loop = "dispatching"
    /\ loop' = "waiting"
    /\ UNCHANGED <<worker, submitter, owed>>

Callback == Drain \/ PopWorks \/ Dispatched

DispatchNext ==
    \/ \E h \in Threads, t \in Topics : SubmitWork(h, t) \/ SubmitRefused(h, t)
    \/ \E h \in Threads : NotifyStartWork(h)
    \/ Callback

DispatchSpec == DispatchInit /\ [][DispatchNext]_dispatch

-----------------------------------------------------------------------------
\* The variables keep their types; the pipe never holds more than it can.
TypeOK ==
    /\ WorkerTypeOK
    /\ submitter \in [Threads -> {"idle", "submitted"}]
    /\ loop \in {"waiting", "drained", "dispatching"}
    /\ owed \subseteq Topics

\* submitWork: a topic that was submitted, also one that was refused because
\* it is queued already, is in the queue until a pop that comes after.
OwedIsQueued == DisableDuplicates => \A t \in owed : Queued(t)

\* notifyStartWork and the callback: a queue with work in it is never left
\* to a loop that sleeps, or will sleep before it looks at the queue, unless
\* there is a byte in the pipe or a thread about to write one.
NoLostWakeup ==
    work_queue # <<>> =>
        \/ loop = "drained"
        \/ Readable
        \/ \E h \in Threads : submitter[h] = "submitted"
=============================================================================
