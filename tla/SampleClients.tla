---------------------------- MODULE SampleClients ----------------------------
(***************************************************************************)
(* A process that runs one of the two samples.                             *)
(***************************************************************************)
EXTENDS ClientConnection

CONSTANT MaxPublisherFaults     \* bound: failures around a publisher

VARIABLES
    sample,             \* which one it is
    is_subscribed,      \* of a subscriber
    served              \* what the repeater has answered to it

Subscriber == INSTANCE SampleSubscriber
Publisher == INSTANCE SamplePublisher WITH MaxFaults <- MaxPublisherFaults

subscription == <<is_subscribed, served>>
vars == <<clientVars, subscription, sample>>

Init == Subscriber!Init /\ sample \in {"subscriber", "publisher"}

Subscribing(action) == sample = "subscriber" /\ action /\ UNCHANGED sample
Publishing(action) ==
    sample = "publisher" /\ action /\ UNCHANGED <<sample, subscription>>

Next == Subscribing(Subscriber!Next) \/ Publishing(Publisher!Next)

Spec == Init /\ [][Next]_vars

\* The threads run, and the repeater closes what is not pinged.
Fairness ==
    /\ WF_vars(Subscribing(Subscriber!Client))
    /\ WF_vars(Publishing(Publisher!Client))
    /\ \A p \in Pings :
          /\ WF_vars(Subscribing(Subscriber!PingThread(p)))
          /\ WF_vars(Publishing(Publisher!PingThread(p)))
    /\ \A c \in Connections :
          SF_vars(PeerExpires(c) /\ UNCHANGED <<sample, subscription>>)

FairSpec == Spec /\ Fairness

-----------------------------------------------------------------------------
\* closeConnection, readMessage and subscribe against the ping threads: after the
\* last failure, whatever thread noticed it and wherever the loop was, the client
\* is subscribed in the end and stays so.
Resubscribes == sample = "subscriber" => <>[]Subscriber!Subscribed

\* sendMessage, createConnection and the ping threads, also one that was left
\* in recv() by an earlier connection and closes the next: after the last
\* failure messages arrive again.
KeepsPublishing ==
    sample = "publisher" => []<><<Publishing(Publisher!Published)>>_vars

\* "waiting for retry connection": a client that has lost its connection has
\* one again in the end.
LossIsRetried == ~is_connected ~> is_connected
=============================================================================
