-------------------------- MODULE SampleSubscriber --------------------------
(***************************************************************************)
(* RepeaterSubscriber in the loop of sample_subscriber: connect, subscribe, *)
(* read messages, and all of it again when something fails.                *)
(***************************************************************************)
EXTENDS ClientConnection

VARIABLES
    is_subscribed,
    served              \* served[c]: the repeater has answered ok on c

Init ==
    /\ InitClient
    /\ is_subscribed = FALSE
    /\ served = [c \in Connections |-> FALSE]

Loop == WakeUp \/ AlreadyConnected \/ ConnectionFails

\* A new connection has not been answered yet.
Connect == Connects /\ served' = [c \in Connections |-> InUse(c) /\ served[c]]

-----------------------------------------------------------------------------
\* subscribe(): it refuses without a connection, and has nothing to do when the
\* subscription is there;
SubscribeReturns ==
    /\ at["loop"] = "connected" /\ (~is_connected \/ is_subscribed)
    /\ Goto("loop", IF is_connected THEN "reading" ELSE "sleeping")
    /\ UNCHANGED <<network, client, on, is_subscribed, served>>

\* it sends the topics, and the repeater answers ok or, by a fault, not,
SubscribeSent ==
    /\ at["loop"] = "connected" /\ is_connected /\ ~is_subscribed
    /\ \/ /\ Sends(<<"ok">>)
          /\ served' = [served EXCEPT ![Current] = @ \/ link[Current] = "up"]
       \/ /\ Current # 0 /\ link[Current] = "up"
          /\ Fault
          /\ inbox' = [inbox EXCEPT ![Current] = Append(@, "refusal")]
          /\ UNCHANGED <<descriptor, link, served>>
    /\ Goto("loop", "asked")
    /\ UNCHANGED <<client, on, is_subscribed>>

\* or cannot send.  The connection stays as it is.
SubscribeNotSent ==
    /\ at["loop"] = "connected" /\ is_connected /\ ~is_subscribed
    /\ SendFails
    /\ Goto("loop", "sleeping")
    /\ UNCHANGED <<client, on, is_subscribed, served>>

WaitAnswer ==
    /\ EntersRecv("loop", "asked", "answering")
    /\ UNCHANGED <<is_subscribed, served>>

\* The first frame that comes is taken for the answer.
Answered ==
    /\ at["loop"] = "answering"
    /\ \E frame \in {"ok", "refusal", "pong", "message"} :
          /\ Takes("loop", frame)
          /\ is_subscribed' = (is_subscribed \/ frame = "ok")
          /\ Goto("loop", IF frame = "ok" THEN "reading" ELSE "sleeping")
    /\ UNCHANGED <<client, served>>

NotAnswered ==
    /\ TakesNothing("loop", "asked", "answering")
    /\ Goto("loop", "sleeping")
    /\ UNCHANGED <<client, is_subscribed, served>>

-----------------------------------------------------------------------------
\* readMessage()
WaitMessage ==
    /\ EntersRecv("loop", "reading", "receiving")
    /\ UNCHANGED <<is_subscribed, served>>

\* The repeater's pongs are all "ok"; one that is not would close as a ping does.
ReadMessage ==
    /\ at["loop"] = "receiving"
    /\ \E frame \in {"ok", "refusal", "pong", "message"} : Takes("loop", frame)
    /\ Goto("loop", "reading")
    /\ UNCHANGED <<client, is_subscribed, served>>

\* The flags are reset; the descriptor is not closed.
ReadFails ==
    /\ TakesNothing("loop", "reading", "receiving")
    /\ is_subscribed' = FALSE
    /\ is_connected' = FALSE
    /\ Goto("loop", "sleeping")
    /\ UNCHANGED <<client_fd, served>>

-----------------------------------------------------------------------------
Ping(p) ==
    /\ PingReady(p)
    /\ Sends(<<"pong">>)
    /\ Goto(p, "sleeping")
    /\ UNCHANGED <<client, on, is_subscribed, served>>

PingFails(p) ==
    /\ at[p] = "pinging"
    /\ SendFails
    /\ Goto(p, "closing")
    /\ UNCHANGED <<client, on, is_subscribed, served>>

\* Mutant: closeConnection() leaves is_connected_.
PingClosesOnly(p) ==
    /\ at[p] = "closed"
    /\ is_subscribed' = FALSE
    /\ Goto(p, "none")
    /\ UNCHANGED <<network, client, on, served>>

\* The rest of closeConnection(), with which the thread ends
PingCloses(p) ==
    /\ at[p] = "closed"
    /\ is_connected' = FALSE
    /\ is_subscribed' = FALSE
    /\ Goto(p, "none")
    /\ UNCHANGED <<network, client_fd, on, served>>

PingThread(p) ==
    \/ Ping(p) \/ PingFails(p) \/ PingCloses(p)
    \/ /\ PingEnds(p) \/ PingWakes(p) \/ CloseDescriptor(p)
       /\ UNCHANGED <<is_subscribed, served>>

\* A message of a topic
PeerSends(c) ==
    /\ InUse(c) /\ link[c] = "up" /\ served[c] /\ HasRoom(c)
    /\ inbox' = [inbox EXCEPT ![c] = Append(@, "message")]
    /\ UNCHANGED <<descriptor, link, faults, client, at, on, is_subscribed, served>>

Client ==
    \/ Loop /\ UNCHANGED <<is_subscribed, served>>
    \/ Connect /\ UNCHANGED is_subscribed
    \/ StartsPing /\ UNCHANGED <<is_subscribed, served>>
    \/ SubscribeReturns \/ SubscribeSent \/ SubscribeNotSent
    \/ WaitAnswer \/ Answered \/ NotAnswered
    \/ WaitMessage \/ ReadMessage \/ ReadFails

Next ==
    \/ Client
    \/ \E p \in Pings : PingThread(p)
    \/ Environment /\ UNCHANGED <<is_subscribed, served>>
    \/ \E c \in Connections : PeerSends(c)

\* The client is connected and subscribed, and the repeater sees it so.
Subscribed ==
    /\ is_connected /\ is_subscribed
    /\ Current # 0 /\ link[Current] = "up" /\ served[Current]
=============================================================================
