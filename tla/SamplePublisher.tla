-------------------------- MODULE SamplePublisher ---------------------------
(***************************************************************************)
(* RepeaterPublisher in the loop of sample_publisher: connect, send up to  *)
(* a hundred messages, and all of it again.  Its ping thread also reads    *)
(* the pongs.                                                              *)
(***************************************************************************)
EXTENDS ClientConnection

Init == InitClient

-----------------------------------------------------------------------------
\* sendMessage(): without a connection it fails at once,
SendRefused ==
    /\ at["loop"] = "connected" /\ ~is_connected
    /\ Goto("loop", "sleeping")
    /\ UNCHANGED <<network, client, on>>

\* a message that is sent is one of a hundred,
SendMessage ==
    /\ at["loop"] = "connected" /\ is_connected
    /\ Sends(<<>>)
    /\ Goto("loop", "sent")
    /\ UNCHANGED <<client, on>>

NextMessage ==
    /\ at["loop"] = "sent"
    /\ \E next \in {"connected", "sleeping"} : Goto("loop", next)
    /\ UNCHANGED <<network, client, on>>

\* and one that is not closes the connection.
SendMessageFails ==
    /\ at["loop"] = "connected" /\ is_connected
    /\ SendFails
    /\ Goto("loop", "closing")
    /\ UNCHANGED <<client, on>>

\* The rest of closeConnection()
Closed(t, next) ==
    /\ at[t] = "closed"
    /\ is_connected' = FALSE
    /\ Goto(t, next)
    /\ UNCHANGED <<network, client_fd, on>>

-----------------------------------------------------------------------------
Ping(p) ==
    /\ PingReady(p)
    /\ Sends(<<"pong">>)
    /\ Goto(p, "pinged")
    /\ UNCHANGED <<client, on>>

\* The flag is reset; the descriptor is not closed.
PingFails(p) ==
    /\ at[p] = "pinging"
    /\ SendFails
    /\ is_connected' = FALSE
    /\ Goto(p, "none")
    /\ UNCHANGED <<client_fd, on>>

WaitPong(p) == EntersRecv(p, "pinged", "receiving")

\* Any frame will do.
ReadPong(p) ==
    /\ at[p] = "receiving"
    /\ Takes(p, "pong")
    /\ Goto(p, "sleeping")
    /\ UNCHANGED client

\* closeConnection() follows, whatever client_fd_ is by now.
ReadPongFails(p) ==
    /\ TakesNothing(p, "pinged", "receiving")
    /\ Goto(p, "closing")
    /\ UNCHANGED client

PingThread(p) ==
    \/ PingEnds(p) \/ PingWakes(p) \/ Ping(p) \/ PingFails(p)
    \/ WaitPong(p) \/ ReadPong(p) \/ ReadPongFails(p)
    \/ CloseDescriptor(p) \/ Closed(p, "none")

Client ==
    \/ WakeUp \/ AlreadyConnected \/ ConnectionFails \/ Connects \/ StartsPing
    \/ SendRefused \/ SendMessage \/ NextMessage \/ SendMessageFails
    \/ CloseDescriptor("loop") \/ Closed("loop", "sleeping")

Next ==
    \/ Client
    \/ \E p \in Pings : PingThread(p)
    \/ Environment

\* A message that the repeater gets
Published == SendMessage /\ link[Current] = "up"
=============================================================================
