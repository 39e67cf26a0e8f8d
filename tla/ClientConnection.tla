-------------------------- MODULE ClientConnection --------------------------
(***************************************************************************)
(* The connection of an example client: its loop, which connects, and the  *)
(* detached ping thread that every connection starts.  They share          *)
(* client_fd_ and is_connected_ without a lock; a thread that is in recv()  *)
(* stays on its connection although the descriptor is closed meanwhile.    *)
(* SampleSubscriber and SamplePublisher add what the two clients do.       *)
(***************************************************************************)
EXTENDS Integers, Sequences

CONSTANTS
    Descriptors,        \* numbers the process may have open besides its own
    Connections,        \* bound: sockets of the kernel at one time
    Pings,              \* bound: ping threads at one time
    MaxFrames,          \* bound: frames on their way to the client
    MaxFaults           \* bound: failures of peer and network

ASSUME ClientAssumption ==
    /\ Descriptors \subseteq Nat \ {0} /\ Descriptors # {}
    /\ Connections \subseteq Nat \ {0}
    /\ MaxFrames \in Nat \ {0}
    /\ MaxFaults \in Nat
    /\ "loop" \notin Pings

VARIABLES
    descriptor,         \* descriptor[d]: the connection d is open for, or 0
    link,               \* link[c]: "up", "closed" by the peer, or "reset"
    inbox,              \* inbox[c]: frames sent to the client and not read
    client_fd,
    is_connected,
    at,                 \* at[t]: where the loop or a ping thread is
    on,                 \* on[t]: the connection in whose recv() t is, or 0
    faults              \* how many failures there were

network == <<descriptor, link, inbox, faults>>
client == <<client_fd, is_connected>>
clientVars == <<network, client, at, on>>

Threads == {"loop"} \cup Pings

InUse(c) == (\E d \in Descriptors : descriptor[d] = c) \/ (\E t \in Threads : on[t] = c)

\* What this->client_fd_ is open for
Current == descriptor[client_fd]

InitClient ==
    /\ descriptor = [d \in Descriptors |-> 0]
    /\ link = [c \in Connections |-> "reset"]
    /\ inbox = [c \in Connections |-> <<>>]
    /\ client_fd = CHOOSE d \in Descriptors : TRUE
    /\ is_connected = FALSE
    /\ at = [t \in Threads |-> IF t = "loop" THEN "sleeping" ELSE "none"]
    /\ on = [t \in Threads |-> 0]
    /\ faults = 0

Goto(t, place) == at' = [at EXCEPT ![t] = place]

Fault == faults < MaxFaults /\ faults' = faults + 1

-----------------------------------------------------------------------------
\* The kernel gives the lowest number that is free.
Free(d) ==
    /\ descriptor[d] = 0
    /\ \A e \in Descriptors : descriptor[e] = 0 => d <= e
Unused(c) == ~InUse(c) /\ \A b \in Connections : ~InUse(b) => c <= b

\* After five seconds the loop calls createConnection().  A ping thread of a
\* lost connection has seen the flag by then, which takes half a second, or its
\* send has timed out; only in recv() it may wait longer.
WakeUp ==
    /\ at["loop"] = "sleeping"
    /\ is_connected \/ \A p \in Pings : at[p] \in {"none", "receiving"}
    /\ Goto("loop", "connecting")
    /\ UNCHANGED <<network, client, on>>

\* createConnection returns at once
AlreadyConnected ==
    /\ at["loop"] = "connecting" /\ is_connected
    /\ Goto("loop", "connected")
    /\ UNCHANGED <<network, client, on>>

\* No descriptor is left, or socket, setsockopt or connect fails and the
\* descriptor is closed again.
ConnectionFails ==
    /\ at["loop"] = "connecting" /\ ~is_connected
    /\ \/ (\A d \in Descriptors : descriptor[d] # 0) /\ UNCHANGED faults
       \/ Fault
    /\ Goto("loop", "sleeping")
    /\ UNCHANGED <<descriptor, link, inbox, client, on>>

\* Mutant: the descriptor stays in the local variable.
ConnectsLocally ==
    /\ at["loop"] = "connecting" /\ ~is_connected
    /\ \E d \in Descriptors, c \in Connections :
          /\ Free(d) /\ Unused(c)
          /\ descriptor' = [descriptor EXCEPT ![d] = c]
          /\ link' = [link EXCEPT ![c] = "up"]
          /\ inbox' = [inbox EXCEPT ![c] = <<>>]
    /\ Goto("loop", "assigned")
    /\ UNCHANGED <<client, on, faults>>

Connects ==
    /\ at["loop"] = "connecting" /\ ~is_connected
    /\ \E d \in Descriptors, c \in Connections :
          /\ Free(d) /\ Unused(c)
          /\ descriptor' = [descriptor EXCEPT ![d] = c]
          /\ link' = [link EXCEPT ![c] = "up"]
          /\ inbox' = [inbox EXCEPT ![c] = <<>>]
          /\ client_fd' = d
    /\ Goto("loop", "assigned")
    /\ UNCHANGED <<is_connected, on, faults>>

\* is_connected_ is set and the ping thread started.
StartsPing ==
    /\ at["loop"] = "assigned"
    /\ is_connected' = TRUE
    /\ \E p \in Pings :
          /\ at[p] = "none"
          /\ at' = [at EXCEPT !["loop"] = "connected", ![p] = "sleeping"]
    /\ UNCHANGED <<network, client_fd, on>>

\* close(this->client_fd_), whatever that is open for
CloseDescriptor(t) ==
    /\ at[t] = "closing"
    /\ descriptor' = [descriptor EXCEPT ![client_fd] = 0]
    /\ Goto(t, "closed")
    /\ UNCHANGED <<link, inbox, faults, client, on>>

-----------------------------------------------------------------------------
\* Bound: what comes unasked waits for room.
HasRoom(c) == Len(inbox[c]) < MaxFrames

\* send_socket_data on a connection; what the repeater answers comes behind
\* what it sent before.  After the peer has closed, one more send succeeds.
Sends(answer) ==
    LET c == Current
    IN  /\ c # 0
        /\ \/ /\ link[c] = "up"
              /\ inbox' = [inbox EXCEPT ![c] = @ \o answer]
              /\ UNCHANGED link
           \/ /\ link[c] = "closed"
              /\ link' = [link EXCEPT ![c] = "reset"]
              /\ UNCHANGED inbox
        /\ UNCHANGED <<descriptor, faults>>

\* The descriptor is closed, the connection is reset, or nothing could be
\* written for five seconds.
SendFails ==
    /\ \/ Current = 0 /\ UNCHANGED faults
       \/ Current # 0 /\ link[Current] = "reset" /\ UNCHANGED faults
       \/ Current # 0 /\ link[Current] = "up" /\ Fault
    /\ UNCHANGED <<descriptor, link, inbox>>

\* read_socket_frame enters recv() ...
EntersRecv(t, from, to) ==
    /\ at[t] = from /\ Current # 0
    /\ Goto(t, to)
    /\ on' = [on EXCEPT ![t] = Current]
    /\ UNCHANGED <<network, client>>

\* ... and takes a frame out of it,
Takes(t, frame) ==
    /\ inbox[on[t]] # <<>> /\ frame = Head(inbox[on[t]])
    /\ inbox' = [inbox EXCEPT ![on[t]] = Tail(@)]
    /\ on' = [on EXCEPT ![t] = 0]
    /\ UNCHANGED <<descriptor, link, faults>>

\* or there is none, because the descriptor is not open or the peer is gone.
TakesNothing(t, before, in) ==
    /\ \/ at[t] = before /\ Current = 0
       \/ at[t] = in /\ inbox[on[t]] = <<>> /\ link[on[t]] # "up"
    /\ on' = [on EXCEPT ![t] = 0]
    /\ UNCHANGED network

-----------------------------------------------------------------------------
\* A ping thread looks at the flag every half second and ends,
PingEnds(p) ==
    /\ at[p] = "sleeping" /\ ~is_connected
    /\ Goto(p, "none")
    /\ UNCHANGED <<network, client, on>>

\* or it pings after ten.
PingWakes(p) ==
    /\ at[p] = "sleeping" /\ is_connected
    /\ Goto(p, "pinging")
    /\ UNCHANGED <<network, client, on>>

PingReady(p) == at[p] = "pinging" /\ (Current # 0 => HasRoom(Current))

\* The repeater ends, or the network fails with or without what was on its way.
PeerCloses(c) ==
    /\ InUse(c) /\ link[c] = "up"
    /\ Fault
    /\ \E state \in {"closed", "reset"} : link' = [link EXCEPT ![c] = state]
    /\ \E rest \in {inbox[c], <<>>} : inbox' = [inbox EXCEPT ![c] = rest]
    /\ UNCHANGED <<descriptor, client, at, on>>

Waiting(t) == at[t] \in {"none", "sleeping", "connected", "receiving",
                           "answering"}

\* The alive detection of the repeater closes what is not pinged any more.  That
\* takes half a minute, and a thread that does not wait goes on in between.
PeerExpires(c) ==
    /\ InUse(c) /\ link[c] = "up"
    /\ ~is_connected \/ Current # c
    /\ \A t \in Threads : Waiting(t)
    /\ link' = [link EXCEPT ![c] = "closed"]
    /\ UNCHANGED <<descriptor, inbox, faults, client, at, on>>

Environment == \E c \in Connections : PeerCloses(c) \/ PeerExpires(c)

=============================================================================
