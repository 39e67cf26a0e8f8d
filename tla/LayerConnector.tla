--------------------------- MODULE LayerConnector ---------------------------
(***************************************************************************)
(* The layer connectors: one thread per upstream address that connects,    *)
(* subscribes, starts a ping thread and relays what it reads into the      *)
(* circles of this repeater until the connection breaks; then it stops the *)
(* ping thread, closes, sleeps and starts again.  The upstream is another  *)
(* repeater: it answers as SubscriberBootstrap does, and it may close,     *)
(* vanish without a word, or be down.  Time is counted in ping intervals.  *)
(***************************************************************************)
EXTENDS Integers, Sequences

CONSTANTS
    Addresses,          \* layer_subscribe_addresses: one thread for each
    Topics,             \* layer_subscribe_topics
    Circles,            \* those start_layer_replay could create a circle for
    Descriptors,        \* what the descriptor table of the process can hold
    Free, Other,        \* an entry that is closed, or of another component
    NoFd,               \* client_fd before the first socket()
    MaxMessages,        \* bound: messages published at one upstream
    MaxFaults,          \* bound: failures of the network, upstream or kernel
    StreamLimit         \* frames the two socket buffers of a link hold

ASSUME LayerAssumption ==
    /\ Free # Other /\ Free \notin Addresses /\ Other \notin Addresses
    /\ NoFd \notin Descriptors
    /\ Circles \subseteq Topics
    /\ MaxMessages \in Nat /\ MaxFaults \in Nat /\ StreamLimit \in Nat

VARIABLES
    owner,              \* the descriptor table of the process
    conn,               \* per address: the thread, its ping thread
    net,                \* per address: the connection and the upstream's end
    log,                \* topics of the messages published at the upstream
    appended,           \* messages appended here: upstream and number
    faults

vars == <<owner, conn, net, log, appended, faults>>

\* Mutant: the timeout is one interval.
ReadTimeoutOneInterval == 1

\* LAYER_MIN_READ_TIMEOUT_SECONDS, in units of LAYER_PING_INTERVAL_SECONDS.
ReadTimeout == 2

Reading == {"check", "recv"}
Leaving == {"leave", "shutdown", "join", "close"}
Connected == {"connect", "subscribe", "response"} \cup Reading \cup Leaving
Pinging == {"wait", "due", "send", "store", "shutdown"}

Message(n) == [kind |-> "message", n |-> n]
Control(kind, body) == [kind |-> kind, body |-> body]

\* conn[a]: pc and client_fd of the thread; its flag; where the ping thread
\* is, and its copy of the descriptor; intervals since recv() began; and, as
\* history, how many messages were published when the answer was read.
InitConn == [pc |-> "sleep", client_fd |-> NoFd, socket_disconnected |-> FALSE,
             ping |-> "none", ping_fd |-> NoFd, idle |-> 0, since |-> 0]

\* net[a]: the link; the upstream's handler; frames on the way down; pings
\* not answered; and the upstream's record: the next message to send.
InitNet == [link |-> "none", upstream |-> "idle", stream |-> <<>>,
            pings |-> 0, cursor |-> 1]

Init ==
    /\ owner = [d \in Descriptors |-> Free]
    /\ conn = [a \in Addresses |-> InitConn]
    /\ net = [a \in Addresses |-> InitNet]
    /\ log = [a \in Addresses |-> <<>>]
    /\ appended = <<>>
    /\ faults = 0

Goto(a, place) == conn' = [conn EXCEPT ![a].pc = place]
Fault == faults < MaxFaults /\ faults' = faults + 1
Received(a) == net[a].stream # <<>>

\* close(client_fd); continue;
Close(a) ==
    /\ owner' = [owner EXCEPT ![conn[a].client_fd] = Free]
    /\ net' = [net EXCEPT ![a].link = "none", ![a].stream = <<>>,
                          ![a].pings = 0,
                          ![a].upstream = IF @ = "down" THEN @ ELSE "idle"]
    /\ Goto(a, "sleep")
    /\ UNCHANGED <<log, appended>>

-----------------------------------------------------------------------------
(* layer_replay_work, until it is subscribed.                              *)

\* socket() succeeds: any free descriptor may be the lowest one.
Socket(a, d) ==
    /\ conn[a].pc = "sleep"
    /\ owner[d] = Free
    /\ owner' = [owner EXCEPT ![d] = a]
    /\ conn' = [conn EXCEPT ![a].client_fd = d, ![a].pc = "connect"]
    /\ UNCHANGED <<net, log, appended, faults>>

\* connect() and both set_socket_timeout() succeed.
Connect(a) ==
    /\ conn[a].pc = "connect"
    /\ net[a].upstream = "idle"
    /\ net' = [net EXCEPT ![a].link = "live"]
    /\ Goto(a, "subscribe")
    /\ UNCHANGED <<owner, log, appended, faults>>

\* Mutant: the descriptor stays open when connect() fails.
ConnectFailsLeaks(a) ==
    /\ conn[a].pc = "connect"
    /\ net[a].upstream = "down"
    /\ Goto(a, "sleep")
    /\ UNCHANGED <<owner, net, log, appended, faults>>

ConnectFails(a) ==
    /\ conn[a].pc = "connect"
    /\ \/ net[a].upstream = "down" /\ UNCHANGED faults
       \/ Fault
    /\ Close(a)

\* The frame is sent; a link that is broken may still accept it.
SendSubscribe(a) ==
    /\ conn[a].pc = "subscribe"
    /\ net' = [net EXCEPT ![a].upstream =
                 IF net[a].link = "live" THEN "requested" ELSE @]
    /\ conn' = [conn EXCEPT ![a].pc = "response", ![a].idle = 0]
    /\ UNCHANGED <<owner, log, appended, faults>>

SendSubscribeFails(a) ==
    /\ conn[a].pc = "subscribe"
    /\ net[a].link # "live"
    /\ Close(a)
    /\ UNCHANGED faults

\* readSocketFrameBlocking fails: Closed or Error when all that was received
\* has been read, or Timeout.
ReadFails(a) ==
    /\ ~Received(a)
    /\ net[a].link \in {"closed", "shut"} \/ conn[a].idle >= ReadTimeout

\* The answer is "subscribe" and has "ok" in it: the ping thread is started
\* with a copy of the descriptor, and the reading loop begins.
Subscribed(a) ==
    /\ conn[a].pc = "response"
    /\ Received(a)
    /\ Head(net[a].stream) = Control("subscribe", "ok")
    /\ net' = [net EXCEPT ![a].stream = Tail(@)]
    /\ conn' = [conn EXCEPT ![a].pc = "check",
                            ![a].socket_disconnected = FALSE,
                            ![a].ping = "wait",
                            ![a].ping_fd = conn[a].client_fd,
                            ![a].since = Len(log[a])]
    /\ UNCHANGED <<owner, log, appended, faults>>

\* Mutant: an answer that is not "ok" is not looked at.
NotSubscribedWaits(a) ==
    /\ conn[a].pc = "response"
    /\ ReadFails(a)
    /\ Close(a)
    /\ UNCHANGED faults

\* There is no answer, or it is another one.
NotSubscribed(a) ==
    /\ conn[a].pc = "response"
    /\ \/ ReadFails(a)
       \/ Received(a) /\ Head(net[a].stream) # Control("subscribe", "ok")
    /\ Close(a)
    /\ UNCHANGED faults

-----------------------------------------------------------------------------
(* The reading loop, and what follows it.                                  *)

CheckFlag(a) ==
    /\ conn[a].pc = "check"
    /\ conn' = [conn EXCEPT
                  ![a].pc = IF conn[a].socket_disconnected THEN "leave"
                                                           ELSE "recv",
                  ![a].idle = 0]
    /\ UNCHANGED <<owner, net, log, appended, faults>>

\* A pong is dropped; a message is appended, and its topic submitted to the
\* dispatching loop, if there is a circle for the topic.
ReadFrame(a) ==
    /\ conn[a].pc = "recv"
    /\ Received(a)
    /\ LET frame == Head(net[a].stream)
           relayed == frame.kind = "message" /\ log[a][frame.n] \in Circles
       IN  appended' = IF relayed THEN Append(appended, <<a, frame.n>>)
                                  ELSE appended
    /\ net' = [net EXCEPT ![a].stream = Tail(@)]
    /\ Goto(a, "check")
    /\ UNCHANGED <<owner, log, faults>>

\* Mutant: a failed read is tried again instead of ending the loop.
ReadRetries(a) ==
    /\ conn[a].pc = "recv"
    /\ ReadFails(a)
    /\ Goto(a, "check")
    /\ UNCHANGED <<owner, net, log, appended, faults>>

ReadBreaks(a) ==
    /\ conn[a].pc = "recv"
    /\ ReadFails(a)
    /\ Goto(a, "leave")
    /\ UNCHANGED <<owner, net, log, appended, faults>>

StoreDisconnected(a) ==
    /\ conn[a].pc = "leave"
    /\ conn' = [conn EXCEPT ![a].pc = "shutdown",
                            ![a].socket_disconnected = TRUE]
    /\ UNCHANGED <<owner, net, log, appended, faults>>

Shutdown(a) ==
    /\ conn[a].pc = "shutdown"
    /\ net' = [net EXCEPT ![a].link = "shut"]
    /\ Goto(a, "join")
    /\ UNCHANGED <<owner, log, appended, faults>>

\* Mutant: the ping thread is not joined before close().
JoinNone(a) ==
    /\ conn[a].pc = "join"
    /\ Goto(a, "close")
    /\ UNCHANGED <<owner, net, log, appended, faults>>

Join(a) ==
    /\ conn[a].pc = "join"
    /\ conn[a].ping = "done"
    /\ Goto(a, "close")
    /\ UNCHANGED <<owner, net, log, appended, faults>>

CloseAtEnd(a) == conn[a].pc = "close" /\ Close(a) /\ UNCHANGED faults

-----------------------------------------------------------------------------
(* The ping thread.                                                        *)

PingGoto(a, place) == conn' = [conn EXCEPT ![a].ping = place]

\* One of the twenty looks at the flag finds it set.
PingStops(a) ==
    /\ conn[a].ping \in {"wait", "due"}
    /\ conn[a].socket_disconnected
    /\ PingGoto(a, "done")
    /\ UNCHANGED <<owner, net, log, appended, faults>>

\* Twenty looks have found it unset.
PingDue(a) ==
    /\ conn[a].ping = "due"
    /\ ~conn[a].socket_disconnected
    /\ PingGoto(a, "send")
    /\ UNCHANGED <<owner, net, log, appended, faults>>

\* send_socket_data succeeds, which it may on a broken link too, unless this
\* end was shut down.
PingSent(a) ==
    /\ conn[a].ping = "send"
    /\ net[a].link # "shut"
    /\ net' = [net EXCEPT ![a].pings = IF net[a].link = "live" THEN @ + 1
                                                               ELSE @]
    /\ PingGoto(a, "wait")
    /\ UNCHANGED <<owner, log, appended, faults>>

PingFails(a) ==
    /\ conn[a].ping = "send"
    /\ net[a].link # "live"
    /\ PingGoto(a, "store")
    /\ UNCHANGED <<owner, net, log, appended, faults>>

\* Mutant: the flag is not set.
PingStoresNothing(a) ==
    /\ conn[a].ping = "store"
    /\ PingGoto(a, "shutdown")
    /\ UNCHANGED <<owner, net, log, appended, faults>>

PingStores(a) ==
    /\ conn[a].ping = "store"
    /\ conn' = [conn EXCEPT ![a].ping = "shutdown",
                            ![a].socket_disconnected = TRUE]
    /\ UNCHANGED <<owner, net, log, appended, faults>>

PingShutsDown(a) ==
    /\ conn[a].ping = "shutdown"
    /\ net' = [net EXCEPT ![a].link = "shut"]
    /\ PingGoto(a, "done")
    /\ UNCHANGED <<owner, log, appended, faults>>

-----------------------------------------------------------------------------
(* The upstream repeater, in the order of SubscriberBootstrap's            *)
(* acceptHandle, and the network.                                          *)

\* Mutant: at the oldest message.
UpstreamInitializesOldest(a) ==
    /\ net[a].upstream = "requested"
    /\ net' = [net EXCEPT ![a].upstream = "initialized", ![a].cursor = 1]
    /\ UNCHANGED <<owner, conn, log, appended, faults>>

\* Mutant: one past the producer's sequence.
UpstreamInitializesPast(a) ==
    /\ net[a].upstream = "requested"
    /\ net' = [net EXCEPT ![a].upstream = "initialized",
                          ![a].cursor = Len(log[a]) + 2]
    /\ UNCHANGED <<owner, conn, log, appended, faults>>

\* The record is initialized at the producer's sequence.
UpstreamInitializes(a) ==
    /\ net[a].upstream = "requested"
    /\ net' = [net EXCEPT ![a].upstream = "initialized",
                          ![a].cursor = Len(log[a]) + 1]
    /\ UNCHANGED <<owner, conn, log, appended, faults>>

UpstreamAnswers(a) ==
    /\ net[a].upstream = "initialized"
    /\ net' = [net EXCEPT ![a].upstream = "serving",
                 ![a].stream = Append(@, Control("subscribe", "ok"))]
    /\ UNCHANGED <<owner, conn, log, appended, faults>>

\* "topic is empty or not support", or "fail subscribe".
UpstreamRefuses(a) ==
    /\ net[a].upstream = "requested"
    /\ Fault
    /\ net' = [net EXCEPT ![a].upstream = "refused",
                 ![a].stream = Append(@, Control("subscribe", "fail"))]
    /\ UNCHANGED <<owner, conn, log, appended>>

\* A message is sent to the subscriber, or a ping answered.
UpstreamSends(a) ==
    /\ net[a].upstream = "serving"
    /\ Len(net[a].stream) < StreamLimit
    /\ \/ /\ net[a].cursor <= Len(log[a])
          /\ net' = [net EXCEPT
                       ![a].stream = Append(@, Message(net[a].cursor)),
                       ![a].cursor = @ + 1]
       \/ /\ net[a].pings > 0
          /\ net' = [net EXCEPT
                       ![a].stream = Append(@, Control("pong", "ok")),
                       ![a].pings = @ - 1]
    /\ UNCHANGED <<owner, conn, log, appended, faults>>

UpstreamPublishes(a, t) ==
    /\ Len(log[a]) < MaxMessages
    /\ log' = [log EXCEPT ![a] = Append(@, t)]
    /\ UNCHANGED <<owner, conn, net, appended, faults>>

\* The upstream closes the connection (idle check, overrun).
UpstreamCloses(a) ==
    /\ Fault
    /\ net[a].link = "live"
    /\ net' = [net EXCEPT ![a].link = "closed", ![a].upstream = "idle"]
    /\ UNCHANGED <<owner, conn, log, appended>>

UpstreamStops(a) ==
    /\ Fault
    /\ net[a].upstream # "down"
    /\ net' = [net EXCEPT ![a].upstream = "down",
                          ![a].link = IF @ = "live" THEN "closed" ELSE @]
    /\ UNCHANGED <<owner, conn, log, appended>>

UpstreamRestarts(a) ==
    /\ net[a].upstream = "down"
    /\ net' = [net EXCEPT ![a].upstream = "idle"]
    /\ UNCHANGED <<owner, conn, log, appended, faults>>

\* The network loses the connection and says nothing: what is on the way is
\* gone, sends disappear and nothing is received any more.
LinkVanishes(a) ==
    /\ Fault
    /\ net[a].link = "live"
    /\ net' = [net EXCEPT ![a].link = "silent", ![a].upstream = "idle",
                          ![a].stream = <<>>]
    /\ UNCHANGED <<owner, conn, log, appended>>

\* An interval is long compared with the work of the threads and of a live
\* upstream: none passes while a frame can be read, the ping thread has
\* something to do or an answer is outstanding.
Tick(a) ==
    /\ \/ /\ conn[a].pc \in {"response", "recv"}
          /\ ~Received(a) /\ ~ReadFails(a)
          /\ conn[a].ping \in {"none", "wait", "done"}
       \/ conn[a].pc = "join" /\ conn[a].ping = "wait"
    /\ net[a].link = "live" => /\ net[a].upstream = "serving"
                               /\ net[a].pings = 0
                               /\ net[a].cursor > Len(log[a])
    /\ conn' = [conn EXCEPT ![a].idle = @ + 1,
                            ![a].ping = IF @ = "wait" THEN "due" ELSE @]
    /\ UNCHANGED <<owner, net, log, appended, faults>>

\* accept() and close() elsewhere in the process.
OtherOpens(d) ==
    /\ owner[d] = Free
    /\ owner' = [owner EXCEPT ![d] = Other]
    /\ UNCHANGED <<conn, net, log, appended, faults>>

OtherCloses(d) ==
    /\ owner[d] = Other
    /\ owner' = [owner EXCEPT ![d] = Free]
    /\ UNCHANGED <<conn, net, log, appended, faults>>

-----------------------------------------------------------------------------
ConnectorStep(a) ==
    \/ \E d \in Descriptors : Socket(a, d)
    \/ Connect(a) \/ ConnectFails(a)
    \/ SendSubscribe(a) \/ SendSubscribeFails(a)
    \/ Subscribed(a) \/ NotSubscribed(a)
    \/ CheckFlag(a) \/ ReadFrame(a) \/ ReadBreaks(a)
    \/ StoreDisconnected(a) \/ Shutdown(a) \/ Join(a) \/ CloseAtEnd(a)

PingStep(a) ==
    \/ PingStops(a) \/ PingDue(a) \/ PingSent(a) \/ PingFails(a)
    \/ PingStores(a) \/ PingShutsDown(a)

UpstreamStep(a) ==
    \/ UpstreamInitializes(a) \/ UpstreamAnswers(a) \/ UpstreamSends(a)
    \/ UpstreamRestarts(a)

FaultStep(a) ==
    \/ UpstreamRefuses(a) \/ UpstreamCloses(a) \/ UpstreamStops(a)
    \/ LinkVanishes(a)

Next ==
    \/ \E a \in Addresses :
          \/ ConnectorStep(a) \/ PingStep(a) \/ UpstreamStep(a)
          \/ FaultStep(a) \/ Tick(a)
          \/ \E t \in Topics : UpstreamPublishes(a, t)
    \/ \E d \in Descriptors : OtherOpens(d) \/ OtherCloses(d)

\* Every thread is scheduled, an upstream works and is restarted, time
\* passes.  Each socket() may find the table full, so it takes strong
\* fairness to say that it does not fail for ever.
Fairness ==
    /\ \A a \in Addresses :
          /\ WF_vars(ConnectorStep(a)) /\ WF_vars(PingStep(a))
          /\ WF_vars(UpstreamStep(a)) /\ WF_vars(Tick(a))
          /\ SF_vars(\E d \in Descriptors : Socket(a, d))
    /\ \A d \in Descriptors : WF_vars(OtherCloses(d))

Spec == Init /\ [][Next]_vars
FairSpec == Spec /\ Fairness

-----------------------------------------------------------------------------
\* The variables keep their types.
TypeOK ==
    /\ owner \in [Descriptors -> Addresses \cup {Free, Other}]
    /\ conn \in [Addresses ->
         [pc : {"sleep"} \cup Connected,
          client_fd : Descriptors \cup {NoFd}, socket_disconnected : BOOLEAN,
          ping : {"none", "done"} \cup Pinging,
          ping_fd : Descriptors \cup {NoFd}, idle : Nat, since : Nat]]
    /\ net \in [Addresses ->
         [link : {"none", "live", "silent", "closed", "shut"},
          upstream : {"idle", "down", "requested", "initialized", "refused",
                      "serving"},
          stream : Seq([kind : {"message"}, n : Nat]
                       \cup [kind : {"subscribe", "pong"},
                             body : {"ok", "fail"}]),
          pings : Nat, cursor : Nat]]
    /\ log \in [Addresses -> Seq(Topics)]
    /\ appended \in Seq(Addresses \X Nat)
    /\ faults \in Nat

\* join() before close(): the ping thread sends and shuts down on its own
\* copy of the descriptor, and while it lives that copy is the connection of
\* its address, never a descriptor closed or given to somebody else.
PingOwnsDescriptor ==
    \A a \in Addresses :
        conn[a].ping \in Pinging => /\ conn[a].ping_fd \in Descriptors
                                    /\ owner[conn[a].ping_fd] = a
                                    /\ conn[a].ping_fd = conn[a].client_fd

\* close() on every path back to the sleep: a thread holds its descriptor
\* while it is connected, and nothing at all while it sleeps, however often
\* it was refused, timed out or was cut off.
NoDescriptorLeak ==
    \A d \in Descriptors, a \in Addresses :
        owner[d] = a <=> conn[a].pc \in Connected /\ conn[a].client_fd = d

\* The flag is set by either thread and reset only for a new ping thread: one
\* that has ended never leaves the reader in a loop it would not leave.
EndedPingIsNoticed ==
    \A a \in Addresses :
        conn[a].pc \in Reading /\ conn[a].ping = "done" =>
            conn[a].socket_disconnected

\* createNewRecord and initialize come before the answer, and messages after
\* it: what is read first is the answer, and every message published at the
\* upstream since it was read is appended, on its way, or still to be sent,
\* as long as the connection lives.
Relayed(a, n) == \E i \in 1..Len(appended) : appended[i] = <<a, n>>
OnTheWay(a, n) ==
    \E i \in 1..Len(net[a].stream) : net[a].stream[i] = Message(n)

RelayComplete ==
    \A a \in Addresses :
        conn[a].pc \in Reading /\ net[a].link = "live" =>
            \A n \in (conn[a].since + 1)..Len(log[a]) :
                log[a][n] \in Circles =>
                    Relayed(a, n) \/ OnTheWay(a, n) \/ n >= net[a].cursor

\* Reconnecting never repeats or reorders: what is relayed from one upstream
\* is in the order of its publication, each message once.
RelayInOrder ==
    \A i, j \in 1..Len(appended) :
        i < j /\ appended[i][1] = appended[j][1] =>
            appended[i][2] < appended[j][2]

\* LAYER_MIN_READ_TIMEOUT_SECONDS is twice the ping interval: an upstream
\* that answers is never given up by the reader.
LiveUpstreamKept ==
    [][\A a \in Addresses :
          net[a].link = "live" /\ conn[a].pc = "recv" =>
              conn'[a].pc # "leave"]_vars

\* A connection that the upstream closed, or that went silent, is left: the
\* reader gets out of recv(), the ping thread ends, join() returns.
BrokenLinkIsLeft ==
    \A a \in Addresses :
        net[a].link \in {"silent", "closed"} ~> net[a].link = "none"

\* After the last failure of the network and the upstream the connector is
\* subscribed again and stays so.
Reconnects == \A a \in Addresses : <>[](conn[a].pc \in Reading)
=============================================================================
