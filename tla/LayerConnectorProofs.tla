------------------------ MODULE LayerConnectorProofs ------------------------
(***************************************************************************)
(* The layer connectors, for any number of addresses, descriptors, faults  *)
(* and messages: who holds a descriptor closes it on every path back to    *)
(* the sleep and the ping thread never has another's; a live upstream is   *)
(* not given up; what is relayed is in order and nothing is left out.      *)
(***************************************************************************)
EXTENDS LayerConnector, TLAPS

ConnRecord ==
    [pc : {"sleep"} \cup Connected,
     client_fd : Descriptors \cup {NoFd}, socket_disconnected : BOOLEAN,
     ping : {"none", "done"} \cup Pinging,
     ping_fd : Descriptors \cup {NoFd}, idle : Nat, since : Nat]

\* Of one thread and its ping thread: a thread that is connected has a
\* descriptor; the ping thread has the same one, and lives from the answer to
\* the join; and once it has stored the flag, or seen it, the flag is set.
PlaceOK(c) ==
    /\ c.pc \in Connected => c.client_fd \in Descriptors
    /\ c.ping \in Pinging => /\ c.ping_fd = c.client_fd
                             /\ c.pc \in Reading \cup
                                          {"leave", "shutdown", "join"}
    /\ c.ping \in {"shutdown", "done"} /\ c.pc \in Reading
          => c.socket_disconnected

OwnerType == owner \in [Descriptors -> Addresses \cup {Free, Other}]

ConnInv ==
    /\ OwnerType
    /\ conn \in [Addresses -> ConnRecord]
    /\ \A a \in Addresses : PlaceOK(conn[a])
    /\ NoDescriptorLeak

StreamFrame ==
    [kind : {"message"}, n : Nat]
        \cup [kind : {"subscribe", "pong"}, body : {"ok", "fail"}]

NetRecord ==
    [link : {"none", "live", "silent", "closed", "shut"},
     upstream : {"idle", "down", "requested", "initialized", "refused",
                 "serving"},
     stream : Seq(StreamFrame), pings : Nat, cursor : Nat]

NetInv ==
    /\ net \in [Addresses -> NetRecord]
    /\ log \in [Addresses -> Seq(Topics)]
    /\ appended \in Seq(Addresses \X Nat)
    /\ faults \in Nat

LEMMA ConnInit == Init => ConnInv
<1> SUFFICES ASSUME Init PROVE ConnInv
  OBVIOUS
<1>1. OwnerType
  BY DEF Init, OwnerType
<1>2. InitConn \in ConnRecord
  BY DEF InitConn, ConnRecord
<1>3. PlaceOK(InitConn)
  BY DEF InitConn, PlaceOK, Connected, Pinging, Reading, Leaving
<1>4. conn = [a \in Addresses |-> InitConn]
  BY DEF Init
<1>5. \A a \in Addresses : conn[a].pc \notin Connected
  BY <1>4 DEF InitConn, Connected, Reading, Leaving
<1>6. \A d \in Descriptors : owner[d] = Free
  BY DEF Init
<1>7. NoDescriptorLeak
  BY <1>5, <1>6, LayerAssumption DEF NoDescriptorLeak
<1> QED
  BY <1>1, <1>2, <1>3, <1>4, <1>7 DEF ConnInv

\* A step of one of the two threads that neither opens nor closes.
Keeps(a) ==
    /\ UNCHANGED owner
    /\ conn' = [conn EXCEPT ![a] = conn'[a]]
    /\ conn'[a] \in ConnRecord
    /\ PlaceOK(conn'[a])
    /\ conn'[a].client_fd = conn[a].client_fd
    /\ conn'[a].pc \in Connected <=> conn[a].pc \in Connected

LEMMA KeepsDescriptor ==
    ASSUME ConnInv, NEW a \in Addresses, Keeps(a)
    PROVE  ConnInv'
<1>1. \A b \in Addresses : b # a => conn'[b] = conn[b]
  BY DEF ConnInv, Keeps
<1>2. OwnerType' /\ conn' \in [Addresses -> ConnRecord]
  BY DEF ConnInv, OwnerType, Keeps
<1>3. \A b \in Addresses : PlaceOK(conn'[b])
  BY <1>1 DEF ConnInv, Keeps
<1>4. NoDescriptorLeak'
  BY <1>1 DEF ConnInv, NoDescriptorLeak, Keeps
<1> QED
  BY <1>2, <1>3, <1>4 DEF ConnInv, PlaceOK

\* close(client_fd), with no ping thread left.
LEMMA ClosesOwn ==
    ASSUME ConnInv, NEW a \in Addresses, Close(a), conn[a].pc \in Connected,
           conn[a].ping \notin Pinging
    PROVE  ConnInv'
<1>1. /\ owner' = [owner EXCEPT ![conn[a].client_fd] = Free]
      /\ conn' = [conn EXCEPT ![a].pc = "sleep"]
  BY DEF Close, Goto
<1>2. conn[a] \in ConnRecord /\ PlaceOK(conn[a])
  BY DEF ConnInv
<1>3. conn[a].client_fd \in Descriptors
  BY <1>2 DEF PlaceOK
<1>4. OwnerType'
  BY <1>1 DEF ConnInv, OwnerType
<1>5. \A b \in Addresses : b # a => conn'[b] = conn[b]
  BY <1>1 DEF ConnInv
<1>6. /\ conn'[a] = [conn[a] EXCEPT !.pc = "sleep"]
      /\ conn'[a].pc = "sleep" /\ conn'[a].ping = conn[a].ping
  BY <1>1, <1>2 DEF ConnInv, ConnRecord
<1>7. conn'[a] \in ConnRecord
  BY <1>2, <1>6 DEF ConnRecord
<1>8. conn' \in [Addresses -> ConnRecord]
  BY <1>1, <1>5, <1>7 DEF ConnInv
<1>9. PlaceOK(conn'[a])
  BY <1>6 DEF PlaceOK, Pinging, Connected, Reading, Leaving
<1>10. \A b \in Addresses : PlaceOK(conn'[b])
  BY <1>5, <1>9 DEF ConnInv
<1>11. "sleep" \notin Connected
  BY DEF Connected, Reading, Leaving
<1>12. NoDescriptorLeak'
  BY <1>1, <1>3, <1>5, <1>6, <1>11, LayerAssumption
  DEF ConnInv, OwnerType, NoDescriptorLeak
<1> QED
  BY <1>4, <1>8, <1>10, <1>12 DEF ConnInv, PlaceOK

\* What the two threads do between socket() and close(), and the clock.
LEMMA ThreadsKeep ==
    ASSUME ConnInv, NetInv, NEW a \in Addresses,
           \/ Connect(a) \/ SendSubscribe(a) \/ Subscribed(a) \/ CheckFlag(a)
           \/ ReadFrame(a) \/ ReadBreaks(a) \/ StoreDisconnected(a)
           \/ Shutdown(a) \/ Join(a) \/ PingStep(a) \/ Tick(a)
    PROVE  Keeps(a)
<1> USE DEF ConnRecord, PlaceOK, Connected, Reading, Leaving, Pinging, Keeps
<1>a. /\ conn \in [Addresses -> ConnRecord] /\ conn[a] \in ConnRecord
      /\ PlaceOK(conn[a])
  BY DEF ConnInv
<1>b. Len(log[a]) \in Nat
  BY DEF NetInv
<1>1. CASE Connect(a)
  BY <1>a, <1>1 DEF Connect, Goto
<1>2. CASE SendSubscribe(a)
  BY <1>a, <1>2 DEF SendSubscribe
<1>3. CASE Subscribed(a)
  BY <1>a, <1>3, <1>b DEF Subscribed
<1>4. CASE CheckFlag(a)
  BY <1>a, <1>4 DEF CheckFlag
<1>5. CASE ReadFrame(a)
  BY <1>a, <1>5 DEF ReadFrame, Goto
<1>6. CASE ReadBreaks(a)
  BY <1>a, <1>6 DEF ReadBreaks, Goto
<1>7. CASE StoreDisconnected(a)
  BY <1>a, <1>7 DEF StoreDisconnected
<1>8. CASE Shutdown(a)
  BY <1>a, <1>8 DEF Shutdown, Goto
<1>9. CASE Join(a)
  BY <1>a, <1>9 DEF Join, Goto
<1>10. CASE PingStops(a)
  BY <1>a, <1>10 DEF PingStops, PingGoto
<1>11. CASE PingDue(a)
  BY <1>a, <1>11 DEF PingDue, PingGoto
<1>12. CASE PingSent(a)
  BY <1>a, <1>12 DEF PingSent, PingGoto
<1>13. CASE PingFails(a)
  BY <1>a, <1>13 DEF PingFails, PingGoto
<1>14. CASE PingStores(a)
  BY <1>a, <1>14 DEF PingStores
<1>15. CASE PingShutsDown(a)
  BY <1>a, <1>15 DEF PingShutsDown, PingGoto
<1>16. CASE Tick(a)
  <2> DEFINE c == [conn[a] EXCEPT !.idle = @ + 1,
                                  !.ping = IF @ = "wait" THEN "due" ELSE @]
  <2>1. UNCHANGED owner /\ conn' = [conn EXCEPT ![a] = c] /\ conn'[a] = c
    BY <1>a, <1>16 DEF Tick
  <2>2. c.idle \in Nat /\ c.ping \in {"none", "done"} \cup Pinging
    BY <1>a
  <2>3. c \in ConnRecord
    BY <1>a, <2>2
  <2>4. PlaceOK(c)
    BY <1>a
  <2> HIDE DEF c
  <2>5. /\ c.client_fd = conn[a].client_fd /\ c.pc = conn[a].pc
    BY <1>a DEF c
  <2> QED
    BY <2>1, <2>3, <2>4, <2>5
<1> QED
  BY <1>1, <1>2, <1>3, <1>4, <1>5, <1>6, <1>7, <1>8, <1>9, <1>10, <1>11, <1>12,
     <1>13, <1>14, <1>15, <1>16 DEF PingStep

\* socket() takes an entry that nobody has.
LEMMA SocketTakesFree ==
    ASSUME ConnInv, NEW a \in Addresses, NEW d \in Descriptors, Socket(a, d)
    PROVE  ConnInv'
<1>1. /\ owner' = [owner EXCEPT ![d] = a] /\ owner[d] = Free
      /\ conn' = [conn EXCEPT ![a].client_fd = d, ![a].pc = "connect"]
      /\ conn[a].pc = "sleep"
  BY DEF Socket
<1>2. conn[a] \in ConnRecord /\ PlaceOK(conn[a])
  BY DEF ConnInv
<1>3. OwnerType'
  BY <1>1 DEF ConnInv, OwnerType
<1>4. \A b \in Addresses : b # a => conn'[b] = conn[b]
  BY <1>1 DEF ConnInv
<1>5. /\ conn'[a] \in ConnRecord
      /\ conn'[a].pc = "connect" /\ conn'[a].client_fd = d
      /\ conn'[a].ping = conn[a].ping
  BY <1>1, <1>2 DEF ConnInv, ConnRecord, Connected
<1>6. conn' \in [Addresses -> ConnRecord]
  BY <1>1, <1>4, <1>5 DEF ConnInv
<1>7. PlaceOK(conn'[a])
  BY <1>1, <1>2, <1>5 DEF PlaceOK, Connected, Reading, Leaving, Pinging
<1>8. \A b \in Addresses : PlaceOK(conn'[b])
  BY <1>4, <1>7 DEF ConnInv
<1>9. "connect" \in Connected /\ "sleep" \notin Connected
  BY DEF Connected, Reading, Leaving
<1>10. NoDescriptorLeak'
  BY <1>1, <1>4, <1>5, <1>9, LayerAssumption
  DEF ConnInv, OwnerType, NoDescriptorLeak
<1> QED
  BY <1>3, <1>6, <1>8, <1>10 DEF ConnInv, PlaceOK

\* Every step of every component of the process keeps the descriptors.
LEMMA ConnStep == ConnInv /\ NetInv /\ [Next]_vars => ConnInv'
<1> SUFFICES ASSUME ConnInv, NetInv, [Next]_vars PROVE ConnInv'
  OBVIOUS
<1>1. ASSUME UNCHANGED <<owner, conn>> PROVE ConnInv'
  BY <1>1 DEF ConnInv, OwnerType, PlaceOK, NoDescriptorLeak
<1>2. ASSUME NEW a \in Addresses, ConnectorStep(a) PROVE ConnInv'
  <2>1. conn[a] \in ConnRecord /\ PlaceOK(conn[a])
    BY DEF ConnInv
  <2>2. CASE \/ ConnectFails(a) \/ SendSubscribeFails(a) \/ NotSubscribed(a)
             \/ CloseAtEnd(a)
    <3>1. Close(a) /\ conn[a].pc \in {"connect", "subscribe", "response", "close"}
      BY <2>2 DEF ConnectFails, SendSubscribeFails, NotSubscribed, CloseAtEnd
    <3>2. conn[a].pc \in Connected /\ conn[a].ping \notin Pinging
      BY <2>1, <3>1 DEF PlaceOK, Connected, Reading, Leaving
    <3> QED
      BY <3>1, <3>2, ClosesOwn
  <2>3. CASE \E d \in Descriptors : Socket(a, d)
    BY <2>3, SocketTakesFree
  <2> QED
    BY <1>2, <2>2, <2>3, ThreadsKeep, KeepsDescriptor DEF ConnectorStep
<1>3. ASSUME NEW a \in Addresses, PingStep(a) \/ Tick(a) PROVE ConnInv'
  BY <1>3, ThreadsKeep, KeepsDescriptor
<1>4. ASSUME NEW a \in Addresses,
             \/ UpstreamStep(a) \/ FaultStep(a)
             \/ \E t \in Topics : UpstreamPublishes(a, t)
      PROVE  ConnInv'
  BY <1>1, <1>4
  DEF UpstreamStep, UpstreamInitializes, UpstreamAnswers, UpstreamSends,
      UpstreamRestarts, FaultStep, UpstreamRefuses, UpstreamCloses,
      UpstreamStops, LinkVanishes, UpstreamPublishes
<1>5. ASSUME NEW d \in Descriptors, OtherOpens(d) \/ OtherCloses(d)
      PROVE  ConnInv'
  <2>1. /\ UNCHANGED conn
        /\ owner[d] \in {Free, Other}
        /\ \E o \in {Free, Other} : owner' = [owner EXCEPT ![d] = o]
    BY <1>5 DEF OtherOpens, OtherCloses
  <2>2. OwnerType' /\ NoDescriptorLeak'
    BY <2>1, LayerAssumption DEF ConnInv, OwnerType, NoDescriptorLeak
  <2> QED
    BY <2>1, <2>2 DEF ConnInv, PlaceOK
<1>6. CASE UNCHANGED vars
  BY <1>1, <1>6 DEF vars
<1> QED
  BY <1>2, <1>3, <1>4, <1>5, <1>6 DEF Next

-----------------------------------------------------------------------------
(* The link, the upstream and the log.                                     *)

LEMMA NetInit == Init => NetInv
<1>1. InitNet \in NetRecord
  BY DEF InitNet, NetRecord
<1> QED
  BY <1>1 DEF Init, NetInv

\* The kinds of frames.
LEMMA Frames ==
    /\ \A n \in Nat : Message(n) \in StreamFrame
    /\ \A kind \in {"subscribe", "pong"}, body \in {"ok", "fail"} :
          Control(kind, body) \in StreamFrame
  BY DEF Message, Control, StreamFrame

\* A step that changes one link, and leaves log, what was appended and faults
\* with their types.
LEMMA LinkChanges ==
    ASSUME NetInv, NEW a \in Addresses, NEW r \in NetRecord,
           net' = [net EXCEPT ![a] = r],
           UNCHANGED <<log, appended>>, faults' \in {faults, faults + 1}
    PROVE  NetInv'
  BY DEF NetInv

LEMMA NetStep == NetInv /\ [Next]_vars => NetInv'
<1> SUFFICES ASSUME NetInv, [Next]_vars PROVE NetInv'
  OBVIOUS
<1>1. ASSUME UNCHANGED <<net, log, appended, faults>> PROVE NetInv'
  BY <1>1 DEF NetInv
<1>2. ASSUME NEW a \in Addresses, ConnectorStep(a) PROVE NetInv'
  <2>1. net[a] \in NetRecord
    BY DEF NetInv
  <2>2. CASE \/ ConnectFails(a) \/ SendSubscribeFails(a) \/ NotSubscribed(a)
             \/ CloseAtEnd(a)
    <3> DEFINE r == [net[a] EXCEPT !.link = "none", !.stream = <<>>, !.pings = 0,
                       !.upstream = IF @ = "down" THEN @ ELSE "idle"]
    <3>1. net' = [net EXCEPT ![a] = r] /\ UNCHANGED <<log, appended>>
      BY <2>2 DEF ConnectFails, SendSubscribeFails, NotSubscribed, CloseAtEnd,
                  Close
    <3>2. faults' \in {faults, faults + 1}
      BY <2>2 DEF ConnectFails, SendSubscribeFails, NotSubscribed, CloseAtEnd,
                  Fault
    <3>3. /\ <<>> \in Seq(StreamFrame) /\ 0 \in Nat
          /\ (IF net[a].upstream = "down" THEN net[a].upstream ELSE "idle")
                \in {"idle", "down"}
      OBVIOUS
    <3>4. r \in NetRecord
      BY <2>1, <3>3 DEF NetRecord
    <3> QED
      BY <3>1, <3>2, <3>4, LinkChanges
  <2>3. CASE Connect(a) \/ Shutdown(a)
    <3>1. PICK l \in {"live", "shut"} :
             net' = [net EXCEPT ![a] = [net[a] EXCEPT !.link = l]]
      BY <2>3 DEF Connect, Shutdown
    <3>2. [net[a] EXCEPT !.link = l] \in NetRecord
      BY <2>1 DEF NetRecord
    <3>3. UNCHANGED <<log, appended, faults>>
      BY <2>3 DEF Connect, Shutdown
    <3> QED
      BY <3>1, <3>2, <3>3, LinkChanges
  <2>4. CASE SendSubscribe(a)
    <3> DEFINE r == [net[a] EXCEPT !.upstream =
                       IF net[a].link = "live" THEN "requested" ELSE @]
    <3>1. net' = [net EXCEPT ![a] = r] /\ UNCHANGED <<log, appended, faults>>
      BY <2>4 DEF SendSubscribe
    <3>2. r \in NetRecord
      BY <2>1 DEF NetRecord
    <3> QED
      BY <3>1, <3>2, LinkChanges
  <2>5. CASE Subscribed(a) \/ ReadFrame(a)
    <3> DEFINE r == [net[a] EXCEPT !.stream = Tail(@)]
    <3>1. /\ net' = [net EXCEPT ![a] = r] /\ UNCHANGED <<log, faults>>
          /\ net[a].stream # <<>>
      BY <2>5 DEF Subscribed, ReadFrame, Received
    <3>2. net[a].stream \in Seq(StreamFrame)
      BY <2>1 DEF NetRecord
    <3>3. Tail(net[a].stream) \in Seq(StreamFrame)
          /\ Head(net[a].stream) \in StreamFrame
      BY <3>1, <3>2
    <3>4. r \in NetRecord
      BY <2>1, <3>3 DEF NetRecord
    <3>5. \/ UNCHANGED appended
          \/ /\ Head(net[a].stream).kind = "message"
             /\ appended' = Append(appended, <<a, Head(net[a].stream).n>>)
      BY <2>5 DEF Subscribed, ReadFrame
    <3>6. Head(net[a].stream).kind = "message" => Head(net[a].stream).n \in Nat
      BY <3>3 DEF StreamFrame
    <3>7. CASE UNCHANGED appended
      BY <3>1, <3>4, <3>7 DEF NetInv
    <3>8. CASE /\ Head(net[a].stream).kind = "message"
               /\ appended' = Append(appended, <<a, Head(net[a].stream).n>>)
      <4>1. <<a, Head(net[a].stream).n>> \in Addresses \X Nat
        BY <3>6, <3>8
      <4>2. appended' \in Seq(Addresses \X Nat)
        BY <3>8, <4>1 DEF NetInv
      <4> QED
        BY <3>1, <3>4, <4>2 DEF NetInv
    <3> QED
      BY <3>5, <3>7, <3>8
  <2>6. CASE \/ \E d \in Descriptors : Socket(a, d)
             \/ CheckFlag(a) \/ ReadBreaks(a) \/ StoreDisconnected(a) \/ Join(a)
    BY <1>1, <2>6 DEF Socket, CheckFlag, ReadBreaks, StoreDisconnected, Join
  <2> QED
    BY <1>2, <2>2, <2>3, <2>4, <2>5, <2>6 DEF ConnectorStep
<1>3. ASSUME NEW a \in Addresses, PingStep(a) \/ Tick(a) PROVE NetInv'
  <2>1. net[a] \in NetRecord
    BY DEF NetInv
  <2>2. CASE PingSent(a)
    <3> DEFINE r == [net[a] EXCEPT !.pings = IF net[a].link = "live" THEN @ + 1
                                                                     ELSE @]
    <3>1. net' = [net EXCEPT ![a] = r] /\ UNCHANGED <<log, appended, faults>>
      BY <2>2 DEF PingSent
    <3>2. r \in NetRecord
      BY <2>1 DEF NetRecord
    <3> QED
      BY <3>1, <3>2, LinkChanges
  <2>3. CASE PingShutsDown(a)
    <3>1. /\ net' = [net EXCEPT ![a] = [net[a] EXCEPT !.link = "shut"]]
          /\ UNCHANGED <<log, appended, faults>>
      BY <2>3 DEF PingShutsDown
    <3>2. [net[a] EXCEPT !.link = "shut"] \in NetRecord
      BY <2>1 DEF NetRecord
    <3> QED
      BY <3>1, <3>2, LinkChanges
  <2>4. CASE \/ PingStops(a) \/ PingDue(a) \/ PingFails(a) \/ PingStores(a)
             \/ Tick(a)
    BY <1>1, <2>4 DEF PingStops, PingDue, PingFails, PingStores, Tick
  <2> QED
    BY <1>3, <2>2, <2>3, <2>4 DEF PingStep
<1>4. ASSUME NEW a \in Addresses, UpstreamStep(a) \/ FaultStep(a) PROVE NetInv'
  <2>1. net[a] \in NetRecord /\ net[a].stream \in Seq(StreamFrame)
        /\ net[a].cursor \in Nat /\ net[a].pings \in Nat
    BY DEF NetInv, NetRecord
  <2>2. UNCHANGED <<log, appended>> /\ faults' \in {faults, faults + 1}
    BY <1>4
    DEF UpstreamStep, UpstreamInitializes, UpstreamAnswers, UpstreamSends,
        UpstreamRestarts, FaultStep, UpstreamRefuses, UpstreamCloses,
        UpstreamStops, LinkVanishes, Fault
  <2>3. SUFFICES \E r \in NetRecord : net' = [net EXCEPT ![a] = r]
    BY <2>2, LinkChanges
  <2>4. CASE UpstreamInitializes(a)
    <3> DEFINE r == [net[a] EXCEPT !.upstream = "initialized",
                                   !.cursor = Len(log[a]) + 1]
    <3>1. Len(log[a]) + 1 \in Nat
      BY DEF NetInv
    <3>2. r \in NetRecord
      BY <2>1, <3>1 DEF NetRecord
    <3>3. net' = [net EXCEPT ![a] = r]
      BY <2>4 DEF UpstreamInitializes
    <3> QED
      BY <3>2, <3>3
  <2>5. CASE UpstreamAnswers(a) \/ UpstreamRefuses(a)
    <3>1. PICK u \in {"serving", "refused"}, body \in {"ok", "fail"} :
             net' = [net EXCEPT ![a] =
                       [net[a] EXCEPT !.upstream = u,
                          !.stream = Append(@, Control("subscribe", body))]]
      BY <2>5 DEF UpstreamAnswers, UpstreamRefuses
    <3>2. Append(net[a].stream, Control("subscribe", body)) \in Seq(StreamFrame)
      BY <2>1, Frames
    <3>3. [net[a] EXCEPT !.upstream = u,
             !.stream = Append(@, Control("subscribe", body))] \in NetRecord
      BY <2>1, <3>2 DEF NetRecord
    <3> QED
      BY <3>1, <3>3
  <2>6. CASE UpstreamSends(a)
    <3>1. CASE net' = [net EXCEPT ![a] =
                         [net[a] EXCEPT !.stream = Append(@, Message(net[a].cursor)),
                                        !.cursor = @ + 1]]
      <4>1. Append(net[a].stream, Message(net[a].cursor)) \in Seq(StreamFrame)
        BY <2>1, Frames
      <4>2. net[a].cursor + 1 \in Nat
        BY <2>1
      <4>3. [net[a] EXCEPT !.stream = Append(@, Message(net[a].cursor)),
                           !.cursor = @ + 1] \in NetRecord
        BY <2>1, <4>1, <4>2 DEF NetRecord
      <4> QED
        BY <3>1, <4>3
    <3>2. CASE /\ net[a].pings > 0
               /\ net' = [net EXCEPT ![a] =
                            [net[a] EXCEPT !.stream = Append(@, Control("pong", "ok")),
                                           !.pings = @ - 1]]
      <4>1. Append(net[a].stream, Control("pong", "ok")) \in Seq(StreamFrame)
        BY <2>1, Frames
      <4>2. net[a].pings - 1 \in Nat
        BY <2>1, <3>2
      <4>3. [net[a] EXCEPT !.stream = Append(@, Control("pong", "ok")),
                           !.pings = @ - 1] \in NetRecord
        BY <2>1, <4>1, <4>2 DEF NetRecord
      <4> QED
        BY <3>2, <4>3
    <3> QED
      BY <2>6, <3>1, <3>2 DEF UpstreamSends
  <2>7. CASE UpstreamRestarts(a) \/ UpstreamCloses(a) \/ UpstreamStops(a)
             \/ LinkVanishes(a)
    <3>1. CASE UpstreamRestarts(a)
      <4>1. [net[a] EXCEPT !.upstream = "idle"] \in NetRecord
        BY <2>1 DEF NetRecord
      <4> QED
        BY <3>1, <4>1 DEF UpstreamRestarts
    <3>2. CASE UpstreamCloses(a)
      <4>1. [net[a] EXCEPT !.link = "closed", !.upstream = "idle"] \in NetRecord
        BY <2>1 DEF NetRecord
      <4> QED
        BY <3>2, <4>1 DEF UpstreamCloses
    <3>3. CASE UpstreamStops(a)
      <4>1. [net[a] EXCEPT !.upstream = "down",
                !.link = IF @ = "live" THEN "closed" ELSE @] \in NetRecord
        BY <2>1 DEF NetRecord
      <4> QED
        BY <3>3, <4>1 DEF UpstreamStops
    <3>4. CASE LinkVanishes(a)
      <4>1. <<>> \in Seq(StreamFrame)
        OBVIOUS
      <4>2. [net[a] EXCEPT !.link = "silent", !.upstream = "idle",
                           !.stream = <<>>] \in NetRecord
        BY <2>1, <4>1 DEF NetRecord
      <4> QED
        BY <3>4, <4>2 DEF LinkVanishes
    <3> QED
      BY <2>7, <3>1, <3>2, <3>3, <3>4
  <2> QED
    BY <1>4, <2>4, <2>5, <2>6, <2>7 DEF UpstreamStep, FaultStep
<1>5. ASSUME NEW a \in Addresses, NEW t \in Topics, UpstreamPublishes(a, t)
      PROVE  NetInv'
  BY <1>5 DEF UpstreamPublishes, NetInv
<1>6. ASSUME NEW d \in Descriptors, OtherOpens(d) \/ OtherCloses(d) PROVE NetInv'
  BY <1>1, <1>6 DEF OtherOpens, OtherCloses
<1>7. CASE UNCHANGED vars
  BY <1>1, <1>7 DEF vars
<1> QED
  BY <1>2, <1>3, <1>4, <1>5, <1>6, <1>7 DEF Next

-----------------------------------------------------------------------------
(* A thread and its link.                                                  *)

\* Before it asks, the upstream does nothing for the thread and nothing is on
\* the way; nothing is while the upstream has not answered; as long as the
\* link lives the ping thread does, and an interval that recv() has waited
\* has brought a ping, or its answer.
LinkOK(c, n) ==
    /\ c.pc \in {"sleep", "connect", "subscribe"} =>
          n.upstream \in {"idle", "down"} /\ n.stream = <<>>
    /\ n.upstream = "requested" => c.pc = "response" /\ n.stream = <<>>
    /\ n.link = "live" /\ c.pc \in Reading =>
          ~c.socket_disconnected /\ c.ping \in {"wait", "due", "send"}
    /\ n.link = "live" /\ c.pc = "recv" /\ c.idle # 0 =>
          /\ c.idle = 1
          /\ c.ping \in {"due", "send"} \/ n.pings > 0 \/ n.stream # <<>>

LinkInv == \A a \in Addresses : LinkOK(conn[a], net[a])

LEMMA LinkInit == Init => LinkInv
<1>1. LinkOK(InitConn, InitNet)
  BY DEF LinkOK, InitConn, InitNet, Reading
<1> QED
  BY <1>1 DEF Init, LinkInv

\* A step of one thread, or of its upstream, leaves the others alone.
LEMMA LinkLocal ==
    ASSUME ConnInv, NetInv, NEW a \in Addresses,
           \/ ConnectorStep(a) \/ PingStep(a) \/ UpstreamStep(a)
           \/ FaultStep(a) \/ Tick(a)
    PROVE  \A b \in Addresses : b # a => conn'[b] = conn[b] /\ net'[b] = net[b]
<1>1. conn \in [Addresses -> ConnRecord] /\ net \in [Addresses -> NetRecord]
  BY DEF ConnInv, NetInv
<1>2. CASE ConnectorStep(a)
  BY <1>1, <1>2
  DEF ConnectorStep, Socket, Connect, ConnectFails, SendSubscribe,
      SendSubscribeFails, Subscribed, NotSubscribed, CheckFlag, ReadFrame,
      ReadBreaks, StoreDisconnected, Shutdown, Join, CloseAtEnd, Close, Goto
<1>3. CASE PingStep(a) \/ Tick(a)
  BY <1>1, <1>3
  DEF PingStep, PingStops, PingDue, PingSent, PingFails, PingStores,
      PingShutsDown, PingGoto, Tick
<1>4. CASE UpstreamStep(a) \/ FaultStep(a)
  BY <1>1, <1>4
  DEF UpstreamStep, UpstreamInitializes, UpstreamAnswers, UpstreamSends,
      UpstreamRestarts, FaultStep, UpstreamRefuses, UpstreamCloses,
      UpstreamStops, LinkVanishes
<1> QED
  BY <1>2, <1>3, <1>4

\* Each step of a thread, of its ping thread, of its upstream and of time.
LEMMA LinkKept ==
    ASSUME ConnInv, NetInv, NEW a \in Addresses, LinkOK(conn[a], net[a]),
           \/ ConnectorStep(a) \/ PingStep(a) \/ UpstreamStep(a)
           \/ FaultStep(a) \/ Tick(a)
    PROVE  LinkOK(conn'[a], net'[a])
<1> USE DEF LinkOK, Reading
<1>a. /\ conn \in [Addresses -> ConnRecord] /\ net \in [Addresses -> NetRecord]
      /\ conn[a] \in ConnRecord /\ net[a] \in NetRecord
      /\ net[a].stream \in Seq(StreamFrame)
  BY DEF ConnInv, NetInv, NetRecord
<1>0. CASE \E d \in Descriptors : Socket(a, d)
  BY <1>a, <1>0 DEF Socket, ConnRecord, NetRecord
<1>1. CASE Connect(a)
  BY <1>a, <1>1 DEF Connect, Goto, ConnRecord, NetRecord
<1>2. CASE SendSubscribe(a)
  BY <1>a, <1>2 DEF SendSubscribe, ConnRecord, NetRecord
<1>3. CASE Subscribed(a)
  BY <1>a, <1>3 DEF Subscribed, Received, ConnRecord, NetRecord
<1>4. CASE CheckFlag(a)
  BY <1>a, <1>4 DEF CheckFlag, ConnRecord, NetRecord
<1>5. CASE ReadFrame(a)
  BY <1>a, <1>5 DEF ReadFrame, Goto, ConnRecord, NetRecord
<1>6. CASE ReadBreaks(a)
  BY <1>a, <1>6 DEF ReadBreaks, Goto, ConnRecord, NetRecord
<1>7. CASE StoreDisconnected(a)
  BY <1>a, <1>7 DEF StoreDisconnected, ConnRecord, NetRecord
<1>8. CASE Shutdown(a)
  BY <1>a, <1>8 DEF Shutdown, Goto, ConnRecord, NetRecord
<1>9. CASE Join(a)
  BY <1>a, <1>9 DEF Join, Goto, ConnRecord, NetRecord
<1>10. CASE PingStops(a)
  BY <1>a, <1>10 DEF PingStops, PingGoto, ConnRecord, NetRecord
<1>11. CASE PingDue(a)
  BY <1>a, <1>11 DEF PingDue, PingGoto, ConnRecord, NetRecord
<1>12. CASE PingSent(a)
  BY <1>a, <1>12 DEF PingSent, PingGoto, ConnRecord, NetRecord
<1>13. CASE PingFails(a)
  BY <1>a, <1>13 DEF PingFails, PingGoto, ConnRecord, NetRecord
<1>14. CASE PingStores(a)
  BY <1>a, <1>14 DEF PingStores, ConnRecord, NetRecord
<1>15. CASE PingShutsDown(a)
  BY <1>a, <1>15 DEF PingShutsDown, PingGoto, ConnRecord, NetRecord
<1>16. CASE ConnectFails(a)
  BY <1>a, <1>16 DEF ConnectFails, Close, Goto, ConnRecord, NetRecord
<1>17. CASE SendSubscribeFails(a)
  BY <1>a, <1>17 DEF SendSubscribeFails, Close, Goto, ConnRecord, NetRecord
<1>18. CASE NotSubscribed(a)
  BY <1>a, <1>18 DEF NotSubscribed, Close, Goto, ConnRecord, NetRecord
<1>19. CASE CloseAtEnd(a)
  BY <1>a, <1>19 DEF CloseAtEnd, Close, Goto, ConnRecord, NetRecord
<1>20. CASE UpstreamInitializes(a)
  BY <1>a, <1>20 DEF UpstreamInitializes, ConnRecord, NetRecord
<1>21. CASE UpstreamAnswers(a)
  BY <1>a, <1>21 DEF UpstreamAnswers, ConnRecord, NetRecord
<1>22. CASE UpstreamSends(a)
  <2>1. /\ conn'[a] = conn[a] /\ net[a].upstream = "serving"
        /\ net'[a].upstream = "serving" /\ net'[a].link = net[a].link
    BY <1>a, <1>22 DEF UpstreamSends, NetRecord
  <2>2. \E f : net'[a].stream = Append(net[a].stream, f)
    BY <1>a, <1>22 DEF UpstreamSends, NetRecord
  <2>3. net'[a].stream # <<>>
    BY <1>a, <2>2
  <2> QED
    BY <2>1, <2>3
<1>23. CASE UpstreamRestarts(a)
  BY <1>a, <1>23 DEF UpstreamRestarts, ConnRecord, NetRecord
<1>24. CASE UpstreamRefuses(a)
  BY <1>a, <1>24 DEF UpstreamRefuses, ConnRecord, NetRecord
<1>25. CASE UpstreamCloses(a)
  BY <1>a, <1>25 DEF UpstreamCloses, ConnRecord, NetRecord
<1>26. CASE UpstreamStops(a)
  BY <1>a, <1>26 DEF UpstreamStops, ConnRecord, NetRecord
<1>27. CASE LinkVanishes(a)
  BY <1>a, <1>27 DEF LinkVanishes, ConnRecord, NetRecord
<1>28. CASE Tick(a)
  BY <1>a, <1>28 DEF Tick, Received, ReadFails, ReadTimeout, ConnRecord, NetRecord
<1> QED
  BY <1>0, <1>1, <1>2, <1>3, <1>4, <1>5, <1>6, <1>7, <1>8, <1>9, <1>10, <1>11,
     <1>12, <1>13, <1>14, <1>15, <1>16, <1>17, <1>18, <1>19, <1>20, <1>21,
     <1>22, <1>23, <1>24, <1>25, <1>26, <1>27, <1>28
  DEF ConnectorStep, PingStep, UpstreamStep, FaultStep

LEMMA LinkStep == ConnInv /\ NetInv /\ LinkInv /\ [Next]_vars => LinkInv'
<1> SUFFICES ASSUME ConnInv, NetInv, LinkInv, [Next]_vars PROVE LinkInv'
  OBVIOUS
<1>1. ASSUME UNCHANGED <<conn, net>> PROVE LinkInv'
  BY <1>1 DEF LinkInv, LinkOK
<1>2. ASSUME NEW a \in Addresses,
             \/ ConnectorStep(a) \/ PingStep(a) \/ UpstreamStep(a)
             \/ FaultStep(a) \/ Tick(a)
      PROVE  LinkInv'
  <2>1. LinkOK(conn'[a], net'[a])
    BY <1>2, LinkKept DEF LinkInv
  <2>2. \A b \in Addresses : LinkOK(conn'[b], net'[b])
    BY <1>2, <2>1, LinkLocal DEF LinkInv
  <2> QED
    BY <2>2 DEF LinkInv, LinkOK
<1>3. CASE \/ \E a \in Addresses, t \in Topics : UpstreamPublishes(a, t)
           \/ \E d \in Descriptors : OtherOpens(d) \/ OtherCloses(d)
           \/ UNCHANGED vars
  BY <1>1, <1>3 DEF UpstreamPublishes, OtherOpens, OtherCloses, vars
<1> QED
  BY <1>2, <1>3 DEF Next

-----------------------------------------------------------------------------
(* What is relayed.                                                        *)

\* Messages of an upstream that were appended, those on the way, the cursor
\* and the end of the log follow each other.
InOrder(a, q, cursor, length, app) ==
    /\ cursor <= length + 1
    /\ \A i \in 1..Len(q) : q[i].kind = "message" => q[i].n < cursor
    /\ \A i, j \in 1..Len(q) :
          i < j /\ q[i].kind = "message" /\ q[j].kind = "message" =>
              q[i].n < q[j].n
    /\ \A k \in 1..Len(app) : app[k][1] = a => app[k][2] < cursor
    /\ \A k \in 1..Len(app), i \in 1..Len(q) :
          app[k][1] = a /\ q[i].kind = "message" => app[k][2] < q[i].n

OrderInv ==
    /\ \A a \in Addresses :
          InOrder(a, net[a].stream, net[a].cursor, Len(log[a]), appended)
    /\ RelayInOrder

LEMMA OrderInit == Init => OrderInv
<1> SUFFICES ASSUME Init PROVE OrderInv
  OBVIOUS
<1>1. \A a \in Addresses : /\ net[a].stream = <<>> /\ net[a].cursor = 1
                            /\ log[a] = <<>>
  BY DEF Init, InitNet
<1>2. appended = <<>>
  BY DEF Init
<1>3. ASSUME NEW a \in Addresses
      PROVE  InOrder(a, net[a].stream, net[a].cursor, Len(log[a]), appended)
  BY <1>1, <1>2 DEF InOrder
<1>4. RelayInOrder
  BY <1>2 DEF RelayInOrder
<1> QED
  BY <1>3, <1>4 DEF OrderInv

\* How a step may change what is on the way from one upstream: not at all, but
\* for the cursor, which may go to the end of the log; it is forgotten; the
\* message at the cursor is added, or a control frame; or the first is read.
Stays(a) ==
    /\ net'[a].stream \in {net[a].stream, <<>>}
    /\ net'[a].cursor \in {net[a].cursor, Len(log[a]) + 1}
    /\ UNCHANGED appended

Sends(a) ==
    /\ net[a].cursor <= Len(log[a])
    /\ net'[a].stream = Append(net[a].stream, Message(net[a].cursor))
    /\ net'[a].cursor = net[a].cursor + 1
    /\ UNCHANGED appended

Answers(a) ==
    /\ \E kind \in {"subscribe", "pong"}, body \in {"ok", "fail"} :
          net'[a].stream = Append(net[a].stream, Control(kind, body))
    /\ net'[a].cursor = net[a].cursor
    /\ UNCHANGED appended

Reads(a) ==
    /\ net[a].stream # <<>>
    /\ net'[a].stream = Tail(net[a].stream)
    /\ net'[a].cursor = net[a].cursor
    /\ LET f == Head(net[a].stream)
       IN  \/ UNCHANGED appended
           \/ f.kind = "message" /\ appended' = Append(appended, <<a, f.n>>)

\* Every step is one of these.
LEMMA StreamSteps ==
    ASSUME NetInv, NEW a \in Addresses,
           \/ ConnectorStep(a) \/ PingStep(a) \/ UpstreamStep(a)
           \/ FaultStep(a) \/ Tick(a)
    PROVE  /\ Stays(a) \/ Sends(a) \/ Answers(a) \/ Reads(a)
           /\ UNCHANGED log
<1>1. net \in [Addresses -> NetRecord] /\ net[a] \in NetRecord
  BY DEF NetInv
<1>2. CASE \/ ConnectFails(a) \/ SendSubscribeFails(a) \/ NotSubscribed(a)
           \/ CloseAtEnd(a)
  BY <1>1, <1>2
  DEF ConnectFails, SendSubscribeFails, NotSubscribed, CloseAtEnd, Close,
      NetRecord, Stays
<1>3. CASE \/ \E d \in Descriptors : Socket(a, d)
           \/ CheckFlag(a) \/ ReadBreaks(a) \/ StoreDisconnected(a) \/ Join(a)
  BY <1>3 DEF Socket, CheckFlag, ReadBreaks, StoreDisconnected, Join, Stays
<1>9. CASE Connect(a) \/ SendSubscribe(a) \/ Shutdown(a)
  BY <1>1, <1>9 DEF Connect, SendSubscribe, Shutdown, NetRecord, Stays
<1>4. CASE Subscribed(a) \/ ReadFrame(a)
  BY <1>1, <1>4 DEF Subscribed, ReadFrame, Received, NetRecord, Reads
<1>5. CASE PingStep(a) \/ Tick(a)
  BY <1>1, <1>5
  DEF PingStep, PingStops, PingDue, PingSent, PingFails, PingStores,
      PingShutsDown, Tick, NetRecord, Stays
<1>6. CASE UpstreamAnswers(a) \/ UpstreamRefuses(a)
  BY <1>1, <1>6 DEF UpstreamAnswers, UpstreamRefuses, NetRecord, Answers
<1>7. CASE UpstreamSends(a)
  BY <1>1, <1>7 DEF UpstreamSends, NetRecord, Sends, Answers
<1>8. CASE \/ UpstreamInitializes(a) \/ UpstreamRestarts(a) \/ UpstreamCloses(a)
           \/ UpstreamStops(a) \/ LinkVanishes(a)
  BY <1>1, <1>8
  DEF UpstreamInitializes, UpstreamRestarts, UpstreamCloses, UpstreamStops,
      LinkVanishes, NetRecord, Stays
<1> QED
  BY <1>2, <1>3, <1>4, <1>5, <1>6, <1>7, <1>8, <1>9
  DEF ConnectorStep, UpstreamStep, FaultStep

\* Control frames are no messages, and a message carries its number.
LEMMA FrameKinds ==
    /\ \A n : Message(n).kind = "message" /\ Message(n).n = n
    /\ \A kind \in {"subscribe", "pong"}, body \in {"ok", "fail"} :
          Control(kind, body).kind # "message"
  BY DEF Message, Control

LEMMA MessageNumber ==
    ASSUME NEW q \in Seq(StreamFrame), NEW i \in 1..Len(q), q[i].kind = "message"
    PROVE  q[i].n \in Nat
<1>1. q[i] \in StreamFrame
  OBVIOUS
<1> QED
  BY <1>1 DEF StreamFrame

\* Nothing is read or sent: the stream may be forgotten, the log may grow and
\* the cursor go to its end.
LEMMA OrderStays ==
    ASSUME NEW a, NEW q \in Seq(StreamFrame), NEW c \in Nat, NEW l \in Nat,
           NEW app \in Seq(Addresses \X Nat), InOrder(a, q, c, l, app),
           NEW r \in {q, <<>>}, NEW m \in Nat, m >= l, NEW d \in {c, m + 1}
    PROVE  InOrder(a, r, d, m, app)
<1>1. c <= d /\ d \in Nat /\ d <= m + 1
  BY DEF InOrder
<1>2. \A i \in 1..Len(r) : i \in 1..Len(q) /\ r[i] = q[i]
  OBVIOUS
<1>3. \A k \in 1..Len(app) : app[k][2] \in Nat
  OBVIOUS
<1>4. ASSUME NEW i \in 1..Len(r), r[i].kind = "message" PROVE r[i].n < d
  <2>1. q[i].n \in Nat /\ q[i].n < c
    BY <1>2, <1>4, MessageNumber DEF InOrder
  <2> QED
    BY <1>1, <1>2, <2>1
<1>5. ASSUME NEW k \in 1..Len(app), app[k][1] = a PROVE app[k][2] < d
  BY <1>1, <1>3, <1>5 DEF InOrder
<1>6. ASSUME NEW i \in 1..Len(r), NEW j \in 1..Len(r), i < j,
             r[i].kind = "message", r[j].kind = "message"
      PROVE  r[i].n < r[j].n
  BY <1>2, <1>6 DEF InOrder
<1>7. ASSUME NEW k \in 1..Len(app), NEW i \in 1..Len(r), app[k][1] = a,
             r[i].kind = "message"
      PROVE  app[k][2] < r[i].n
  BY <1>2, <1>7 DEF InOrder
<1> QED
  BY <1>1, <1>4, <1>5, <1>6, <1>7 DEF InOrder

\* The message at the cursor is sent.
LEMMA OrderSends ==
    ASSUME NEW a, NEW q \in Seq(StreamFrame), NEW c \in Nat, NEW l \in Nat,
           NEW app \in Seq(Addresses \X Nat), InOrder(a, q, c, l, app), c <= l
    PROVE  InOrder(a, Append(q, Message(c)), c + 1, l, app)
<1> DEFINE r == Append(q, Message(c))
<1>1. /\ Len(r) = Len(q) + 1 /\ r[Len(q) + 1] = Message(c)
      /\ \A i \in 1..Len(q) : r[i] = q[i]
      /\ \A i \in 1..Len(r) : i \in 1..Len(q) \/ i = Len(q) + 1
  OBVIOUS
<1> HIDE DEF r
<1>2. \A i \in 1..Len(q) : q[i].kind = "message" => q[i].n \in Nat /\ q[i].n < c
  BY MessageNumber DEF InOrder
<1>3. \A k \in 1..Len(app) : app[k][2] \in Nat
  OBVIOUS
<1>4. r[Len(q) + 1].n = c /\ Len(q) \in Nat
  BY <1>1, FrameKinds
<1>5. ASSUME NEW i \in 1..Len(r), r[i].kind = "message" PROVE r[i].n < c + 1
  BY <1>1, <1>2, <1>4, <1>5
<1>6. ASSUME NEW k \in 1..Len(app), app[k][1] = a PROVE app[k][2] < c + 1
  BY <1>3, <1>6 DEF InOrder
<1>7. ASSUME NEW i \in 1..Len(r), NEW j \in 1..Len(r), i < j,
             r[i].kind = "message", r[j].kind = "message"
      PROVE  r[i].n < r[j].n
  <2>1. i \in 1..Len(q)
    BY <1>1, <1>4, <1>7
  <2>2. CASE j \in 1..Len(q)
    BY <1>1, <1>7, <2>1, <2>2 DEF InOrder
  <2>3. CASE j = Len(q) + 1
    BY <1>1, <1>2, <1>4, <1>7, <2>1, <2>3
  <2> QED
    BY <1>1, <2>2, <2>3
<1>8. ASSUME NEW k \in 1..Len(app), NEW i \in 1..Len(r), app[k][1] = a,
             r[i].kind = "message"
      PROVE  app[k][2] < r[i].n
  <2>1. CASE i \in 1..Len(q)
    BY <1>1, <1>8, <2>1 DEF InOrder
  <2>2. CASE i = Len(q) + 1
    BY <1>4, <1>8, <2>2 DEF InOrder
  <2> QED
    BY <1>1, <2>1, <2>2
<1>9. InOrder(a, r, c + 1, l, app)
  BY <1>5, <1>6, <1>7, <1>8 DEF InOrder
<1> QED
  BY <1>9 DEF r

\* A pong, or the answer to the subscription, is sent.
LEMMA OrderAnswers ==
    ASSUME NEW a, NEW q \in Seq(StreamFrame), NEW c \in Nat, NEW l \in Nat,
           NEW app \in Seq(Addresses \X Nat), InOrder(a, q, c, l, app),
           NEW f, f.kind # "message"
    PROVE  InOrder(a, Append(q, f), c, l, app)
<1> DEFINE r == Append(q, f)
<1>1. \A i \in 1..Len(r) :
         r[i].kind = "message" => i \in 1..Len(q) /\ r[i] = q[i]
  OBVIOUS
<1> HIDE DEF r
<1>2. ASSUME NEW i \in 1..Len(r), NEW j \in 1..Len(r), i < j,
             r[i].kind = "message", r[j].kind = "message"
      PROVE  r[i].n < r[j].n
  BY <1>1, <1>2 DEF InOrder
<1>3. InOrder(a, r, c, l, app)
  BY <1>1, <1>2 DEF InOrder
<1> QED
  BY <1>3 DEF r

\* The first frame is read.
LEMMA OrderReads ==
    ASSUME NEW a, NEW q \in Seq(StreamFrame), NEW c \in Nat, NEW l \in Nat,
           NEW app \in Seq(Addresses \X Nat), InOrder(a, q, c, l, app), q # <<>>
    PROVE  /\ InOrder(a, Tail(q), c, l, app)
           /\ q[1].kind = "message" =>
                 InOrder(a, Tail(q), c, l, Append(app, <<a, q[1].n>>))
<1> DEFINE r == Tail(q)
           new == Append(app, <<a, q[1].n>>)
<1>1. /\ Len(q) \in Nat \ {0} /\ 1 \in 1..Len(q)
      /\ \A i \in 1..Len(r) : r[i] = q[i + 1] /\ i + 1 \in 1..Len(q) /\ 1 < i + 1
      /\ \A i, j \in 1..Len(r) : i < j => i + 1 < j + 1
  OBVIOUS
<1>2. \A k \in 1..Len(new) :
         \/ k \in 1..Len(app) /\ new[k] = app[k]
         \/ new[k] = <<a, q[1].n>>
  OBVIOUS
<1> HIDE DEF r, new
<1>3. ASSUME NEW i \in 1..Len(r), NEW j \in 1..Len(r), i < j,
             r[i].kind = "message", r[j].kind = "message"
      PROVE  r[i].n < r[j].n
  <2>1. i + 1 < j + 1 /\ r[i] = q[i + 1] /\ r[j] = q[j + 1]
        /\ i + 1 \in 1..Len(q) /\ j + 1 \in 1..Len(q)
    BY <1>1, <1>3
  <2> QED
    BY <1>3, <2>1 DEF InOrder
<1>4. InOrder(a, r, c, l, app)
  BY <1>1, <1>3 DEF InOrder
<1>5. ASSUME q[1].kind = "message" PROVE InOrder(a, r, c, l, new)
  <2>1. ASSUME NEW k \in 1..Len(new), new[k][1] = a PROVE new[k][2] < c
    BY <1>1, <1>2, <1>5, <2>1 DEF InOrder
  <2>2. ASSUME NEW k \in 1..Len(new), NEW i \in 1..Len(r), new[k][1] = a,
               r[i].kind = "message"
        PROVE  new[k][2] < r[i].n
    <3>1. CASE k \in 1..Len(app) /\ new[k] = app[k]
      BY <1>4, <2>2, <3>1 DEF InOrder
    <3>2. CASE new[k] = <<a, q[1].n>>
      <4>1. r[i] = q[i + 1] /\ i + 1 \in 1..Len(q) /\ 1 < i + 1
        BY <1>1
      <4>2. q[1].n < q[i + 1].n
        BY <1>1, <1>5, <2>2, <4>1 DEF InOrder
      <4> QED
        BY <3>2, <4>1, <4>2
    <3> QED
      BY <1>2, <3>1, <3>2
  <2> QED
    BY <1>4, <2>1, <2>2 DEF InOrder
<1> QED
  BY <1>4, <1>5 DEF r, new

LEMMA OrderStep == ConnInv /\ NetInv /\ OrderInv /\ [Next]_vars => OrderInv'
<1> SUFFICES ASSUME ConnInv, NetInv, OrderInv, [Next]_vars PROVE OrderInv'
  OBVIOUS
<1>0. /\ appended \in Seq(Addresses \X Nat)
      /\ \A a \in Addresses : /\ net[a].stream \in Seq(StreamFrame)
                               /\ net[a].cursor \in Nat /\ Len(log[a]) \in Nat
  BY DEF NetInv, NetRecord
<1>1. ASSUME UNCHANGED <<net, log, appended>> PROVE OrderInv'
  BY <1>1 DEF OrderInv, RelayInOrder
<1>2. ASSUME NEW a \in Addresses,
             \/ ConnectorStep(a) \/ PingStep(a) \/ UpstreamStep(a)
             \/ FaultStep(a) \/ Tick(a)
      PROVE  OrderInv'
  <2> DEFINE q == net[a].stream
             f == <<a, q[1].n>>
  <2>1. /\ Stays(a) \/ Sends(a) \/ Answers(a) \/ Reads(a)
        /\ UNCHANGED log
    BY <1>2, StreamSteps
  <2>2. \A b \in Addresses : b # a => net'[b] = net[b]
    BY <1>2, LinkLocal
  <2>3. InOrder(a, q, net[a].cursor, Len(log[a]), appended)
    BY DEF OrderInv
  <2>4. q # <<>> => Head(q) = q[1] /\ 1 \in 1..Len(q)
    BY <1>0
  <2>5. \/ UNCHANGED appended
        \/ /\ Reads(a) /\ q # <<>> /\ q[1].kind = "message"
           /\ appended' = Append(appended, f)
    BY <2>1, <2>4 DEF Stays, Sends, Answers, Reads
  <2>6. InOrder(a, net'[a].stream, net'[a].cursor, Len(log'[a]), appended')
    <3>1. CASE Stays(a)
      <4>1. /\ net'[a].stream \in {q, <<>>} /\ UNCHANGED appended
            /\ net'[a].cursor \in {net[a].cursor, Len(log[a]) + 1}
        BY <3>1 DEF Stays
      <4>2. ASSUME NEW r \in {q, <<>>}, NEW l \in Nat, l = Len(log[a]),
                   NEW d \in {net[a].cursor, l + 1}
            PROVE  InOrder(a, r, d, l, appended)
        <5>1. InOrder(a, q, net[a].cursor, l, appended) /\ l >= l
          BY <2>3, <4>2
        <5>2. q \in Seq(StreamFrame) /\ net[a].cursor \in Nat
              /\ appended \in Seq(Addresses \X Nat)
          BY <1>0
        <5> HIDE DEF q
        <5> QED
          BY <5>1, <5>2, OrderStays
      <4> QED
        BY <1>0, <2>1, <4>1, <4>2
    <3>2. CASE Sends(a)
      BY <1>0, <2>1, <2>3, <3>2, OrderSends DEF Sends
    <3>3. CASE Answers(a)
      <4>1. PICK g : /\ g.kind # "message" /\ UNCHANGED appended
                     /\ net'[a].stream = Append(q, g)
                     /\ net'[a].cursor = net[a].cursor
        BY <3>3, FrameKinds DEF Answers
      <4>2. InOrder(a, Append(q, g), net[a].cursor, Len(log[a]), appended)
        BY <1>0, <2>3, <4>1, OrderAnswers
      <4> QED
        BY <2>1, <4>1, <4>2
    <3>4. CASE Reads(a)
      BY <1>0, <2>1, <2>3, <2>4, <3>4, OrderReads DEF Reads
    <3> QED
      BY <2>1, <3>1, <3>2, <3>3, <3>4
  <2>7. ASSUME q # <<>>, q[1].kind = "message", appended' = Append(appended, f)
        PROVE  /\ Len(appended) \in Nat /\ Len(appended') = Len(appended) + 1
               /\ \A k \in 1..Len(appended) : appended'[k] = appended[k]
               /\ appended'[Len(appended) + 1] = f
    <3>1. f \in Addresses \X Nat
      BY <1>0, <2>4, <2>7, MessageNumber
    <3> HIDE DEF f
    <3> QED
      BY <1>0, <2>7, <3>1
  <2>8. ASSUME NEW b \in Addresses, b # a
        PROVE  InOrder(b, net'[b].stream, net'[b].cursor, Len(log'[b]), appended')
    <3>1. InOrder(b, net[b].stream, net[b].cursor, Len(log[b]), appended)
      BY DEF OrderInv
    <3>2. \A k \in 1..Len(appended') : appended'[k][1] = b =>
             k \in 1..Len(appended) /\ appended'[k] = appended[k]
      BY <2>5, <2>7, <2>8
    <3>3. InOrder(b, net[b].stream, net[b].cursor, Len(log[b]), appended')
      BY <3>1, <3>2 DEF InOrder
    <3> QED
      BY <2>1, <2>2, <2>8, <3>3
  <2>9. RelayInOrder'
    <3>1. CASE UNCHANGED appended
      BY <3>1 DEF OrderInv, RelayInOrder
    <3>2. CASE /\ q # <<>> /\ q[1].kind = "message"
               /\ appended' = Append(appended, f)
      <4>1. \A k \in 1..Len(appended) : appended[k][1] = a => appended[k][2] < q[1].n
        BY <2>3, <2>4, <3>2 DEF InOrder
      <4>2. f[1] = a /\ f[2] = q[1].n
        OBVIOUS
      <4> HIDE DEF f
      <4> QED
        <5>1. /\ Len(appended) \in Nat /\ Len(appended') = Len(appended) + 1
              /\ \A k \in 1..Len(appended) : appended'[k] = appended[k]
              /\ appended'[Len(appended) + 1] = f
          BY <2>7, <3>2
        <5>2. SUFFICES ASSUME NEW i \in 1..Len(appended'),
                              NEW j \in 1..Len(appended'),
                              i < j, appended'[i][1] = appended'[j][1]
                       PROVE  appended'[i][2] < appended'[j][2]
          BY DEF RelayInOrder
        <5>3. i \in 1..Len(appended)
          BY <5>1, <5>2
        <5>4. CASE j \in 1..Len(appended)
          BY <5>1, <5>2, <5>3, <5>4 DEF OrderInv, RelayInOrder
        <5>5. CASE j = Len(appended) + 1
          BY <4>1, <4>2, <5>1, <5>2, <5>3, <5>5
        <5> QED
          BY <5>1, <5>4, <5>5
    <3> QED
      BY <2>5, <3>1, <3>2
  <2> QED
    BY <2>6, <2>8, <2>9 DEF OrderInv
<1>3. ASSUME NEW a \in Addresses, NEW t \in Topics, UpstreamPublishes(a, t)
      PROVE  OrderInv'
  <2>1. /\ UNCHANGED <<net, appended>>
        /\ \A b \in Addresses : Len(log'[b]) \in Nat /\ Len(log'[b]) >= Len(log[b])
    BY <1>3 DEF UpstreamPublishes, NetInv
  <2>2. ASSUME NEW b \in Addresses
        PROVE  InOrder(b, net[b].stream, net[b].cursor, Len(log'[b]), appended)
    BY <1>0, <2>1, OrderStays DEF OrderInv
  <2> QED
    BY <2>1, <2>2 DEF OrderInv, RelayInOrder
<1>4. CASE \/ \E d \in Descriptors : OtherOpens(d) \/ OtherCloses(d)
           \/ UNCHANGED vars
  BY <1>1, <1>4 DEF OtherOpens, OtherCloses, vars
<1> QED
  BY <1>2, <1>3, <1>4 DEF Next

-----------------------------------------------------------------------------
(* Nothing is left out.                                                    *)

\* Message n of upstream a was appended, is on the way, or is still to come.
Covered(a, n, q, cursor, app) ==
    \/ \E i \in 1..Len(app) : app[i] = <<a, n>>
    \/ \E i \in 1..Len(q) : q[i] = Message(n)
    \/ n >= cursor

\* How a step of thread or upstream a ends with a reader on a live link: it
\* has just been subscribed, or it was there before and the step kept what is
\* on the way, added to it, or took its first frame.
Continues(a) ==
    /\ conn[a].pc \in Reading /\ net[a].link = "live"
    /\ conn'[a].since = conn[a].since
    /\ \/ net'[a].stream = net[a].stream /\ net'[a].cursor = net[a].cursor
          /\ UNCHANGED appended
       \/ Sends(a) \/ Answers(a) \/ ReadFrame(a)

LEMMA ReaderSteps ==
    ASSUME ConnInv, NetInv, NEW a \in Addresses, LinkOK(conn[a], net[a]),
           \/ ConnectorStep(a) \/ PingStep(a) \/ UpstreamStep(a)
           \/ FaultStep(a) \/ Tick(a),
           conn'[a].pc \in Reading, net'[a].link = "live"
    PROVE  conn'[a].since = Len(log[a]) \/ Continues(a)
<1> USE DEF Reading
<1>1. /\ conn \in [Addresses -> ConnRecord] /\ net \in [Addresses -> NetRecord]
      /\ conn[a] \in ConnRecord /\ net[a] \in NetRecord
  BY DEF ConnInv, NetInv
<1>2. CASE \/ ConnectFails(a) \/ SendSubscribeFails(a) \/ NotSubscribed(a)
           \/ CloseAtEnd(a)
  BY <1>1, <1>2
  DEF ConnectFails, SendSubscribeFails, NotSubscribed, CloseAtEnd, Close, Goto,
      ConnRecord
<1>3. CASE \/ \E d \in Descriptors : Socket(a, d)
           \/ Connect(a) \/ SendSubscribe(a) \/ ReadBreaks(a)
           \/ StoreDisconnected(a) \/ Shutdown(a) \/ Join(a)
  <2>1. CASE \E d \in Descriptors : Socket(a, d)
    BY <1>1, <2>1 DEF Socket, ConnRecord
  <2>2. CASE SendSubscribe(a) \/ StoreDisconnected(a)
    BY <1>1, <2>2 DEF SendSubscribe, StoreDisconnected, ConnRecord
  <2>3. CASE Connect(a) \/ ReadBreaks(a) \/ Shutdown(a) \/ Join(a)
    BY <1>1, <2>3 DEF Connect, ReadBreaks, Shutdown, Join, Goto, ConnRecord
  <2> QED
    BY <1>3, <2>1, <2>2, <2>3
<1>4. CASE Subscribed(a)
  BY <1>1, <1>4 DEF Subscribed, ConnRecord
<1>5. CASE CheckFlag(a)
  BY <1>1, <1>5 DEF CheckFlag, ConnRecord, Continues
<1>6. CASE ReadFrame(a)
  <2>1. /\ conn[a].pc = "recv" /\ conn'[a].since = conn[a].since
        /\ net'[a].link = net[a].link
    BY <1>1, <1>6 DEF ReadFrame, Goto, ConnRecord, NetRecord
  <2> QED
    BY <1>6, <2>1 DEF Continues
<1>7. CASE PingStep(a) \/ Tick(a)
  <2>1. /\ conn'[a].since = conn[a].since /\ conn'[a].pc = conn[a].pc
        /\ UNCHANGED appended
    BY <1>1, <1>7
    DEF PingStep, PingStops, PingDue, PingSent, PingFails, PingStores,
        PingShutsDown, PingGoto, Tick, ConnRecord
  <2>2. /\ net[a].link = "live" /\ net'[a].stream = net[a].stream
        /\ net'[a].cursor = net[a].cursor
    BY <1>1, <1>7
    DEF PingStep, PingStops, PingDue, PingSent, PingFails, PingStores,
        PingShutsDown, PingGoto, Tick, NetRecord
  <2> QED
    BY <2>1, <2>2 DEF Continues
<1>8. CASE UpstreamStep(a) \/ FaultStep(a)
  <2>1. UNCHANGED <<conn, appended>>
    BY <1>8
    DEF UpstreamStep, UpstreamInitializes, UpstreamAnswers, UpstreamSends,
        UpstreamRestarts, FaultStep, UpstreamRefuses, UpstreamCloses,
        UpstreamStops, LinkVanishes
  <2>2. net[a].upstream # "requested"
    BY <2>1 DEF LinkOK
  <2>3. CASE UpstreamAnswers(a)
    BY <1>1, <2>1, <2>3 DEF UpstreamAnswers, NetRecord, Answers, Continues
  <2>4. CASE UpstreamSends(a)
    BY <1>1, <2>1, <2>4 DEF UpstreamSends, NetRecord, Sends, Answers, Continues
  <2>5. CASE UpstreamRestarts(a)
    BY <1>1, <2>1, <2>5 DEF UpstreamRestarts, NetRecord, Continues
  <2>6. CASE UpstreamCloses(a) \/ UpstreamStops(a) \/ LinkVanishes(a)
    BY <1>1, <2>6 DEF UpstreamCloses, UpstreamStops, LinkVanishes, NetRecord
  <2> QED
    BY <1>8, <2>2, <2>3, <2>4, <2>5, <2>6
    DEF UpstreamStep, FaultStep, UpstreamInitializes, UpstreamRefuses
<1> QED
  BY <1>2, <1>3, <1>4, <1>5, <1>6, <1>7, <1>8 DEF ConnectorStep

\* A frame more on the way, or the message at the cursor.
LEMMA CoveredSends ==
    ASSUME NEW a, NEW n \in Nat, NEW q \in Seq(StreamFrame), NEW c \in Nat,
           NEW app \in Seq(Addresses \X Nat), Covered(a, n, q, c, app)
    PROVE  /\ \A f : Covered(a, n, Append(q, f), c, app)
           /\ Covered(a, n, Append(q, Message(c)), c + 1, app)
<1>1. ASSUME NEW f, NEW i \in 1..Len(q), q[i] = Message(n)
      PROVE  \E j \in 1..Len(Append(q, f)) : Append(q, f)[j] = Message(n)
  <2>1. i \in 1..Len(Append(q, f)) /\ Append(q, f)[i] = q[i]
    OBVIOUS
  <2> QED
    BY <1>1, <2>1
<1>2. \A f : Covered(a, n, Append(q, f), c, app)
  BY <1>1 DEF Covered
<1>3. /\ Len(q) + 1 \in 1..Len(Append(q, Message(c)))
      /\ Append(q, Message(c))[Len(q) + 1] = Message(c)
  OBVIOUS
<1>4. CASE n >= c
  <2>1. n = c \/ n >= c + 1
    BY <1>4
  <2> QED
    BY <1>3, <2>1 DEF Covered
<1>5. CASE ~(n >= c)
  BY <1>1, <1>5 DEF Covered
<1> QED
  BY <1>2, <1>4, <1>5

\* The first frame is read: it was another one, or it is appended.
LEMMA CoveredReads ==
    ASSUME NEW a, NEW n \in Nat, NEW q \in Seq(StreamFrame), NEW c \in Nat,
           NEW app \in Seq(Addresses \X Nat), Covered(a, n, q, c, app), q # <<>>,
           NEW new, \/ new = app /\ q[1] # Message(n)
                    \/ /\ new = Append(app, <<a, q[1].n>>)
                       /\ <<a, q[1].n>> \in Addresses \X Nat
    PROVE  Covered(a, n, Tail(q), c, new)
<1>1. \A i \in 1..Len(app) : i \in 1..Len(new) /\ new[i] = app[i]
  OBVIOUS
<1>2. CASE \E i \in 1..Len(app) : app[i] = <<a, n>>
  BY <1>1, <1>2 DEF Covered
<1>3. CASE n >= c
  BY <1>3 DEF Covered
<1>4. ASSUME NEW i \in 1..Len(q), q[i] = Message(n)
      PROVE  Covered(a, n, Tail(q), c, new)
  <2>1. CASE i = 1
    <3>1. q[1].n = n
      BY <1>4, <2>1, FrameKinds
    <3>2. /\ Len(app) + 1 \in 1..Len(new)
          /\ new[Len(app) + 1] = <<a, q[1].n>>
      BY <1>4, <2>1
    <3> QED
      BY <3>1, <3>2 DEF Covered
  <2>2. CASE i # 1
    <3>1. i - 1 \in 1..Len(Tail(q)) /\ Tail(q)[i - 1] = q[i]
      BY <2>2
    <3> QED
      BY <1>4, <3>1 DEF Covered
  <2> QED
    BY <2>1, <2>2
<1> QED
  BY <1>2, <1>3, <1>4 DEF Covered

\* What RelayComplete says of one address.
Complete(a) ==
    conn[a].pc \in Reading /\ net[a].link = "live" =>
        \A n \in (conn[a].since + 1)..Len(log[a]) :
            log[a][n] \in Circles =>
                Covered(a, n, net[a].stream, net[a].cursor, appended)

LEMMA CompleteForm == RelayComplete <=> \A a \in Addresses : Complete(a)
  BY DEF RelayComplete, Complete, Covered, Relayed, OnTheWay

\* Steps of the thread, its ping thread, its upstream and its clock.
LEMMA CompleteOwn ==
    ASSUME ConnInv, NetInv, NEW a \in Addresses, LinkOK(conn[a], net[a]),
           Complete(a),
           \/ ConnectorStep(a) \/ PingStep(a) \/ UpstreamStep(a)
           \/ FaultStep(a) \/ Tick(a)
    PROVE  Complete(a)'
<1> DEFINE q == net[a].stream
           c == net[a].cursor
<1>1. /\ q \in Seq(StreamFrame) /\ c \in Nat /\ Len(log[a]) \in Nat
      /\ appended \in Seq(Addresses \X Nat) /\ conn[a].since \in Nat
  BY DEF ConnInv, ConnRecord, NetInv, NetRecord
<1>2. UNCHANGED log
  BY StreamSteps
<1> SUFFICES ASSUME conn'[a].pc \in Reading, net'[a].link = "live",
                    NEW n \in (conn'[a].since + 1)..Len(log[a]),
                    log[a][n] \in Circles
             PROVE  Covered(a, n, net'[a].stream, net'[a].cursor, appended')
  BY <1>2 DEF Complete, Covered
<1>3. CASE conn'[a].since = Len(log[a])
  BY <1>1, <1>3
<1>4. CASE Continues(a)
  <2>1. n \in Nat /\ Covered(a, n, q, c, appended)
    BY <1>1, <1>4 DEF Continues, Complete
  <2>2. CASE /\ net'[a].stream = q /\ net'[a].cursor = c
             /\ UNCHANGED appended
    BY <2>1, <2>2
  <2>3. CASE Sends(a)
    BY <1>1, <2>1, <2>3, CoveredSends DEF Sends
  <2>4. CASE Answers(a)
    <3>1. PICK f : net'[a].stream = Append(q, f)
      BY <2>4 DEF Answers
    <3>2. Covered(a, n, Append(q, f), c, appended)
      BY <1>1, <2>1, CoveredSends
    <3> QED
      BY <2>4, <3>1, <3>2 DEF Answers
  <2>5. CASE ReadFrame(a)
    <3>1. /\ q # <<>> /\ net'[a].stream = Tail(q) /\ net'[a].cursor = c
      BY <2>5 DEF ReadFrame, Received, NetInv, NetRecord
    <3>2. Head(q) = q[1] /\ 1 \in 1..Len(q)
      BY <1>1, <3>1
    <3>3. q[1] = Message(n) => q[1].kind = "message" /\ q[1].n = n
      BY FrameKinds
    <3>4. q[1].kind = "message" => <<a, q[1].n>> \in Addresses \X Nat
      BY <1>1, <3>2, MessageNumber
    <3>5. \/ appended' = appended /\ q[1] # Message(n)
          \/ /\ appended' = Append(appended, <<a, q[1].n>>)
             /\ <<a, q[1].n>> \in Addresses \X Nat
      BY <2>5, <3>2, <3>3, <3>4 DEF ReadFrame
    <3> HIDE DEF q, c
    <3>6. Covered(a, n, Tail(q), c, appended')
      BY <1>1, <2>1, <3>1, <3>5, CoveredReads
    <3> QED
      BY <3>1, <3>6
  <2> QED
    BY <1>4, <2>2, <2>3, <2>4, <2>5 DEF Continues
<1> QED
  BY <1>3, <1>4, ReaderSteps

LEMMA CompleteStep ==
    /\ ConnInv /\ NetInv /\ LinkInv /\ OrderInv /\ RelayComplete
    /\ [Next]_vars
    => RelayComplete'
<1> SUFFICES ASSUME ConnInv, NetInv, LinkInv, OrderInv, [Next]_vars,
                    \A a \in Addresses : Complete(a)
             PROVE  \A a \in Addresses : Complete(a)'
  BY CompleteForm DEF RelayComplete, Complete, Covered, Relayed, OnTheWay
<1>1. ASSUME UNCHANGED <<conn, net, log, appended>>
      PROVE  \A a \in Addresses : Complete(a)'
  BY <1>1 DEF Complete, Covered
<1>2. ASSUME NEW a \in Addresses,
             \/ ConnectorStep(a) \/ PingStep(a) \/ UpstreamStep(a)
             \/ FaultStep(a) \/ Tick(a)
      PROVE  \A b \in Addresses : Complete(b)'
  <2>1. Complete(a)'
    BY <1>2, CompleteOwn DEF LinkInv
  <2>2. UNCHANGED log
    BY <1>2, StreamSteps
  <2>3. \A k \in 1..Len(appended) :
           k \in 1..Len(appended') /\ appended'[k] = appended[k]
    <3>1. \/ UNCHANGED appended
          \/ \E f : appended' = Append(appended, f)
      BY <1>2, StreamSteps DEF Stays, Sends, Answers, Reads
    <3>2. appended \in Seq(Addresses \X Nat)
      BY DEF NetInv
    <3> QED
      BY <3>1, <3>2
  <2>4. ASSUME NEW b \in Addresses, b # a PROVE Complete(b)'
    <3>1. conn'[b] = conn[b] /\ net'[b] = net[b]
      BY <1>2, <2>4, LinkLocal
    <3>2. \A n : Covered(b, n, net[b].stream, net[b].cursor, appended) =>
                 Covered(b, n, net[b].stream, net[b].cursor, appended')
      BY <2>3 DEF Covered
    <3> QED
      BY <2>2, <3>1, <3>2 DEF Complete, Covered
  <2> QED
    BY <2>1, <2>4
<1>3. ASSUME NEW a \in Addresses, NEW t \in Topics, UpstreamPublishes(a, t),
             NEW b \in Addresses
      PROVE  Complete(b)'
  <2>1. /\ UNCHANGED <<conn, net, appended>>
        /\ log[b] \in Seq(Topics) /\ log'[b] \in {log[b], Append(log[b], t)}
        /\ conn[b].since \in Nat /\ net[b].cursor \in Nat
    BY <1>3
    DEF UpstreamPublishes, NetInv, NetRecord, ConnInv, ConnRecord
  <2>2. net[b].cursor <= Len(log[b]) + 1
    BY DEF OrderInv, InOrder
  <2>3. \A n \in (conn[b].since + 1)..Len(log'[b]) :
           \/ n \in (conn[b].since + 1)..Len(log[b]) /\ log'[b][n] = log[b][n]
           \/ n = Len(log[b]) + 1
    BY <2>1
  <2>4. \A n \in (conn[b].since + 1)..Len(log'[b]) :
           \/ n \in (conn[b].since + 1)..Len(log[b]) /\ log'[b][n] = log[b][n]
           \/ n >= net[b].cursor
    BY <2>1, <2>2, <2>3
  <2> QED
    BY <2>1, <2>4 DEF Complete, Covered
<1>4. CASE \/ \E d \in Descriptors : OtherOpens(d) \/ OtherCloses(d)
           \/ UNCHANGED vars
  BY <1>1, <1>4 DEF OtherOpens, OtherCloses, vars
<1> QED
  BY <1>2, <1>3, <1>4 DEF Next

-----------------------------------------------------------------------------
\* The descriptors and the flag, the link, the pings and the order of what is
\* relayed together are kept by every step of every thread and upstream.
THEOREM Invariance == Spec => [](ConnInv /\ NetInv /\ LinkInv /\ OrderInv)
  BY ConnInit, ConnStep, NetInit, NetStep, LinkInit, LinkStep, OrderInit,
     OrderStep, PTL DEF Spec

\* The places of both threads, the flag, the frames on the way and the log
\* keep their types; no number of unanswered pings goes below zero.
THEOREM TypeCorrect == Spec => []TypeOK
<1>1. ConnInv /\ NetInv => TypeOK
  BY DEF ConnInv, OwnerType, ConnRecord, NetInv, NetRecord, StreamFrame, TypeOK
<1> QED
  BY <1>1, Invariance, PTL

\* layer_replay_work: every path back to the sleep closes the descriptor, and
\* none closes another's, however many connectors share the table.
THEOREM DescriptorCorrect == Spec => []NoDescriptorLeak
  BY Invariance, PTL DEF ConnInv

\* join() before close(): the ping thread never sends on, or shuts down, a
\* descriptor that is not its connection's.
THEOREM PingCorrect == Spec => []PingOwnsDescriptor
<1>1. ConnInv => PingOwnsDescriptor
  <2> SUFFICES ASSUME ConnInv, NEW a \in Addresses, conn[a].ping \in Pinging
               PROVE  /\ conn[a].ping_fd \in Descriptors
                      /\ owner[conn[a].ping_fd] = a
                      /\ conn[a].ping_fd = conn[a].client_fd
    BY DEF PingOwnsDescriptor
  <2>1. PlaceOK(conn[a])
    BY DEF ConnInv
  <2>2. /\ conn[a].ping_fd = conn[a].client_fd
        /\ conn[a].pc \in Connected
    BY <2>1 DEF PlaceOK, Connected, Leaving
  <2>3. conn[a].client_fd \in Descriptors
    BY <2>1, <2>2 DEF PlaceOK
  <2> QED
    BY <2>2, <2>3 DEF ConnInv, NoDescriptorLeak
<1> QED
  BY <1>1, Invariance, PTL

\* socket_disconnected: a ping thread that has ended has left the flag set for
\* the reader.
THEOREM FlagCorrect == Spec => []EndedPingIsNoticed
<1>1. ConnInv => EndedPingIsNoticed
  BY DEF ConnInv, PlaceOK, EndedPingIsNoticed
<1> QED
  BY <1>1, Invariance, PTL

\* replay_message: over any number of reconnections, what is relayed from one
\* upstream stays in the order of its publication and nothing is repeated.
THEOREM OrderCorrect == Spec => []RelayInOrder
  BY Invariance, PTL DEF OrderInv

\* LAYER_MIN_READ_TIMEOUT_SECONDS: the reader never gives up an upstream that
\* answers its pings, whatever the bounds and the schedule.
THEOREM KeptCorrect == Spec => LiveUpstreamKept
<1> DEFINE Kept == \A a \in Addresses :
                      net[a].link = "live" /\ conn[a].pc = "recv" =>
                          conn'[a].pc # "leave"
<1>1. ConnInv /\ NetInv /\ LinkInv /\ [Next]_vars => [Kept]_vars
  <2> SUFFICES ASSUME ConnInv, NetInv, LinkInv, Next, NEW a \in Addresses,
                      net[a].link = "live", conn[a].pc = "recv"
               PROVE  conn'[a].pc # "leave"
    OBVIOUS
  <2>1. /\ conn \in [Addresses -> ConnRecord] /\ conn[a] \in ConnRecord
        /\ LinkOK(conn[a], net[a])
    BY DEF ConnInv, LinkInv
  <2>2. conn[a].idle \in Nat /\ conn[a].idle <= 1
    BY <2>1 DEF LinkOK, ConnRecord
  <2>3. ~ReadFails(a)
    BY <2>2 DEF ReadFails, ReadTimeout
  <2>4. CASE ConnectorStep(a)
    BY <2>1, <2>3, <2>4
    DEF ConnectorStep, Socket, Connect, ConnectFails, SendSubscribe,
        SendSubscribeFails, Subscribed, NotSubscribed, CheckFlag, ReadFrame,
        ReadBreaks, StoreDisconnected, Shutdown, Join, CloseAtEnd, Goto,
        ConnRecord
  <2>5. CASE PingStep(a) \/ Tick(a)
    BY <2>1, <2>5
    DEF PingStep, PingStops, PingDue, PingSent, PingFails, PingStores,
        PingShutsDown, PingGoto, Tick, ConnRecord
  <2>6. CASE UNCHANGED conn
    BY <2>6
  <2>7. ASSUME NEW b \in Addresses, b # a,
               \/ ConnectorStep(b) \/ PingStep(b) \/ Tick(b)
        PROVE  conn'[a].pc # "leave"
    BY <2>7, LinkLocal
  <2>8. ASSUME NEW b \in Addresses,
               \/ UpstreamStep(b) \/ FaultStep(b)
               \/ \E t \in Topics : UpstreamPublishes(b, t)
        PROVE  UNCHANGED conn
    BY <2>8
    DEF UpstreamStep, UpstreamInitializes, UpstreamAnswers, UpstreamSends,
        UpstreamRestarts, FaultStep, UpstreamRefuses, UpstreamCloses,
        UpstreamStops, LinkVanishes, UpstreamPublishes
  <2>9. ASSUME NEW d \in Descriptors, OtherOpens(d) \/ OtherCloses(d)
        PROVE  UNCHANGED conn
    BY <2>9 DEF OtherOpens, OtherCloses
  <2> QED
    BY <2>4, <2>5, <2>6, <2>7, <2>8, <2>9 DEF Next
<1> QED
  BY <1>1, Invariance, PTL DEF Spec, LiveUpstreamKept

\* The upstream's record is initialized before it answers and messages follow
\* the answer in order: as long as the link lives, every message published
\* since the answer was read is appended, on its way or still to be sent.
THEOREM RelayCorrect == Spec => []RelayComplete
<1>1. Init => RelayComplete
  BY DEF Init, InitConn, InitNet, RelayComplete, Reading
<1> QED
  BY <1>1, CompleteStep, Invariance, PTL DEF Spec
=============================================================================
