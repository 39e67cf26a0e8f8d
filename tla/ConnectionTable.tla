-------------------------- MODULE ConnectionTable --------------------------
(***************************************************************************)
(* AbstractBootstrap in the role of the publisher: the accepting thread,   *)
(* one handler thread per connection and the alive detection share the     *)
(* table client_connections_, under its lock, and the descriptors of the   *)
(* process, under no lock at all.  Connections are numbered in the order   *)
(* they are accepted.  A descriptor is a number that the kernel gives to   *)
(* the next connection as soon as anybody has closed it; a key is the      *)
(* address of a client, which may come back with the same one.             *)
(***************************************************************************)
EXTENDS Integers, FiniteSets

CONSTANTS
    Keys,               \* client_ip:client_port
    Fds,                \* descriptors
    MaxConnection,      \* max_connection_
    MaxAccepts,         \* bound: connections that are ever accepted
    Unset               \* the key and the descriptor of no connection

ASSUME TableAssumption ==
    /\ IsFiniteSet(Keys)
    /\ MaxConnection \in Nat \ {0}
    /\ MaxAccepts \in Nat
    /\ Unset \notin Keys \cup Fds

Conns == 1..MaxAccepts
Role == "publisher"

VARIABLES
    peer,               \* peer[n]: the other end: "connected" or "gone"
    key,                \* key[n]: the key of connection n
    client_fd,          \* client_fd[n]: the number accept() returned
    descriptors,        \* descriptors[f]: the connection f stands for, or 0
    accepting,          \* the connection accept() returned last, or 0
    client_connections, \* client_connections[k]: whose entry is there, or 0
    latestHeartbeat,    \* latestHeartbeat[k]: "fresh" or "old"
    handler,            \* handler[n]: where the thread of acceptHandle is
    source,             \* source[n]: the connection that its recv() reads
    robbed,             \* history: connections that lost their descriptor
                        \* to a close() meant for another
    full_roles,         \* the roles that have their connections full, in
                        \* bootstrap_connections_full_status_
    warned              \* history: what the watchdog last warned about

kernel == <<peer, descriptors, robbed>>
table == <<client_connections, latestHeartbeat>>
identity == <<key, client_fd>>
report == <<full_roles, warned>>
vars == <<kernel, identity, report, accepting, table, handler, source>>

Init ==
    /\ peer = [n \in Conns |-> "none"]
    /\ key = [n \in Conns |-> Unset]
    /\ client_fd = [n \in Conns |-> Unset]
    /\ descriptors = [f \in Fds |-> 0]
    /\ accepting = 0
    /\ client_connections = [k \in Keys |-> 0]
    /\ latestHeartbeat = [k \in Keys |-> "old"]
    /\ handler = [n \in Conns |-> "none"]
    /\ source = [n \in Conns |-> 0]
    /\ robbed = {}
    /\ full_roles = {}
    /\ warned = {}

-----------------------------------------------------------------------------
\* The kernel: close(client_fd) by whoever has the number of connection n
CloseFd(n) ==
    /\ descriptors' = [descriptors EXCEPT ![client_fd[n]] = 0]
    /\ robbed' = robbed \cup ({descriptors[client_fd[n]]} \ {0, n})

\* The client hangs up, or the network does it.
HangUp(n) ==
    /\ peer[n] = "connected"
    /\ peer' = [peer EXCEPT ![n] = "gone"]
    /\ UNCHANGED <<descriptors, robbed, identity, report, accepting, table,
                   handler, source>>

-----------------------------------------------------------------------------
\* The accepting thread.

\* accept() gives the new connection a free descriptor.  Two connections that
\* are up never have the same key.
Accept(n, k, f) ==
    /\ accepting = 0
    /\ peer[n] = "none"
    /\ \A m \in Conns : m < n => peer[m] # "none"
    /\ \A m \in Conns : key[m] = k => peer[m] = "gone"
    /\ descriptors[f] = 0
    /\ peer' = [peer EXCEPT ![n] = "connected"]
    /\ key' = [key EXCEPT ![n] = k]
    /\ client_fd' = [client_fd EXCEPT ![n] = f]
    /\ descriptors' = [descriptors EXCEPT ![f] = n]
    /\ accepting' = n
    /\ UNCHANGED <<robbed, report, table, handler, source>>

Entries == {k \in Keys : client_connections[k] # 0}

\* Mutant: a connection that is refused is not closed.
RefuseOpen(n) ==
    /\ n = accepting
    /\ accepting' = 0
    /\ UNCHANGED <<kernel, identity, report, table, handler, source>>

\* The table is full, or a socket option cannot be set.
Refuse(n) ==
    /\ n = accepting
    /\ accepting' = 0
    /\ CloseFd(n)
    /\ UNCHANGED <<peer, identity, report, table, handler, source>>

\* Mutant: off by one.
HasRoomOffByOne == Cardinality(Entries) <= MaxConnection

HasRoom == Cardinality(Entries) < MaxConnection

\* The entry replaces one that has the same key; the handler starts.
Register(n) ==
    /\ n = accepting
    /\ HasRoom
    /\ accepting' = 0
    /\ client_connections' = [client_connections EXCEPT ![key[n]] = n]
    /\ latestHeartbeat' = [latestHeartbeat EXCEPT ![key[n]] = "fresh"]
    /\ handler' = [handler EXCEPT ![n] = "reading"]
    /\ UNCHANGED <<kernel, identity, report, source>>

-----------------------------------------------------------------------------
\* The handler of connection n.

Goto(n, next) == handler' = [handler EXCEPT ![n] = next]

\* recv() looks its descriptor up when it is called, and keeps what it found;
\* it fails if there is nothing.
StartReceiving(n) ==
    /\ handler[n] = "reading"
    /\ source' = [source EXCEPT ![n] = descriptors[client_fd[n]]]
    /\ Goto(n, IF descriptors[client_fd[n]] = 0 THEN "closing" ELSE "receiving")
    /\ UNCHANGED <<kernel, identity, report, accepting, table>>

\* A ping, and the pong could be sent
ReceivePing(n) ==
    /\ handler[n] = "receiving"
    /\ Goto(n, "refreshing")
    /\ UNCHANGED <<kernel, identity, report, accepting, table, source>>

\* A ping whose pong could not be sent, or a message: what becomes of it is in
\* the modules MessageCircle and DispatchLoop.
ReceiveOther(n) ==
    /\ handler[n] = "receiving"
    /\ Goto(n, "reading")
    /\ UNCHANGED <<kernel, identity, report, accepting, table, source>>

\* The end of the stream, an error, or a message that is too large
ReceiveFails(n) ==
    /\ handler[n] = "receiving"
    /\ Goto(n, "closing")
    /\ UNCHANGED <<kernel, identity, report, accepting, table, source>>

\* refreshKeepAlive and killAlive go by the key alone.
SetHeartbeat(n, heartbeat) ==
    latestHeartbeat' = [latestHeartbeat EXCEPT ![key[n]] =
                           IF client_connections[key[n]] = 0 THEN @
                                                             ELSE heartbeat]

RefreshKeepAlive(n) ==
    /\ handler[n] = "refreshing"
    /\ SetHeartbeat(n, "fresh")
    /\ Goto(n, "reading")
    /\ UNCHANGED <<kernel, identity, report, accepting, client_connections,
                   source>>

Close(n) ==
    /\ handler[n] = "closing"
    /\ CloseFd(n)
    /\ Goto(n, "killing")
    /\ UNCHANGED <<peer, identity, report, accepting, table, source>>

\* Mutant: the handler returns without killAlive.
EndSilently(n) ==
    /\ handler[n] = "killing"
    /\ Goto(n, "ended")
    /\ UNCHANGED <<kernel, identity, report, accepting, table, source>>

KillAlive(n) ==
    /\ handler[n] = "killing"
    /\ SetHeartbeat(n, "old")
    /\ Goto(n, "ended")
    /\ UNCHANGED <<kernel, identity, report, accepting, client_connections,
                   source>>

-----------------------------------------------------------------------------
\* The alive detection.

\* max_connection_idle_second pass without a ping.
Idle(k) ==
    /\ client_connections[k] # 0
    /\ latestHeartbeat[k] = "fresh"
    /\ latestHeartbeat' = [latestHeartbeat EXCEPT ![k] = "old"]
    /\ UNCHANGED <<kernel, identity, report, accepting, client_connections,
                   handler, source>>

\* Mutant: the entry is left in the table.
ExpireKeep(k) ==
    /\ client_connections[k] # 0
    /\ latestHeartbeat[k] = "old"
    /\ CloseFd(client_connections[k])
    /\ UNCHANGED <<peer, identity, report, accepting, table, handler, source>>

\* close(v.clientFd) and erase, for one of the idle_expired_keys
Expire(k) ==
    /\ client_connections[k] # 0
    /\ latestHeartbeat[k] = "old"
    /\ CloseFd(client_connections[k])
    /\ client_connections' = [client_connections EXCEPT ![k] = 0]
    /\ UNCHANGED <<peer, identity, report, accepting, latestHeartbeat, handler,
                   source>>

TableFull == Cardinality(Entries) >= MaxConnection

\* Mutant: the status is set, and never taken back.
UpdateConnectionsFullOnce ==
    /\ full_roles' = full_roles \cup IF TableFull THEN {Role} ELSE {}
    /\ UNCHANGED <<kernel, identity, warned, accepting, table, handler,
                   source>>

\* update_connections_full, at the end of each pass
UpdateConnectionsFull ==
    /\ full_roles' = IF TableFull THEN {Role} ELSE {}
    /\ UNCHANGED <<kernel, identity, warned, accepting, table, handler,
                   source>>

\* The watchdog asks for get_connections_full_roles and warns about the role.
WatchRoles ==
    /\ warned' = full_roles
    /\ UNCHANGED <<kernel, identity, full_roles, accepting, table,
                   handler, source>>

-----------------------------------------------------------------------------
Handler(n) ==
    \/ StartReceiving(n) \/ ReceivePing(n) \/ ReceiveOther(n)
    \/ ReceiveFails(n) \/ RefreshKeepAlive(n) \/ Close(n) \/ KillAlive(n)

Next ==
    \/ \E n \in Conns, k \in Keys, f \in Fds : Accept(n, k, f)
    \/ \E n \in Conns : Refuse(n) \/ Register(n) \/ Handler(n) \/ HangUp(n)
    \/ \E k \in Keys : Idle(k) \/ Expire(k)
    \/ UpdateConnectionsFull \/ WatchRoles

\* A handler that is not waiting for its client goes on; one that is waiting
\* for a client that has hung up finds the end of the stream.  The alive
\* detection runs once a second and finds what is old, unless it is refreshed;
\* the watchdog runs every two minutes.
Fairness ==
    /\ \A n \in Conns :
          /\ WF_vars(Handler(n) /\ handler[n] # "receiving")
          /\ WF_vars(ReceiveFails(n) /\ peer[source[n]] = "gone")
    /\ \A k \in Keys : WF_vars(Expire(k))
    /\ WF_vars(UpdateConnectionsFull) /\ WF_vars(WatchRoles)

Spec == Init /\ [][Next]_vars
FairSpec == Spec /\ Fairness

-----------------------------------------------------------------------------
\* Types of the variables
TypeOK ==
    /\ peer \in [Conns -> {"none", "connected", "gone"}]
    /\ key \in [Conns -> Keys \cup {Unset}]
    /\ client_fd \in [Conns -> Fds \cup {Unset}]
    /\ descriptors \in [Fds -> {0} \cup Conns]
    /\ accepting \in {0} \cup Conns
    /\ client_connections \in [Keys -> {0} \cup Conns]
    /\ latestHeartbeat \in [Keys -> {"fresh", "old"}]
    /\ handler \in [Conns -> {"none", "reading", "receiving", "refreshing",
                              "closing", "killing", "ended"}]
    /\ source \in [Conns -> {0} \cup Conns]
    /\ robbed \subseteq Conns
    /\ full_roles \subseteq {Role}
    /\ warned \subseteq {Role}

\* startAccept: the table never has more entries than max_connection_, also
\* when clients come back with a key that is still in it.
TableWithinLimit == Cardinality(Entries) <= MaxConnection

\* startAccept, acceptHandle: an open descriptor is in the hands of the
\* accepting thread, or of the handler of its connection which will close it.
NoDescriptorLeak ==
    \A f \in Fds : descriptors[f] # 0 =>
        LET n == descriptors[f] IN
        /\ client_fd[n] = f
        /\ \/ accepting = n
           \/ handler[n] \in {"reading", "receiving", "refreshing", "closing"}

\* killAlive after the last refreshKeepAlive: an entry with a fresh heartbeat
\* has a handler with its key that runs and will kill it, even if handlers of
\* an earlier connection with the key refresh or kill it in between.
FreshHasHandler ==
    \A k \in Keys : client_connections[k] # 0 /\ latestHeartbeat[k] = "fresh" =>
        \E n \in Conns : key[n] = k /\ handler[n] \notin {"none", "ended"}

\* killAlive and startAliveDetection: the place of a client all of whose
\* handlers have ended is freed, or taken by a new connection of that client.
PlaceIsFreed ==
    \A k \in Keys :
        (/\ client_connections[k] # 0
         /\ \A n \in Conns : key[n] = k => handler[n] \in {"none", "ended"})
            ~> (\/ client_connections[k] = 0
                \/ \E n \in Conns : key[n] = k /\ handler[n] = "reading")

\* update_connections_full and get_connections_full_roles: the warnings follow
\* the table, through a status that is only brought up to date once a second:
\* they come if the table stays full, and stop if it stays below the limit.
WarningsFollowTable ==
    /\ <>[]TableFull => <>[](warned = {Role})
    /\ <>[](~TableFull) => <>[](warned = {})

-----------------------------------------------------------------------------
\* "{} close and remove connection {}": a connection that is closed is the one
\* that expired or whose handler ended, and not the one that was accepted
\* since and given the same descriptor.
OnlyOwnDescriptorClosed == robbed = {}
=============================================================================
