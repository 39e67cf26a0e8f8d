------------------------ MODULE ConnectionTableProofs ------------------------
(***************************************************************************)
(* The invariants of ConnectionTable for any number of clients,            *)
(* descriptors and connections.  What makes them inductive is ConnInv: a   *)
(* connection that is in the hands of the accepting thread, has a handler  *)
(* or has an entry was accepted and knows its key and its descriptor.      *)
(***************************************************************************)
EXTENDS ConnectionTable, FiniteSetTheorems, TLAPS

Running == {"reading", "receiving", "refreshing", "closing"}

ConnInv ==
    /\ \A n \in Conns : handler[n] # "none" \/ accepting = n =>
          peer[n] # "none" /\ key[n] \in Keys /\ client_fd[n] \in Fds
    /\ accepting # 0 => handler[accepting] = "none"
    /\ \A k \in Keys : client_connections[k] # 0 =>
          handler[client_connections[k]] # "none"

IInv ==
    /\ TypeOK
    /\ ConnInv
    /\ NoDescriptorLeak
    /\ FreshHasHandler

\* Connections are numbered from 1, so 0 is none of them.
LEMMA ZeroIsNoConn == 0 \notin Conns
BY TableAssumption DEF Conns

\* What the constructor and an empty table establish.
LEMMA InitIInv == Init => IInv
BY ZeroIsNoConn, TableAssumption
   DEF Init, IInv, TypeOK, ConnInv, NoDescriptorLeak, FreshHasHandler

\* Each step of each thread keeps the inductive invariant.
LEMMA NextIInv == IInv /\ [Next]_vars => IInv'
<1> SUFFICES ASSUME IInv, [Next]_vars PROVE IInv'
  OBVIOUS
<1> USE ZeroIsNoConn, TableAssumption
    DEF IInv, TypeOK, ConnInv, NoDescriptorLeak, FreshHasHandler, Goto, table,
        identity, kernel, report
<1>1. ASSUME NEW n \in Conns, HangUp(n) PROVE IInv'
  BY <1>1 DEF HangUp
<1>2. ASSUME NEW n \in Conns, NEW k \in Keys, NEW f \in Fds, Accept(n, k, f)
      PROVE IInv'
  <2>1. handler[n] = "none" /\ accepting = 0
    BY <1>2 DEF Accept
  <2>2. \A g \in Fds : descriptors[g] # n
    BY <2>1
  <2>3. TypeOK' /\ ConnInv'
    BY <1>2, <2>1 DEF Accept
  <2>4. NoDescriptorLeak'
    BY <1>2, <2>1, <2>2 DEF Accept
  <2>5. FreshHasHandler'
    BY <1>2, <2>1 DEF Accept
  <2> QED BY <2>3, <2>4, <2>5
<1>3. ASSUME NEW n \in Conns, Refuse(n) PROVE IInv'
  <2>1. handler[n] = "none" /\ accepting = n /\ accepting' = 0
    BY <1>3 DEF Refuse
  <2>2. \A f \in Fds : descriptors'[f] # 0 =>
            descriptors'[f] = descriptors[f] /\ descriptors[f] # n
    BY <1>3 DEF Refuse, CloseFd
  <2>3. TypeOK' /\ ConnInv' /\ FreshHasHandler'
    BY <1>3, <2>1 DEF Refuse, CloseFd
  <2>4. NoDescriptorLeak'
    BY <1>3, <2>1, <2>2 DEF Refuse
  <2> QED BY <2>3, <2>4
<1>4. ASSUME NEW n \in Conns, Register(n) PROVE IInv'
  <2>1. TypeOK' /\ ConnInv'
    BY <1>4 DEF Register
  <2>2. NoDescriptorLeak'
    BY <1>4 DEF Register
  <2>3. FreshHasHandler'
    BY <1>4 DEF Register
  <2> QED BY <2>1, <2>2, <2>3
<1>5. ASSUME NEW n \in Conns, Handler(n) PROVE IInv'
  <2>1. CASE StartReceiving(n)
    BY <2>1 DEF StartReceiving
  <2>2. CASE ReceivePing(n) \/ ReceiveOther(n) \/ ReceiveFails(n)
    BY <2>2 DEF ReceivePing, ReceiveOther, ReceiveFails
  <2>3. CASE RefreshKeepAlive(n)
    BY <2>3 DEF RefreshKeepAlive, SetHeartbeat
  <2>4. CASE Close(n)
    BY <2>4 DEF Close, CloseFd
  <2>5. CASE KillAlive(n)
    BY <2>5 DEF KillAlive, SetHeartbeat
  <2> QED BY <1>5, <2>1, <2>2, <2>3, <2>4, <2>5 DEF Handler
<1>6. ASSUME NEW k \in Keys, Idle(k) PROVE IInv'
  BY <1>6 DEF Idle
<1>7. ASSUME NEW k \in Keys, Expire(k) PROVE IInv'
  BY <1>7 DEF Expire, CloseFd
<1>8. CASE UpdateConnectionsFull
  BY <1>8 DEF UpdateConnectionsFull, TableFull
<1>9. CASE WatchRoles
  BY <1>9 DEF WatchRoles
<1>10. CASE UNCHANGED vars
  BY <1>10 DEF vars
<1> QED
  BY <1>1, <1>2, <1>3, <1>4, <1>5, <1>6, <1>7, <1>8, <1>9, <1>10 DEF Next

\* startAccept, acceptHandle and startAliveDetection keep the inductive
\* invariant for every number of clients, descriptors and connections.
THEOREM Invariance == Spec => []IInv
BY InitIInv, NextIInv, PTL DEF Spec

\* The variables of the table, the handlers and the kernel keep their types.
THEOREM TypeCorrect == Spec => []TypeOK
BY Invariance, PTL DEF IInv

\* No descriptor is open that no thread is going to close.
THEOREM DescriptorCorrect == Spec => []NoDescriptorLeak
BY Invariance, PTL DEF IInv

\* An entry with a fresh heartbeat has a handler that will kill it.
THEOREM HeartbeatCorrect == Spec => []FreshHasHandler
BY Invariance, PTL DEF IInv

-----------------------------------------------------------------------------
\* A step that adds at most one key, and only if there is room, keeps the
\* limit.
LEMMA NextLimit ==
    IInv /\ TableWithinLimit /\ [Next]_vars => TableWithinLimit'
<1> SUFFICES ASSUME IInv, TableWithinLimit, [Next]_vars PROVE TableWithinLimit'
  OBVIOUS
<1>1. IsFiniteSet(Entries) /\ Cardinality(Entries) \in Nat
  BY TableAssumption, FS_Subset, FS_CardinalityType, Entries \subseteq Keys
     DEF Entries
<1>2. ASSUME Entries' \subseteq Entries PROVE TableWithinLimit'
  <2>1. Cardinality(Entries') <= Cardinality(Entries)
    BY <1>1, <1>2, FS_Subset
  <2>2. Cardinality(Entries') \in Nat
    BY <1>1, <1>2, FS_Subset, FS_CardinalityType
  <2> QED
    BY <1>1, <2>1, <2>2, TableAssumption DEF TableWithinLimit
<1>3. ASSUME NEW n \in Conns, Register(n) PROVE TableWithinLimit'
  <2>1. Entries' \subseteq Entries \cup {key[n]}
    BY <1>3 DEF Register, Entries, IInv, TypeOK
  <2>2. /\ IsFiniteSet(Entries \cup {key[n]})
        /\ Cardinality(Entries \cup {key[n]}) <= Cardinality(Entries) + 1
        /\ Cardinality(Entries \cup {key[n]}) \in Nat
    <3>1. /\ IsFiniteSet(Entries \cup {key[n]})
          /\ \/ Cardinality(Entries \cup {key[n]}) = Cardinality(Entries)
             \/ Cardinality(Entries \cup {key[n]}) = Cardinality(Entries) + 1
      BY <1>1, FS_AddElement, Zenon
    <3> QED BY <1>1, <3>1
  <2>3. /\ Cardinality(Entries') <= Cardinality(Entries \cup {key[n]})
        /\ Cardinality(Entries') \in Nat
    BY <2>1, <2>2, FS_Subset, FS_CardinalityType
  <2>4. Cardinality(Entries) < MaxConnection
    BY <1>3 DEF Register, HasRoom
  <2> QED
    BY <1>1, <2>2, <2>3, <2>4, TableAssumption DEF TableWithinLimit
<1>4. ASSUME NEW k \in Keys, Expire(k) PROVE TableWithinLimit'
  BY <1>2, <1>4 DEF Expire, Entries, IInv, TypeOK
<1>5. CASE UNCHANGED client_connections
  BY <1>2, <1>5 DEF Entries
<1> QED
  BY <1>3, <1>4, <1>5
     DEF Next, vars, HangUp, Accept, Refuse, Handler, StartReceiving,
         ReceivePing, ReceiveOther, ReceiveFails, RefreshKeepAlive, Close,
         KillAlive, Idle, UpdateConnectionsFull, WatchRoles, table

\* max_connection_ is never exceeded, however many clients connect at a time
\* or come back with a key that is still in the table.
THEOREM LimitCorrect == Spec => []TableWithinLimit
<1>1. Init => TableWithinLimit
  <2> SUFFICES ASSUME Init PROVE TableWithinLimit
    OBVIOUS
  <2>1. Entries = {}
    BY DEF Init, Entries
  <2> QED
    BY <2>1, FS_EmptySet, TableAssumption DEF TableWithinLimit
<1> QED
  BY <1>1, NextLimit, Invariance, PTL DEF Spec
=============================================================================
