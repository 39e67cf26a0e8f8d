------------------------------ MODULE TopicLog ------------------------------
(***************************************************************************)
(* What a topic promises its subscribers, without rings, slots or threads: *)
(* a log that only grows, and for each subscriber a position that only     *)
(* moves forward.  A subscriber receives messages of the log in order,     *)
(* each at most once and with the body that was published; an empty body   *)
(* is passed over.  In sequential mode it may miss messages only when it   *)
(* fell more than Size behind; in "always latest" mode it may miss any.    *)
(***************************************************************************)
EXTENDS Integers, Sequences

CONSTANTS Bodies, Consumers, Size, SendLatest, EmptyBody, Detached

VARIABLES log,        \* every body ever published on the topic
          position,   \* position[c]: next sequence owed to c, or Detached
          received    \* received[c]: the messages c received

logVars == <<log, position, received>>

Message == [sequence: Nat, body: Bodies]

LogInit ==
    /\ log = <<>>
    /\ position = [c \in Consumers |-> Detached]
    /\ received = [c \in Consumers |-> <<>>]

Publish(body) ==
    /\ log' = Append(log, body)
    /\ UNCHANGED <<position, received>>

\* A subscriber joins at a point of the log past all it has received.
Join(c, at) ==
    /\ position[c] = Detached
    /\ \A i \in 1..Len(received[c]) : received[c][i].sequence < at
    /\ position' = [position EXCEPT ![c] = at]
    /\ UNCHANGED <<log, received>>

\* It may be given the message at s next.
Owed(c, s) ==
    /\ position[c] # Detached
    /\ s >= position[c]
    /\ SendLatest \/ s = position[c] \/ position[c] + Size < Len(log)

\* It receives the message at s and is next owed the one after it.
Receive(c, s) ==
    /\ Owed(c, s)
    /\ log[s + 1] # EmptyBody
    /\ received' = [received EXCEPT
          ![c] = Append(@, [sequence |-> s, body |-> log[s + 1]])]
    /\ position' = [position EXCEPT ![c] = s + 1]
    /\ UNCHANGED log

\* It moves past an empty message.
PassEmpty(c, s) ==
    /\ Owed(c, s)
    /\ log[s + 1] = EmptyBody
    /\ position' = [position EXCEPT ![c] = s + 1]
    /\ UNCHANGED <<log, received>>

Leave(c) ==
    /\ position[c] # Detached
    /\ position' = [position EXCEPT ![c] = Detached]
    /\ UNCHANGED <<log, received>>

LogNext ==
    \/ \E body \in Bodies : Publish(body)
    \/ \E c \in Consumers :
          \/ \E at \in 0..Len(log) : Join(c, at)
          \/ \E s \in 0..Len(log) - 1 : Receive(c, s) \/ PassEmpty(c, s)
          \/ Leave(c)

LogSpec == LogInit /\ [][LogNext]_logVars
=============================================================================
