----------------------------- MODULE CircleRead -----------------------------
(***************************************************************************)
(* The sequence arithmetic of MessageCircle: which messages a ring of Size *)
(* slots still retains, which one a consumer is given next, and where its  *)
(* cursor goes.  It is shared by the module of the ring itself and by the  *)
(* modules of the subscriber threads, which need the sequences and not the *)
(* slots.                                                                  *)
(***************************************************************************)
EXTENDS Integers

CONSTANT Size            \* max_topic_circle_size: the slots of a ring

\* The constructor throws on a size that is not positive.
ASSUME SizeAssumption == Size \in Nat \ {0}

\* enum class SubscriberOverrunPolicy
OverrunPolicies == {"Latest", "Oldest", "Disconnect"}

-----------------------------------------------------------------------------
\* Mutant: the window is taken to be one message longer than the ring.
OldestOffByOne(next) == IF next > Size THEN next - Size - 1 ELSE 0

\* oldest_available_sequence of a ring whose producer is at next
Oldest(next) == IF next > Size THEN next - Size ELSE 0

Overrun(next, consumer) == consumer < Oldest(next)

\* target_sequence: the message a consumer that is behind next is given
Target(next, consumer, send_latest, policy) ==
    IF send_latest \/ (Overrun(next, consumer) /\ policy = "Latest")
    THEN next - 1
    ELSE IF Overrun(next, consumer) THEN Oldest(next) ELSE consumer

\* Mutant: aligning with the producer goes one message too far.
NextSequencePastProducer(next, consumer, send_latest, policy) ==
    IF send_latest \/ (Overrun(next, consumer) /\ policy = "Latest")
    THEN next + 1
    ELSE Target(next, consumer, send_latest, policy) + 1

\* next_sequence of the result: "latest" aligns the cursor with the producer
NextSequence(next, consumer, send_latest, policy) ==
    IF send_latest \/ (Overrun(next, consumer) /\ policy = "Latest")
    THEN next
    ELSE Target(next, consumer, send_latest, policy) + 1

\* The early return of the disconnect policy
MustDisconnect(next, consumer, send_latest, policy) ==
    ~send_latest /\ Overrun(next, consumer) /\ policy = "Disconnect"
=============================================================================
