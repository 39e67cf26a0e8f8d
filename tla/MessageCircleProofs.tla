------------------------- MODULE MessageCircleProofs -------------------------
(***************************************************************************)
(* Proofs, for every ring size, every set of consumers and bodies, every   *)
(* policy and both modes, of what the runs of MessageCircle check on small *)
(* instances.  The argument: two sequences less than Size apart that share *)
(* a slot are equal (ModInjective), so an append overwrites only the       *)
(* sequence that leaves the window (RingStep); hence a read always finds   *)
(* its target (WindowRead), and what it hands over stays valid while other *)
(* threads append, because only the consumer's own thread moves its cursor *)
(* (the conjuncts of IInv).                                                *)
(***************************************************************************)
EXTENDS MessageCircle, TLAPS

-----------------------------------------------------------------------------
\* Division with remainder by the ring size.
LEMMA DivMod ==
  ASSUME NEW s \in Nat
  PROVE  /\ s = Size * (s \div Size) + (s % Size)
         /\ s \div Size \in Int
         /\ s % Size \in Slots
  BY SizeAssumption DEF Slots

\* A multiple of the ring size is zero or at least Size away from it.
LEMMA Multiple ==
  ASSUME NEW k \in Int, k # 0, NEW d \in Int, d = Size * k
  PROVE  d >= Size \/ d <= -Size
  BY SizeAssumption

\* Sequences less than Size apart occupy different slots.
LEMMA ModInjective ==
  ASSUME NEW s \in Nat, NEW t \in Nat, s - t < Size, t - s < Size,
         s % Size = t % Size
  PROVE  s = t
<1> DEFINE p == s \div Size
           q == t \div Size
<1>1. s - t = Size * p - Size * q
  BY DivMod, SizeAssumption
<1>2. p \in Int /\ q \in Int
  BY DivMod
<1>3. Size * p - Size * q = Size * (p - q)
  BY <1>2, SizeAssumption
<1>4. CASE p = q
  BY <1>4, <1>1, <1>2, SizeAssumption
<1>5. CASE p # q
  <2>1. p - q \in Int /\ p - q # 0
    BY <1>2, <1>5
  <2>2. s - t \in Int /\ s - t = Size * (p - q)
    BY <1>1, <1>3
  <2>3. s - t >= Size \/ s - t <= -Size
    BY <2>1, <2>2, Multiple
  <2> QED
    BY <2>3, SizeAssumption
<1> QED
  BY <1>4, <1>5

\* What read computes for a consumer that is behind the producer.
LEMMA TargetBounds ==
  ASSUME NEW next \in Nat, NEW at \in Nat, at < next,
         NEW latest \in BOOLEAN, NEW policy
  PROVE  /\ Target(next, at, latest, policy) \in at..next - 1
         /\ Target(next, at, latest, policy) \in Oldest(next)..next - 1
         /\ NextSequence(next, at, latest, policy)
              = Target(next, at, latest, policy) + 1
         /\ \/ latest
            \/ Target(next, at, latest, policy) = at
            \/ at + Size < next
<1>1. Oldest(next) \in 0..next - 1 /\ (at < Oldest(next) => at + Size < next)
  BY SizeAssumption DEF Oldest
<1>2. CASE latest \/ (Overrun(next, at) /\ policy = "Latest")
  BY <1>1, <1>2 DEF Target, NextSequence, Overrun
<1>3. CASE ~(latest \/ (Overrun(next, at) /\ policy = "Latest"))
  BY <1>1, <1>3 DEF Target, NextSequence, Overrun
<1> QED
  BY <1>2, <1>3

-----------------------------------------------------------------------------
\* A read that returns a message returns one stored in a slot.
LEMMA SlotType ==
  ASSUME TypeOK, NEW s \in Nat, SlotHolds(s)
  PROVE  SlotOf(s) \in Message /\ SlotOf(s).sequence = s
<1>1. s % Size \in Slots
  BY DivMod
<1> QED
  BY <1>1 DEF TypeOK, SlotHolds, SlotOf

\* A read of status Message: the consumer is behind, and the slot is checked.
LEMMA ReadFacts ==
  ASSUME TypeOK, NEW c \in Consumers, Reads(c, "Message")
  PROVE  /\ cursor[c] \in Nat /\ next_sequence \in Nat
         /\ cursor[c] < next_sequence
         /\ ReadTarget(c) \in cursor[c]..next_sequence - 1
         /\ ReadTarget(c) \in Oldest(next_sequence)..next_sequence - 1
         /\ ReadTarget(c) \in Nat
         /\ ReadNext(c) = ReadTarget(c) + 1
         /\ \/ SendLatest
            \/ ReadTarget(c) = cursor[c]
            \/ cursor[c] + Size < next_sequence
         /\ SlotOf(ReadTarget(c)) \in Message
         /\ SlotOf(ReadTarget(c)).sequence = ReadTarget(c)
<1>1. cursor[c] \in Nat /\ next_sequence \in Nat
  BY CircleAssumption DEF TypeOK
<1>2. ~(cursor[c] >= next_sequence) /\ SlotHolds(ReadTarget(c))
  BY DEF Reads, ReadStatus, ReadTarget
<1>3. cursor[c] < next_sequence
  BY <1>1, <1>2
<1>4. SendLatest \in BOOLEAN
  BY CircleAssumption
<1>5. /\ ReadTarget(c) \in cursor[c]..next_sequence - 1
      /\ ReadTarget(c) \in Oldest(next_sequence)..next_sequence - 1
      /\ ReadNext(c) = ReadTarget(c) + 1
      /\ \/ SendLatest
         \/ ReadTarget(c) = cursor[c]
         \/ cursor[c] + Size < next_sequence
  BY <1>1, <1>3, <1>4, TargetBounds DEF ReadTarget, ReadNext
<1>6. ReadTarget(c) \in Nat
  BY <1>1, <1>5
<1> QED
  BY <1>1, <1>2, <1>3, <1>5, <1>6, SlotType

-----------------------------------------------------------------------------
\* Accounting adds to each column of a ledger.
LEMMA AccountType ==
  ASSUME NEW l \in Ledger, NEW sent \in Nat, NEW empty \in Nat,
         NEW skipped \in Nat
  PROVE  /\ Account(l, sent, empty, skipped) \in Ledger
         /\ Account(l, sent, empty, skipped).joined = l.joined
         /\ Account(l, sent, empty, skipped).sent = l.sent + sent
         /\ Account(l, sent, empty, skipped).empty = l.empty + empty
         /\ Account(l, sent, empty, skipped).skipped = l.skipped + skipped
  BY DEF Account, Ledger

\* Every variable keeps its type; in particular the sequence counter never
\* passes MaxSequence, and no subtraction of the read goes below zero.
LEMMA TypeStep == TypeOK /\ [Next]_vars => TypeOK'
<1> SUFFICES ASSUME TypeOK, [Next]_vars PROVE TypeOK'
  OBVIOUS
<1> USE CircleAssumption, SizeAssumption
<1>1. ASSUME NEW body \in Bodies, Append1(body) PROVE TypeOK'
  <2>1. next_sequence \in Nat /\ next_sequence % Size \in Slots
    <3>1. next_sequence \in Nat
      BY DEF TypeOK
    <3> QED
      BY <3>1, DivMod
  <2>2. [sequence |-> next_sequence, body |-> body] \in Message
    BY DEF TypeOK, Message
  <2>3. circle' \in [Slots -> Message \cup {NoMessage}]
    BY <1>1, <2>1, <2>2 DEF TypeOK, Append1, Store
  <2>4. next_sequence' \in 0..MaxSequence /\ published' \in Seq(Bodies)
    BY <1>1 DEF TypeOK, Append1
  <2> QED
    BY <1>1, <2>3, <2>4 DEF TypeOK, Append1, consumer
<1>2. CASE AppendExhausted
  BY <1>2 DEF TypeOK, AppendExhausted, ring, consumer
<1>3. ASSUME NEW c \in Consumers, CreateNewRecord(c) PROVE TypeOK'
  BY <1>3 DEF TypeOK, CreateNewRecord, ring, Phases
<1>4. ASSUME NEW c \in Consumers, Initialize(c) PROVE TypeOK'
  BY <1>4 DEF TypeOK, Initialize, ring, Phases, Ledger, NewLedger
<1>5. ASSUME NEW c \in Consumers, RemoveRecord(c) PROVE TypeOK'
  BY <1>5 DEF TypeOK, RemoveRecord, ring, Phases
<1>6. ASSUME NEW c \in Consumers, ReadMessage(c) PROVE TypeOK'
  <2>1. Reads(c, "Message")
    BY <1>6 DEF ReadMessage
  <2>2. [message |-> SlotOf(ReadTarget(c)), next_sequence |-> ReadNext(c),
         skipped |-> ReadTarget(c) - cursor[c]] \in Frame
    BY <2>1, ReadFacts DEF Frame
  <2>3. pending' \in [Consumers -> Frame \cup {NoMessage}]
    BY <1>6, <2>2 DEF TypeOK, ReadMessage
  <2> QED
    BY <1>6, <2>3 DEF TypeOK, ReadMessage, ring
<1>7. ASSUME NEW c \in Consumers, ReadEmpty(c) PROVE TypeOK'
  <2>1. Reads(c, "Message")
    BY <1>7 DEF ReadEmpty
  <2>2. ReadNext(c) \in Nat /\ ReadTarget(c) - cursor[c] \in Nat
    BY <2>1, ReadFacts
  <2>3. cursor' \in [Consumers -> Nat]
    BY <1>7, <2>2 DEF TypeOK, ReadEmpty
  <2>4. ledger' \in [Consumers -> Ledger]
    BY <1>7, <2>2, AccountType DEF TypeOK, ReadEmpty
  <2> QED
    BY <1>7, <2>3, <2>4 DEF TypeOK, ReadEmpty, ring
<1>8. ASSUME NEW c \in Consumers, ReadDisconnect(c) PROVE TypeOK'
  BY <1>8 DEF TypeOK, ReadDisconnect, ring, Phases
<1>9. ASSUME NEW c \in Consumers, UpdateSequence(c) PROVE TypeOK'
  <2>1. pending[c] \in Frame
    BY <1>9 DEF TypeOK, UpdateSequence
  <2>2. /\ pending[c].message \in Message
        /\ pending[c].next_sequence \in Nat
        /\ pending[c].skipped \in Nat
    BY <2>1 DEF Frame
  <2>3. cursor' \in [Consumers -> Nat]
    BY <1>9, <2>2 DEF TypeOK, UpdateSequence, Advance
  <2>4. received' \in [Consumers -> Seq(Message)]
    BY <1>9, <2>2 DEF TypeOK, UpdateSequence
  <2>5. ledger' \in [Consumers -> Ledger]
    BY <1>9, <2>2, AccountType DEF TypeOK, UpdateSequence
  <2> QED
    BY <1>9, <2>3, <2>4, <2>5 DEF TypeOK, UpdateSequence, ring
<1>10. CASE UNCHANGED vars
  BY <1>10 DEF TypeOK, vars
<1> QED
  BY <1>1, <1>2, <1>3, <1>4, <1>5, <1>6, <1>7, <1>8, <1>9, <1>10 DEF Next

\* The initial values have their types.
LEMMA TypeInit == Init => TypeOK
<1> SUFFICES ASSUME Init PROVE TypeOK
  OBVIOUS
<1>1. ledger \in [Consumers -> Ledger]
  BY DEF Init, Ledger, NewLedger
<1>2. received \in [Consumers -> Seq(Message)] /\ published \in Seq(Bodies)
  BY DEF Init
<1>3. next_sequence \in 0..MaxSequence
  BY CircleAssumption DEF Init
<1> QED
  BY <1>1, <1>2, <1>3 DEF Init, TypeOK, Phases

\* MessageCircle and ConsumeRecord keep their types, whatever interleaving of
\* appends, subscribes, reads and acknowledged frames occurs.
THEOREM TypeCorrect == Spec => []TypeOK
  BY TypeInit, TypeStep, PTL DEF Spec

-----------------------------------------------------------------------------
\* The inductive invariant: what each consumer's state means (the three
\* middle conjuncts) rests on what the ring holds.
IInv ==
    /\ TypeOK
    /\ RingHoldsWindow
    /\ PendingFrameValid
    /\ CursorBehindProducer
    /\ ReceivedBehindCursor
    /\ EverySequenceAccounted

\* A step that leaves the ring alone leaves its window alone.
LEMMA RingUnchanged ==
  ASSUME RingHoldsWindow, UNCHANGED ring
  PROVE  RingHoldsWindow'
  BY DEF RingHoldsWindow, ring, Oldest

\* An append overwrites the sequence that leaves the window, and no other.
LEMMA RingAppend ==
  ASSUME TypeOK, RingHoldsWindow, NEW body \in Bodies, Append1(body)
  PROVE  RingHoldsWindow'
<1> DEFINE n == next_sequence
           new == [sequence |-> n, body |-> body]
<1>1. n \in Nat /\ n % Size \in Slots
  <2>1. n \in Nat
    BY CircleAssumption DEF TypeOK
  <2> QED
    BY <2>1, DivMod
<1>2. /\ next_sequence' = n + 1
      /\ circle' = [circle EXCEPT ![n % Size] = new]
      /\ published' = Append(published, body)
      /\ published \in Seq(Bodies) /\ Len(published) = n
      /\ circle \in [Slots -> Message \cup {NoMessage}]
  BY DEF Append1, Store, TypeOK, RingHoldsWindow
<1>3. /\ Len(published') = n + 1
      /\ published'[n + 1] = body
      /\ \A i \in 1..n : published'[i] = published[i]
  BY <1>1, <1>2
<1>4. ASSUME NEW s \in Oldest(n + 1)..n
      PROVE  circle'[s % Size] = [sequence |-> s, body |-> published'[s + 1]]
  <2>1. CASE s = n
    BY <1>1, <1>2, <1>3, <2>1
  <2>2. CASE s # n
    <3>1. s \in Nat /\ s \in Oldest(n)..n - 1 /\ n - s < Size /\ s - n < Size
      BY <1>1, <1>4, <2>2, SizeAssumption DEF Oldest
    <3>2. s % Size # n % Size /\ s % Size \in Slots
      BY <1>1, <2>2, <3>1, ModInjective, DivMod
    <3>3. circle'[s % Size] = circle[s % Size]
      BY <1>1, <1>2, <3>2
    <3>4. circle[s % Size] = [sequence |-> s, body |-> published[s + 1]]
      BY <3>1 DEF RingHoldsWindow
    <3>5. published'[s + 1] = published[s + 1]
      <4>1. s + 1 \in 1..n
        BY <1>1, <3>1
      <4> QED
        BY <4>1, <1>3
    <3> QED
      BY <3>3, <3>4, <3>5
  <2> QED
    BY <2>1, <2>2
<1>5. (Oldest(next_sequence)..next_sequence - 1)' = Oldest(n + 1)..n
  BY <1>1, <1>2 DEF Oldest
<1> HIDE DEF n
<1> QED
  BY <1>2, <1>3, <1>4, <1>5 DEF RingHoldsWindow

\* A read of the window returns the message published under its target.
LEMMA WindowRead ==
  ASSUME TypeOK, RingHoldsWindow, NEW c \in Consumers, Reads(c, "Message")
  PROVE  SlotOf(ReadTarget(c)) = [sequence |-> ReadTarget(c),
                                  body |-> published[ReadTarget(c) + 1]]
  BY ReadFacts DEF RingHoldsWindow, SlotOf

\* Every step preserves the ring's part of the invariant.
LEMMA RingStep == TypeOK /\ RingHoldsWindow /\ [Next]_vars => RingHoldsWindow'
<1> SUFFICES ASSUME TypeOK, RingHoldsWindow, [Next]_vars
             PROVE  RingHoldsWindow'
  OBVIOUS
<1>1. ASSUME NEW body \in Bodies, Append1(body) PROVE RingHoldsWindow'
  BY <1>1, RingAppend
<1>2. CASE UNCHANGED ring
  BY <1>2, RingUnchanged
<1>3. (\E body \in Bodies : Append1(body)) \/ UNCHANGED ring
  BY DEF Next, vars, ring, AppendExhausted, CreateNewRecord, Initialize,
         RemoveRecord, ReadMessage, ReadEmpty, ReadDisconnect, UpdateSequence
<1> QED
  BY <1>1, <1>2, <1>3

-----------------------------------------------------------------------------
\* The conjuncts of IInv about one consumer.
PendingOf(d) ==
    pending[d] # NoMessage =>
        /\ phase[d] = "initialized"
        /\ pending[d].message.sequence \in cursor[d]..next_sequence - 1
        /\ pending[d].message.body = published[pending[d].message.sequence + 1]
        /\ pending[d].message.body # EmptyBody
        /\ pending[d].next_sequence = pending[d].message.sequence + 1
        /\ pending[d].skipped = pending[d].message.sequence - cursor[d]
        /\ \/ SendLatest
           \/ pending[d].message.sequence = cursor[d]
           \/ cursor[d] + Size < next_sequence

CursorOf(d) ==
    /\ phase[d] = "created" => snapshot[d] <= next_sequence
    /\ phase[d] = "initialized" => cursor[d] <= next_sequence

ReceivedOf(d) ==
    \A i \in 1..Len(received[d]) :
        /\ received[d][i].sequence < next_sequence
        /\ phase[d] = "created" => received[d][i].sequence < snapshot[d]
        /\ phase[d] = "initialized" => received[d][i].sequence < cursor[d]

LedgerOf(d) ==
    phase[d] = "initialized" =>
        cursor[d] = ledger[d].joined + ledger[d].sent + ledger[d].empty
                      + ledger[d].skipped

ConsumerOK(d) == PendingOf(d) /\ CursorOf(d) /\ ReceivedOf(d) /\ LedgerOf(d)

\* IInv, consumer by consumer.
LEMMA IInvByConsumer ==
  IInv <=> TypeOK /\ RingHoldsWindow /\ \A d \in Consumers : ConsumerOK(d)
  BY DEF IInv, ConsumerOK, PendingOf, CursorOf, ReceivedOf, LedgerOf,
         PendingFrameValid, CursorBehindProducer, ReceivedBehindCursor,
         EverySequenceAccounted

\* The types of one consumer's record, frame and ledger.
LEMMA ConsumerType ==
  ASSUME TypeOK, NEW d \in Consumers
  PROVE  /\ next_sequence \in Nat /\ cursor[d] \in Nat /\ snapshot[d] \in Nat
         /\ phase[d] \in Phases
         /\ pending[d] # NoMessage =>
               /\ pending[d] \in Frame
               /\ pending[d].message \in Message
               /\ pending[d].message.sequence \in Nat
               /\ pending[d].next_sequence \in Nat
               /\ pending[d].skipped \in Nat
         /\ received[d] \in Seq(Message)
         /\ \A i \in 1..Len(received[d]) : received[d][i].sequence \in Nat
         /\ ledger[d] \in Ledger
         /\ ledger[d].joined \in Nat /\ ledger[d].sent \in Nat
         /\ ledger[d].empty \in Nat /\ ledger[d].skipped \in Nat
<1>1. /\ next_sequence \in Nat /\ cursor[d] \in Nat /\ snapshot[d] \in Nat
      /\ phase[d] \in Phases /\ received[d] \in Seq(Message)
      /\ ledger[d] \in Ledger
      /\ pending[d] # NoMessage => pending[d] \in Frame
  BY CircleAssumption DEF TypeOK
<1>2. \A i \in 1..Len(received[d]) : received[d][i] \in Message
  BY <1>1
<1>3. \A m \in Message : m.sequence \in Nat
  BY DEF Message
<1>4. pending[d] # NoMessage =>
        /\ pending[d].message \in Message
        /\ pending[d].next_sequence \in Nat
        /\ pending[d].skipped \in Nat
  BY <1>1 DEF Frame
<1>5. /\ ledger[d].joined \in Nat /\ ledger[d].sent \in Nat
      /\ ledger[d].empty \in Nat /\ ledger[d].skipped \in Nat
  BY <1>1 DEF Ledger
<1> QED
  BY <1>1, <1>2, <1>3, <1>4, <1>5

\* Another thread's append: the producer moves on, the log is extended, and
\* what the consumer holds stays true.
LEMMA ConsumerAppend ==
  ASSUME TypeOK, RingHoldsWindow, NEW d \in Consumers, ConsumerOK(d),
         NEW body \in Bodies, Append1(body)
  PROVE  ConsumerOK(d)'
<1>1. /\ next_sequence' = next_sequence + 1
      /\ published' = Append(published, body)
      /\ published \in Seq(Bodies) /\ Len(published) = next_sequence
      /\ UNCHANGED <<phase, cursor, snapshot, pending, received, ledger>>
  BY DEF Append1, TypeOK, RingHoldsWindow, consumer
<1>2. \A s \in 0..next_sequence - 1 : published'[s + 1] = published[s + 1]
  BY <1>1, ConsumerType
<1>3. PendingOf(d)'
  BY <1>1, <1>2, ConsumerType, SizeAssumption DEF ConsumerOK, PendingOf
<1>4. CursorOf(d)'
  BY <1>1, ConsumerType DEF ConsumerOK, CursorOf
<1>5. ReceivedOf(d)'
  BY <1>1, ConsumerType DEF ConsumerOK, ReceivedOf
<1>6. LedgerOf(d)'
  BY <1>1 DEF ConsumerOK, LedgerOf
<1> QED
  BY <1>3, <1>4, <1>5, <1>6 DEF ConsumerOK

\* A step of another consumer, or none.
LEMMA ConsumerIdle ==
  ASSUME NEW d \in Consumers, ConsumerOK(d), UNCHANGED ring,
         phase'[d] = phase[d], cursor'[d] = cursor[d],
         snapshot'[d] = snapshot[d], pending'[d] = pending[d],
         received'[d] = received[d], ledger'[d] = ledger[d]
  PROVE  ConsumerOK(d)'
  BY DEF ConsumerOK, PendingOf, CursorOf, ReceivedOf, LedgerOf, ring

\* Subscribing: the position taken is not past the producer, and is past all
\* that was received before.
LEMMA ConsumerSubscribe ==
  ASSUME TypeOK, NEW d \in Consumers, ConsumerOK(d),
         CreateNewRecord(d) \/ Initialize(d) \/ RemoveRecord(d)
  PROVE  ConsumerOK(d)'
<1> USE ConsumerType
<1>1. CASE CreateNewRecord(d)
  <2>1. /\ UNCHANGED ring /\ phase'[d] = "created"
        /\ snapshot'[d] = next_sequence /\ phase[d] = "none"
        /\ pending' = pending /\ received' = received /\ ledger' = ledger
    BY <1>1 DEF CreateNewRecord, TypeOK
  <2>2. pending[d] = NoMessage
    BY <2>1 DEF ConsumerOK, PendingOf
  <2> QED
    BY <2>1, <2>2
    DEF ConsumerOK, PendingOf, CursorOf, ReceivedOf, LedgerOf, ring
<1>2. CASE Initialize(d)
  <2>1. /\ UNCHANGED ring /\ phase'[d] = "initialized" /\ phase[d] = "created"
        /\ cursor'[d] = snapshot[d] /\ ledger'[d] = NewLedger(snapshot[d])
        /\ snapshot' = snapshot /\ pending' = pending /\ received' = received
    BY <1>2 DEF Initialize, TypeOK
  <2>2. pending[d] = NoMessage
    BY <2>1 DEF ConsumerOK, PendingOf
  <2> QED
    BY <2>1, <2>2
    DEF ConsumerOK, PendingOf, CursorOf, ReceivedOf, LedgerOf, ring, NewLedger
<1>3. CASE RemoveRecord(d)
  <2>1. /\ UNCHANGED ring /\ phase'[d] = "none" /\ pending'[d] = NoMessage
        /\ received' = received
    BY <1>3 DEF RemoveRecord, TypeOK
  <2> QED
    BY <2>1 DEF ConsumerOK, PendingOf, CursorOf, ReceivedOf, LedgerOf, ring
<1> QED
  BY <1>1, <1>2, <1>3

\* Reading: the frame holds the message of the window's target.
LEMMA ConsumerRead ==
  ASSUME TypeOK, RingHoldsWindow, NEW d \in Consumers, ConsumerOK(d),
         ReadMessage(d)
  PROVE  ConsumerOK(d)'
<1> DEFINE t == ReadTarget(d)
<1>1. /\ Reads(d, "Message") /\ phase[d] = "initialized"
      /\ SlotOf(t).body # EmptyBody
      /\ UNCHANGED <<ring, phase, cursor, snapshot, received, ledger>>
      /\ pending'[d] = [message |-> SlotOf(t), next_sequence |-> ReadNext(d),
                        skipped |-> t - cursor[d]]
  BY DEF ReadMessage, Reads, TypeOK
<1>2. SlotOf(t) = [sequence |-> t, body |-> published[t + 1]]
  BY <1>1, WindowRead
<1>3. /\ t \in cursor[d]..next_sequence - 1
      /\ ReadNext(d) = t + 1
      /\ SendLatest \/ t = cursor[d] \/ cursor[d] + Size < next_sequence
  BY <1>1, ReadFacts
<1> HIDE DEF t
<1>4. PendingOf(d)'
  BY <1>1, <1>2, <1>3 DEF PendingOf, ring
<1> QED
  BY <1>1, <1>4 DEF ConsumerOK, CursorOf, ReceivedOf, LedgerOf, ring

\* Passing over an empty message.
LEMMA ConsumerEmpty ==
  ASSUME TypeOK, NEW d \in Consumers, ConsumerOK(d), ReadEmpty(d)
  PROVE  ConsumerOK(d)'
<1> DEFINE t == ReadTarget(d)
<1>1. /\ Reads(d, "Message") /\ phase[d] = "initialized"
      /\ pending[d] = NoMessage
      /\ UNCHANGED <<ring, phase, snapshot, pending, received>>
      /\ cursor'[d] = ReadNext(d)
      /\ ledger'[d] = Account(ledger[d], 0, 1, t - cursor[d])
  BY DEF ReadEmpty, Reads, TypeOK
<1>2. /\ t \in cursor[d]..next_sequence - 1
      /\ ReadNext(d) = t + 1
  BY <1>1, ReadFacts
<1>3. /\ t - cursor[d] \in Nat /\ cursor[d] \in Nat /\ t \in Nat
      /\ next_sequence \in Nat
  BY <1>2, ConsumerType
<1> HIDE DEF t
<1>4. LedgerOf(d)'
  <2>1. /\ ledger'[d].joined = ledger[d].joined
        /\ ledger'[d].sent = ledger[d].sent + 0
        /\ ledger'[d].empty = ledger[d].empty + 1
        /\ ledger'[d].skipped = ledger[d].skipped + (t - cursor[d])
    <3>1. ledger'[d] = Account(ledger[d], 0, 1, t - cursor[d])
      BY <1>1
    <3> QED
      BY <3>1 DEF Account
  <2>2. /\ ledger[d].joined \in Nat /\ ledger[d].sent \in Nat
        /\ ledger[d].empty \in Nat /\ ledger[d].skipped \in Nat
    BY ConsumerType
  <2>3. cursor[d] = ledger[d].joined + ledger[d].sent + ledger[d].empty
                      + ledger[d].skipped
    BY <1>1 DEF ConsumerOK, LedgerOf
  <2>4. cursor'[d] = t + 1
    BY <1>1, <1>2
  <2>5. cursor'[d] = ledger'[d].joined + ledger'[d].sent + ledger'[d].empty
                       + ledger'[d].skipped
    BY <2>1, <2>2, <2>3, <2>4, <1>3
  <2> QED
    BY <2>5 DEF LedgerOf
<1>5. ReceivedOf(d)'
  <2>1. \A i \in 1..Len(received[d]) :
           /\ received[d][i].sequence \in Nat
           /\ received[d][i].sequence < next_sequence
           /\ received[d][i].sequence < cursor[d]
    BY <1>1, ConsumerType DEF ConsumerOK, ReceivedOf
  <2>2. /\ received' = received /\ next_sequence' = next_sequence
        /\ phase'[d] = "initialized" /\ cursor'[d] = t + 1
    BY <1>1, <1>2 DEF ring
  <2> QED
    BY <1>2, <1>3, <2>1, <2>2 DEF ReceivedOf
<1>6. CursorOf(d)' /\ PendingOf(d)'
  BY <1>1, <1>2, <1>3 DEF PendingOf, CursorOf, ring
<1> QED
  BY <1>4, <1>5, <1>6 DEF ConsumerOK

\* Completing the frame: the cursor moves just past the message sent.
LEMMA ConsumerUpdate ==
  ASSUME TypeOK, NEW d \in Consumers, ConsumerOK(d), UpdateSequence(d)
  PROVE  ConsumerOK(d)'
<1> DEFINE f == pending[d]
<1>1. /\ f # NoMessage /\ phase[d] = "initialized"
      /\ UNCHANGED <<ring, phase, snapshot>>
      /\ cursor'[d] = f.next_sequence
      /\ received'[d] = Append(received[d], f.message)
      /\ ledger'[d] = Account(ledger[d], 1, 0, f.skipped)
      /\ pending'[d] = NoMessage
  BY DEF UpdateSequence, Advance, TypeOK
<1>2. /\ f.message.sequence \in cursor[d]..next_sequence - 1
      /\ f.next_sequence = f.message.sequence + 1
      /\ f.skipped = f.message.sequence - cursor[d]
  BY <1>1 DEF ConsumerOK, PendingOf
<1>3. LedgerOf(d)'
  <2>1. /\ ledger'[d].joined = ledger[d].joined
        /\ ledger'[d].sent = ledger[d].sent + 1
        /\ ledger'[d].empty = ledger[d].empty + 0
        /\ ledger'[d].skipped = ledger[d].skipped + f.skipped
    <3>1. ledger'[d] = Account(ledger[d], 1, 0, f.skipped)
      BY <1>1
    <3> QED
      BY <3>1 DEF Account
  <2>2. /\ ledger[d].joined \in Nat /\ ledger[d].sent \in Nat
        /\ ledger[d].empty \in Nat /\ ledger[d].skipped \in Nat
        /\ f.message.sequence \in Nat /\ cursor[d] \in Nat
    BY <1>1, ConsumerType
  <2>3. cursor[d] = ledger[d].joined + ledger[d].sent + ledger[d].empty
                      + ledger[d].skipped
    BY <1>1 DEF ConsumerOK, LedgerOf
  <2>4. cursor'[d] = f.message.sequence + 1
        /\ f.skipped = f.message.sequence - cursor[d]
    BY <1>1, <1>2
  <2>5. cursor'[d] = ledger'[d].joined + ledger'[d].sent + ledger'[d].empty
                       + ledger'[d].skipped
    BY <2>1, <2>2, <2>3, <2>4
  <2> QED
    BY <2>5 DEF LedgerOf
<1>4. ReceivedOf(d)'
  <2> SUFFICES ASSUME NEW i \in 1..Len(received'[d])
               PROVE  /\ received'[d][i].sequence < next_sequence
                      /\ received'[d][i].sequence < f.next_sequence
    BY <1>1 DEF ReceivedOf, ring
  <2>1. CASE i \in 1..Len(received[d])
    <3>1. received'[d][i] = received[d][i]
      BY <1>1, <2>1, ConsumerType
    <3>2. /\ received[d][i].sequence \in Nat
          /\ received[d][i].sequence < next_sequence
          /\ received[d][i].sequence < cursor[d]
      BY <1>1, <2>1, ConsumerType DEF ConsumerOK, ReceivedOf
    <3>3. f.message.sequence \in Nat /\ cursor[d] \in Nat
      BY <1>1, ConsumerType
    <3> QED
      BY <1>2, <3>1, <3>2, <3>3
  <2>2. CASE i = Len(received[d]) + 1
    <3>1. received'[d][i] = f.message
      BY <1>1, <2>2, ConsumerType
    <3> QED
      BY <1>1, <1>2, <3>1, ConsumerType
  <2> QED
    BY <1>1, <2>1, <2>2, ConsumerType
<1>5. CursorOf(d)' /\ PendingOf(d)'
  BY <1>1, <1>2, ConsumerType DEF PendingOf, CursorOf, ring
<1> QED
  BY <1>3, <1>4, <1>5 DEF ConsumerOK

\* Closing on an overrun.
LEMMA ConsumerDisconnect ==
  ASSUME TypeOK, NEW d \in Consumers, ConsumerOK(d), ReadDisconnect(d)
  PROVE  ConsumerOK(d)'
<1>1. /\ UNCHANGED <<ring, pending, received>> /\ phase'[d] = "none"
      /\ pending[d] = NoMessage
  BY DEF ReadDisconnect, Reads, TypeOK
<1> QED
  BY <1>1 DEF ConsumerOK, PendingOf, CursorOf, ReceivedOf, LedgerOf, ring

\* An action of consumer c changes nothing of consumer d.
LEMMA OthersUntouched ==
  ASSUME TypeOK, NEW c \in Consumers, NEW d \in Consumers, c # d,
         \/ CreateNewRecord(c) \/ Initialize(c) \/ RemoveRecord(c)
         \/ ReadMessage(c) \/ ReadEmpty(c) \/ ReadDisconnect(c)
         \/ UpdateSequence(c)
  PROVE  /\ UNCHANGED ring
         /\ phase'[d] = phase[d] /\ cursor'[d] = cursor[d]
         /\ snapshot'[d] = snapshot[d] /\ pending'[d] = pending[d]
         /\ received'[d] = received[d] /\ ledger'[d] = ledger[d]
  BY DEF TypeOK, CreateNewRecord, Initialize, RemoveRecord, ReadMessage,
         ReadEmpty, ReadDisconnect, UpdateSequence, Advance

\* Every step, of this consumer or of any other thread, keeps what the
\* inductive invariant says of one consumer.
LEMMA ConsumerStep ==
  ASSUME TypeOK, RingHoldsWindow, NEW d \in Consumers, ConsumerOK(d),
         [Next]_vars
  PROVE  ConsumerOK(d)'
<1>1. ASSUME NEW body \in Bodies, Append1(body) PROVE ConsumerOK(d)'
  BY <1>1, ConsumerAppend
<1>2. CASE AppendExhausted \/ UNCHANGED vars
  BY <1>2, ConsumerIdle DEF AppendExhausted, vars, ring, consumer
<1>3. ASSUME NEW c \in Consumers,
             \/ CreateNewRecord(c) \/ Initialize(c) \/ RemoveRecord(c)
             \/ ReadMessage(c) \/ ReadEmpty(c) \/ ReadDisconnect(c)
             \/ UpdateSequence(c)
      PROVE  ConsumerOK(d)'
  <2>1. CASE c = d
    BY <1>3, <2>1, ConsumerSubscribe, ConsumerRead, ConsumerEmpty,
       ConsumerDisconnect, ConsumerUpdate
  <2>2. CASE c # d
    BY <1>3, <2>2, OthersUntouched, ConsumerIdle
  <2> QED
    BY <2>1, <2>2
<1> QED
  BY <1>1, <1>2, <1>3 DEF Next

\* An empty ring without consumers.
LEMMA IInvInit == Init => IInv
<1> SUFFICES ASSUME Init PROVE IInv
  OBVIOUS
<1>1. RingHoldsWindow
  BY SizeAssumption DEF Init, RingHoldsWindow, Oldest
<1>2. ASSUME NEW d \in Consumers PROVE ConsumerOK(d)
  BY DEF Init, ConsumerOK, PendingOf, CursorOf, ReceivedOf, LedgerOf
<1> QED
  BY <1>1, <1>2, TypeInit, IInvByConsumer

\* Every step keeps the inductive invariant.
LEMMA IInvStep == IInv /\ [Next]_vars => IInv'
<1> SUFFICES ASSUME IInv, [Next]_vars PROVE IInv'
  OBVIOUS
<1>1. TypeOK' /\ RingHoldsWindow'
  BY TypeStep, RingStep DEF IInv
<1>2. ASSUME NEW d \in Consumers PROVE ConsumerOK(d)'
  BY IInvByConsumer, ConsumerStep DEF IInv
<1>3. (TypeOK /\ RingHoldsWindow /\ \A d \in Consumers : ConsumerOK(d))'
  BY <1>1, <1>2
<1> QED
  BY <1>3, IInvByConsumer, PTL

\* The invariant of the ring and its consumers holds throughout.
THEOREM Invariance == Spec => []IInv
  BY IInvInit, IInvStep, PTL DEF Spec

\* Whatever the size of the ring and however often it wrapped around, every
\* sequence of the window is in its slot with the body published under it.
THEOREM RingCorrect == Spec => []RingHoldsWindow
<1>1. IInv => RingHoldsWindow
  BY DEF IInv
<1> QED
  BY <1>1, Invariance, PTL

\* A frame read before any number of appends is still the right one, and
\* completing it moves the cursor just past its message.
THEOREM PendingCorrect == Spec => []PendingFrameValid
<1>1. IInv => PendingFrameValid
  BY DEF IInv
<1> QED
  BY <1>1, Invariance, PTL

\* No cursor passes the producer.
THEOREM CursorCorrect == Spec => []CursorBehindProducer
<1>1. IInv => CursorBehindProducer
  BY DEF IInv
<1> QED
  BY <1>1, Invariance, PTL

\* No message is received twice, not even across a reconnect.
THEOREM NoDuplicates == Spec => []ReceivedBehindCursor
<1>1. IInv => ReceivedBehindCursor
  BY DEF IInv
<1> QED
  BY <1>1, Invariance, PTL

\* Every sequence a cursor passed was sent, empty or counted as skipped.
THEOREM Accounting == Spec => []EverySequenceAccounted
<1>1. IInv => EverySequenceAccounted
  BY DEF IInv
<1> QED
  BY <1>1, Invariance, PTL

\* The branch of read on a slot with another sequence is dead code: a read
\* disconnects only an overrun consumer, under the policy that asks for it.
THEOREM DisconnectCorrect == Spec => []OnlyOverrunDisconnects
<1>1. IInv => OnlyOverrunDisconnects
  <2> SUFFICES ASSUME IInv, NEW c \in Consumers, NEW policy \in OverrunPolicies,
                      ReadStatus(c, policy) = "Disconnect"
               PROVE  /\ policy = "Disconnect" /\ ~SendLatest
                      /\ Overrun(next_sequence, cursor[c])
    BY DEF OnlyOverrunDisconnects
  <2> DEFINE t == Target(next_sequence, cursor[c], SendLatest, policy)
  <2>1. cursor[c] \in Nat /\ next_sequence \in Nat
    BY ConsumerType DEF IInv
  <2>2. /\ ~(cursor[c] >= next_sequence)
        /\ MustDisconnect(next_sequence, cursor[c], SendLatest, policy)
             \/ ~SlotHolds(t)
    BY DEF ReadStatus
  <2>3. t \in Oldest(next_sequence)..next_sequence - 1
    BY <2>1, <2>2, TargetBounds, CircleAssumption
  <2>4. circle[t % Size] = [sequence |-> t, body |-> published[t + 1]]
    BY <2>3 DEF IInv, RingHoldsWindow
  <2>5. circle[t % Size] \in Message
    <3>1. Oldest(next_sequence) \in Nat
      BY <2>1, SizeAssumption DEF Oldest
    <3>2. t \in Nat /\ t + 1 \in 1..Len(published)
      BY <2>1, <2>3, <3>1 DEF IInv, RingHoldsWindow
    <3>3. published \in Seq(Bodies)
      BY DEF IInv, TypeOK
    <3>4. published[t + 1] \in Bodies
      BY <3>2, <3>3
    <3> QED
      BY <2>4, <3>2, <3>4 DEF Message
  <2>6. SlotHolds(t)
    BY <2>4, <2>5, CircleAssumption DEF SlotHolds, SlotOf
  <2> QED
    BY <2>2, <2>6 DEF MustDisconnect
<1> QED
  BY <1>1, Invariance, PTL

-----------------------------------------------------------------------------
\* An empty message or a completed frame moves the cursor forward.
LEMMA CursorMoves ==
  ASSUME IInv, NEW c \in Consumers, ReadEmpty(c) \/ UpdateSequence(c)
  PROVE  cursor'[c] \in Nat /\ cursor[c] \in Nat /\ cursor'[c] > cursor[c]
<1>1. TypeOK /\ ConsumerOK(c)
  BY IInvByConsumer
<1>2. CASE ReadEmpty(c)
  <2>1. Reads(c, "Message") /\ cursor'[c] = ReadNext(c)
    BY <1>1, <1>2 DEF ReadEmpty, TypeOK
  <2>2. /\ cursor[c] \in Nat /\ next_sequence \in Nat
        /\ ReadTarget(c) \in cursor[c]..next_sequence - 1
        /\ ReadNext(c) = ReadTarget(c) + 1
    BY <1>1, <2>1, ReadFacts
  <2> QED
    BY <2>1, <2>2
<1>3. CASE UpdateSequence(c)
  <2>1. pending[c] # NoMessage /\ cursor'[c] = pending[c].next_sequence
    BY <1>1, <1>3 DEF UpdateSequence, Advance, TypeOK
  <2>2. /\ pending[c].message.sequence \in cursor[c]..next_sequence - 1
        /\ pending[c].next_sequence = pending[c].message.sequence + 1
    BY <1>1, <2>1 DEF ConsumerOK, PendingOf
  <2>3. cursor[c] \in Nat /\ pending[c].message.sequence \in Nat
    BY <1>1, <2>1, ConsumerType
  <2> QED
    BY <2>1, <2>2, <2>3
<1> QED
  BY <1>2, <1>3

\* The cursor of a live record never moves back, although it is set from a
\* sequence computed before other threads' steps.
THEOREM CursorMonotonicity == Spec => CursorMonotone
<1> DEFINE A == \A c \in Consumers :
                   (phase[c] = "initialized" /\ phase'[c] = "initialized")
                   => cursor'[c] >= cursor[c]
<1>1. IInv /\ [Next]_vars => A
  <2> SUFFICES ASSUME IInv, [Next]_vars, NEW d \in Consumers,
                      phase[d] = "initialized", phase'[d] = "initialized"
               PROVE  cursor'[d] >= cursor[d]
    OBVIOUS
  <2>1. TypeOK /\ cursor[d] \in Nat
    BY ConsumerType DEF IInv
  <2>2. CASE cursor'[d] = cursor[d]
    BY <2>1, <2>2
  <2>3. CASE ReadEmpty(d) \/ UpdateSequence(d)
    BY <2>3, CursorMoves
  <2>4. cursor'[d] = cursor[d] \/ ReadEmpty(d) \/ UpdateSequence(d)
    <3>1. CASE \E body \in Bodies : Append1(body)
      BY <3>1 DEF Append1, consumer
    <3>2. CASE AppendExhausted \/ UNCHANGED vars
      BY <3>2 DEF AppendExhausted, consumer, vars
    <3>3. ASSUME NEW c \in Consumers, c # d,
                 \/ CreateNewRecord(c) \/ Initialize(c) \/ RemoveRecord(c)
                 \/ ReadMessage(c) \/ ReadEmpty(c) \/ ReadDisconnect(c)
                 \/ UpdateSequence(c)
          PROVE  cursor'[d] = cursor[d]
      BY <2>1, <3>3, OthersUntouched
    <3>4. CASE CreateNewRecord(d) \/ Initialize(d)
      BY <3>4 DEF CreateNewRecord, Initialize
    <3>5. CASE RemoveRecord(d) \/ ReadMessage(d) \/ ReadDisconnect(d)
      BY <3>5 DEF RemoveRecord, ReadMessage, ReadDisconnect
    <3> QED
      BY <3>1, <3>2, <3>3, <3>4, <3>5 DEF Next
  <2> QED
    BY <2>2, <2>3, <2>4
<1>2. Spec => [][A]_vars
  BY <1>1, Invariance, PTL DEF Spec
<1> QED
  BY <1>2 DEF CursorMonotone

-----------------------------------------------------------------------------
\* The position TopicLog sees
Position == [c \in Consumers |->
                IF phase[c] = "initialized" THEN cursor[c] ELSE Detached]

\* What a consumer is given is what the abstract topic owes it.
LEMMA OwedMessage ==
  ASSUME IInv, NEW c \in Consumers, NEW t \in Nat, phase[c] = "initialized",
         t \in cursor[c]..next_sequence - 1,
         SendLatest \/ t = cursor[c] \/ cursor[c] + Size < next_sequence
  PROVE  Log!Owed(c, t) /\ t \in 0..Len(published) - 1
<1>1. cursor[c] \in Nat /\ next_sequence \in Nat
  BY ConsumerType DEF IInv
<1>2. Len(published) = next_sequence /\ cursor[c] # Detached
  BY <1>1, CircleAssumption DEF IInv, RingHoldsWindow
<1> QED
  BY <1>1, <1>2 DEF Log!Owed

\* A step of the ring and its consumers is a step of the topic log or none.
LEMMA LogStep == IInv /\ [Next]_vars => [Log!LogNext]_(Log!logVars)
<1> SUFFICES ASSUME IInv, [Next]_vars
             PROVE  Log!LogNext \/ UNCHANGED <<published, Position, received>>
  BY DEF Log!logVars, Position
<1>1. ASSUME NEW body \in Bodies, Append1(body) PROVE Log!LogNext
  BY <1>1 DEF Append1, consumer, Log!LogNext, Log!Publish
<1>2. CASE AppendExhausted \/ UNCHANGED vars
  BY <1>2 DEF AppendExhausted, ring, consumer, vars, Position
<1>3. ASSUME NEW c \in Consumers, CreateNewRecord(c)
      PROVE  UNCHANGED <<published, Position, received>>
  BY <1>3 DEF CreateNewRecord, ring, Position, IInv, TypeOK
<1>4. ASSUME NEW c \in Consumers, Initialize(c) PROVE Log!LogNext
  <2>1. /\ ConsumerOK(c) /\ snapshot[c] \in Nat /\ next_sequence \in Nat
        /\ phase[c] = "created" /\ Len(published) = next_sequence
    BY <1>4, IInvByConsumer, ConsumerType DEF Initialize, RingHoldsWindow
  <2>2. PICK at \in 0..Len(published) : at = snapshot[c]
    BY <2>1 DEF ConsumerOK, CursorOf
  <2>3. Position' = [Position EXCEPT ![c] = at]
    BY <1>4, <2>2 DEF Initialize, Position, IInv, TypeOK
  <2>4. \A i \in 1..Len(received[c]) : received[c][i].sequence < at
    BY <2>1, <2>2 DEF ConsumerOK, ReceivedOf
  <2>5. Log!Join(c, at)
    BY <1>4, <2>1, <2>3, <2>4 DEF Log!Join, Position, Initialize, ring
  <2> QED
    BY <2>5 DEF Log!LogNext
<1>5. ASSUME NEW c \in Consumers, RemoveRecord(c) \/ ReadDisconnect(c)
      PROVE  Log!LogNext \/ UNCHANGED <<published, Position, received>>
  <2>1. /\ phase' = [phase EXCEPT ![c] = "none"]
        /\ UNCHANGED <<published, cursor, received>>
    BY <1>5 DEF RemoveRecord, ReadDisconnect, ring
  <2>2. Position' = [Position EXCEPT ![c] = Detached]
    BY <2>1 DEF Position, IInv, TypeOK
  <2>3. CASE phase[c] = "initialized"
    <3>1. cursor[c] # Detached
      BY ConsumerType, CircleAssumption DEF IInv
    <3>2. Log!Leave(c)
      BY <2>1, <2>2, <2>3, <3>1 DEF Log!Leave, Position
    <3> QED
      BY <3>2 DEF Log!LogNext
  <2>4. CASE phase[c] # "initialized"
    BY <2>1, <2>2, <2>4 DEF Position
  <2> QED
    BY <2>3, <2>4
<1>6. ASSUME NEW c \in Consumers, ReadMessage(c)
      PROVE  UNCHANGED <<published, Position, received>>
  BY <1>6 DEF ReadMessage, ring, Position
<1>7. ASSUME NEW c \in Consumers, ReadEmpty(c) PROVE Log!LogNext
  <2> DEFINE t == ReadTarget(c)
  <2>1. /\ Reads(c, "Message") /\ phase[c] = "initialized"
        /\ SlotOf(t).body = EmptyBody
        /\ cursor' = [cursor EXCEPT ![c] = ReadNext(c)]
        /\ UNCHANGED <<phase, published, received>>
    BY <1>7 DEF ReadEmpty, Reads, ring
  <2>2. /\ t \in Nat /\ t \in cursor[c]..next_sequence - 1
        /\ SendLatest \/ t = cursor[c] \/ cursor[c] + Size < next_sequence
        /\ ReadNext(c) = t + 1
    BY <2>1, ReadFacts DEF IInv
  <2>3. SlotOf(t) = [sequence |-> t, body |-> published[t + 1]]
    BY <2>1, WindowRead DEF IInv
  <2>4. PICK s \in 0..Len(published) - 1 : s = t /\ Log!Owed(c, s)
    BY <2>1, <2>2, OwedMessage
  <2> HIDE DEF t
  <2>5. Position' = [Position EXCEPT ![c] = s + 1]
    BY <2>1, <2>2, <2>4 DEF Position, IInv, TypeOK
  <2>6. Log!PassEmpty(c, s)
    BY <2>1, <2>3, <2>4, <2>5 DEF Log!PassEmpty, Position
  <2> QED
    BY <2>6 DEF Log!LogNext
<1>8. ASSUME NEW c \in Consumers, UpdateSequence(c) PROVE Log!LogNext
  <2> DEFINE m == pending[c].message
             t == pending[c].message.sequence
  <2>1. /\ phase[c] = "initialized" /\ pending[c] # NoMessage
        /\ cursor' = [cursor EXCEPT ![c] = pending[c].next_sequence]
        /\ received' = [received EXCEPT ![c] = Append(received[c], m)]
        /\ UNCHANGED <<phase, published>>
    BY <1>8 DEF UpdateSequence, Advance, ring
  <2>2. /\ t \in Nat /\ m \in Message
        /\ t \in cursor[c]..next_sequence - 1
        /\ m.body = published[t + 1] /\ m.body # EmptyBody
        /\ pending[c].next_sequence = t + 1
        /\ SendLatest \/ t = cursor[c] \/ cursor[c] + Size < next_sequence
    BY <2>1, ConsumerType DEF IInv, PendingFrameValid
  <2>3. m = [sequence |-> t, body |-> published[t + 1]]
    BY <2>2 DEF Message
  <2>4. PICK s \in 0..Len(published) - 1 : s = t /\ Log!Owed(c, s)
    BY <2>1, <2>2, OwedMessage
  <2>5. Position' = [Position EXCEPT ![c] = s + 1]
    BY <2>1, <2>2, <2>4 DEF Position, IInv, TypeOK
  <2>6. Log!Receive(c, s)
    BY <2>1, <2>2, <2>3, <2>4, <2>5 DEF Log!Receive, Position
  <2> QED
    BY <2>6 DEF Log!LogNext
<1> QED
  BY <1>1, <1>2, <1>3, <1>4, <1>5, <1>6, <1>7, <1>8 DEF Next

\* MessageCircle with its ConsumeRecords implements TopicLog: delivery is in
\* order, at most once and faithful, with gaps only where the log allows.
THEOREM Refinement == Spec => RefinesTopicLog
<1>1. Init => Log!LogInit
  BY DEF Init, Log!LogInit
<1> QED
  BY <1>1, LogStep, Invariance, PTL DEF Spec, RefinesTopicLog, Log!LogSpec
=============================================================================
