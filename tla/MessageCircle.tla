--------------------------- MODULE MessageCircle ---------------------------
(***************************************************************************)
(* One topic: its MessageCircle (the ring publishers and layer threads     *)
(* append to under a writer lock) and the ConsumeRecords of its consumers. *)
(* Every method holds the lock of its object throughout, so a method is    *)
(* one step; what a caller does with the result of a method is a later     *)
(* step, and appends of any thread fall in between:                        *)
(*   - subscribing reads the producer's sequence, then initializes;        *)
(*   - delivering reads a message into the one pending frame of the        *)
(*     connection, and only when the kernel took the last byte of it       *)
(*     updates the record.                                                 *)
(***************************************************************************)
EXTENDS CircleRead, Sequences

CONSTANTS
    Bodies,         \* message bodies
    Consumers,      \* subscriber connections
    MaxSequence,    \* numeric_limits<MessageSequence>::max()
    SendLatest,     \* subscriber_always_send_latest
    Policies,       \* the values of subscriber_overrun_policy considered
    EmptyBody,      \* the body of length 0, which is never put on the wire
    NoMessage,      \* nullopt, for a slot and for a pending frame
    Detached        \* TopicLog: a consumer that holds no position

Message == [sequence: Nat, body: Bodies]

Frame == [message: Message, next_sequence: Nat, skipped: Nat]

ASSUME CircleAssumption ==
    /\ MaxSequence \in Nat
    /\ SendLatest \in BOOLEAN
    /\ Policies \subseteq OverrunPolicies
    /\ EmptyBody \in Bodies
    /\ NoMessage \notin Message
    /\ NoMessage \notin Frame
    /\ Detached \notin Nat

VARIABLES
    overrun_policy, \* RepeaterConfig::subscriber_overrun_policy
    circle,         \* circle_: slot -> stored message
    next_sequence,  \* next_sequence_
    phase,          \* phase[c]: is there a ConsumeRecord, is it initialized
    cursor,         \* cursor[c]: ConsumeMeta::next_sequence
    snapshot,       \* snapshot[c]: producer_sequence while subscribing
    pending,        \* pending[c]: the frame read and not completely sent
    terminated,     \* the overflow_error nobody catches ended the process
    published,      \* history: every body appended
    received,       \* history: received[c], the frames completely sent
    ledger          \* history: ledger[c], accounts since c joined

ring == <<overrun_policy, circle, next_sequence, published>>
consumer == <<phase, cursor, snapshot, pending, received, ledger>>
vars == <<overrun_policy, circle, next_sequence, phase, cursor, snapshot,
          pending, terminated, published, received, ledger>>

Slots == 0..Size - 1

NewLedger(at) == [joined |-> at, sent |-> 0, empty |-> 0, skipped |-> 0]

Account(l, sent, empty, skipped) ==
    [joined |-> l.joined, sent |-> l.sent + sent, empty |-> l.empty + empty,
     skipped |-> l.skipped + skipped]

-----------------------------------------------------------------------------
Init ==
    /\ overrun_policy \in Policies
    /\ circle = [i \in Slots |-> NoMessage]
    /\ next_sequence = 0
    /\ phase = [c \in Consumers |-> "none"]
    /\ cursor = [c \in Consumers |-> 0]
    /\ snapshot = [c \in Consumers |-> 0]
    /\ pending = [c \in Consumers |-> NoMessage]
    /\ terminated = FALSE
    /\ published = <<>>
    /\ received = [c \in Consumers |-> <<>>]
    /\ ledger = [c \in Consumers |-> NewLedger(0)]

\* Mutant: the slot is chosen after the sequence was advanced.
StoreNextSlot(body) ==
    circle' = [circle EXCEPT ![(next_sequence + 1) % Size] =
                  [sequence |-> next_sequence, body |-> body]]

\* The new message takes the slot of the oldest one.
Store(body) ==
    circle' = [circle EXCEPT ![next_sequence % Size] =
                  [sequence |-> next_sequence, body |-> body]]

\* Mutant: the sequence is not compared with its maximum, and wraps.
AppendUnchecked(body) ==
    /\ Store(body)
    /\ next_sequence' = (next_sequence + 1) % (MaxSequence + 1)
    /\ published' = Append(published, body)
    /\ UNCHANGED <<overrun_policy, consumer, terminated>>

\* MessageCircle::append
Append1(body) ==
    /\ next_sequence # MaxSequence
    /\ Store(body)
    /\ next_sequence' = next_sequence + 1
    /\ published' = Append(published, body)
    /\ UNCHANGED <<overrun_policy, consumer, terminated>>

\* append throws overflow_error; no thread that appends catches it, so the
\* runtime terminates the process.
AppendExhausted ==
    /\ next_sequence = MaxSequence
    /\ terminated' = TRUE
    /\ UNCHANGED <<ring, consumer>>

-----------------------------------------------------------------------------
\* createNewRecord, then getMeta of the circle by the reading thread; the
\* record is not visible to the writer yet.
CreateNewRecord(c) ==
    /\ phase[c] = "none"
    /\ phase' = [phase EXCEPT ![c] = "created"]
    /\ snapshot' = [snapshot EXCEPT ![c] = next_sequence]
    /\ cursor' = [cursor EXCEPT ![c] = 0]
    /\ UNCHANGED <<ring, pending, terminated, received, ledger>>

\* ConsumeRecord::initialize with the sequence read before
Initialize(c) ==
    /\ phase[c] = "created"
    /\ phase' = [phase EXCEPT ![c] = "initialized"]
    /\ cursor' = [cursor EXCEPT ![c] = snapshot[c]]
    /\ ledger' = [ledger EXCEPT ![c] = NewLedger(snapshot[c])]
    /\ UNCHANGED <<ring, snapshot, pending, terminated, received>>

\* ConsumeRecordComposite::removeRecord; the connection and its unsent frame
\* are gone with it.
RemoveRecord(c) ==
    /\ phase[c] # "none"
    /\ phase' = [phase EXCEPT ![c] = "none"]
    /\ pending' = [pending EXCEPT ![c] = NoMessage]
    /\ UNCHANGED <<ring, cursor, snapshot, terminated, received, ledger>>

-----------------------------------------------------------------------------
SlotOf(s) == circle[s % Size]

\* The check of the slot before its body is used
SlotHolds(s) == SlotOf(s) # NoMessage /\ SlotOf(s).sequence = s

\* MessageReadStatus of MessageCircle::read under a policy
ReadStatus(c, policy) ==
    IF cursor[c] >= next_sequence THEN "NoMessage"
    ELSE IF \/ MustDisconnect(next_sequence, cursor[c], SendLatest, policy)
            \/ ~SlotHolds(Target(next_sequence, cursor[c], SendLatest, policy))
         THEN "Disconnect"
         ELSE "Message"

\* What MessageCircle::read returns to c: message_sequence and next_sequence
ReadTarget(c) == Target(next_sequence, cursor[c], SendLatest, overrun_policy)
ReadNext(c) == NextSequence(next_sequence, cursor[c], SendLatest, overrun_policy)

\* deliverTopic reaches its read: the record has the topic initialized and no
\* frame is pending.  (A read that finds nothing changes nothing.)
Reads(c, status) ==
    /\ phase[c] = "initialized"
    /\ pending[c] = NoMessage
    /\ ReadStatus(c, overrun_policy) = status

\* deliverTopic: the message becomes the pending frame; the cursor stays.
ReadMessage(c) ==
    /\ Reads(c, "Message")
    /\ SlotOf(ReadTarget(c)).body # EmptyBody
    /\ pending' = [pending EXCEPT ![c] =
          [message |-> SlotOf(ReadTarget(c)),
           next_sequence |-> ReadNext(c),
           skipped |-> ReadTarget(c) - cursor[c]]]
    /\ UNCHANGED <<ring, phase, cursor, snapshot, terminated, received, ledger>>

\* deliverTopic: an empty message moves the cursor and sends no frame.
ReadEmpty(c) ==
    /\ Reads(c, "Message")
    /\ SlotOf(ReadTarget(c)).body = EmptyBody
    /\ cursor' = [cursor EXCEPT ![c] = ReadNext(c)]
    /\ ledger' = [ledger EXCEPT
          ![c] = Account(ledger[c], 0, 1, ReadTarget(c) - cursor[c])]
    /\ UNCHANGED <<ring, phase, snapshot, pending, terminated, received>>

\* deliverTopic answers Disconnect: the connection is closed, its record is
\* removed and its cursor was not advanced.
ReadDisconnect(c) ==
    /\ Reads(c, "Disconnect")
    /\ phase' = [phase EXCEPT ![c] = "none"]
    /\ UNCHANGED <<ring, cursor, snapshot, pending, terminated, received, ledger>>

\* Mutant: the cursor is updated from the producer's sequence of now.
AdvanceToProducer(c) == cursor' = [cursor EXCEPT ![c] = next_sequence]

\* Mutant: the cursor is set to the sequence of the message just sent.
AdvanceToMessage(c) ==
    cursor' = [cursor EXCEPT ![c] = pending[c].message.sequence]

Advance(c) == cursor' = [cursor EXCEPT ![c] = pending[c].next_sequence]

\* The kernel accepted the whole frame: ConsumeRecord::updateSequence with
\* the sequence kept in the frame, and the frame is dropped.
UpdateSequence(c) ==
    /\ phase[c] = "initialized"
    /\ pending[c] # NoMessage
    /\ Advance(c)
    /\ received' = [received EXCEPT ![c] = Append(@, pending[c].message)]
    /\ ledger' = [ledger EXCEPT
          ![c] = Account(ledger[c], 1, 0, pending[c].skipped)]
    /\ pending' = [pending EXCEPT ![c] = NoMessage]
    /\ UNCHANGED <<ring, phase, snapshot, terminated>>

-----------------------------------------------------------------------------
Next ==
    /\ ~terminated
    /\ \/ \E body \in Bodies : Append1(body)
       \/ AppendExhausted
       \/ \E c \in Consumers :
             \/ CreateNewRecord(c)
             \/ Initialize(c)
             \/ RemoveRecord(c)
             \/ ReadMessage(c)
             \/ ReadEmpty(c)
             \/ ReadDisconnect(c)
             \/ UpdateSequence(c)

Spec == Init /\ [][Next]_vars

-----------------------------------------------------------------------------
Ledger == [joined: Nat, sent: Nat, empty: Nat, skipped: Nat]

Phases == {"none", "created", "initialized"}

\* Types of the variables, and the sequence counter never passes its width.
TypeOK ==
    /\ overrun_policy \in Policies
    /\ circle \in [Slots -> Message \cup {NoMessage}]
    /\ next_sequence \in 0..MaxSequence
    /\ phase \in [Consumers -> Phases]
    /\ cursor \in [Consumers -> Nat]
    /\ snapshot \in [Consumers -> Nat]
    /\ pending \in [Consumers -> Frame \cup {NoMessage}]
    /\ terminated \in BOOLEAN
    /\ published \in Seq(Bodies)
    /\ received \in [Consumers -> Seq(Message)]
    /\ ledger \in [Consumers -> Ledger]

\* MessageCircle::append/read: each sequence of the window
\* [oldest_available_sequence, next_sequence) is in its slot, with the body
\* that was published under it, however often the ring wrapped around.
RingHoldsWindow ==
    /\ Len(published) = next_sequence
    /\ \A s \in Oldest(next_sequence)..next_sequence - 1 :
          circle[s % Size] = [sequence |-> s, body |-> published[s + 1]]

\* MessageCircle::read: no read ends in a disconnect unless the policy is
\* Disconnect, the mode is sequential and the consumer was overrun; the
\* branch on a slot that holds another sequence is never taken.
OnlyOverrunDisconnects ==
    \A c \in Consumers, policy \in OverrunPolicies :
        (phase[c] = "initialized" /\ ReadStatus(c, policy) = "Disconnect")
        => /\ policy = "Disconnect" /\ ~SendLatest
           /\ Overrun(next_sequence, cursor[c])

\* PendingSubscriberFrame: however far the ring has moved on since the read,
\* the frame holds the message published under its sequence, that message is
\* one the cursor has not passed, and completing the frame moves the cursor
\* just past it.  In sequential mode it is the message at the cursor unless
\* the consumer was overrun.
PendingFrameValid ==
    \A c \in Consumers : pending[c] # NoMessage =>
        LET s == pending[c].message.sequence
        IN  /\ phase[c] = "initialized"
            /\ s \in cursor[c]..next_sequence - 1
            /\ pending[c].message.body = published[s + 1]
            /\ pending[c].message.body # EmptyBody
            /\ pending[c].next_sequence = s + 1
            /\ pending[c].skipped = s - cursor[c]
            /\ SendLatest \/ s = cursor[c] \/ cursor[c] + Size < next_sequence

\* ConsumeRecord: a cursor never passes the producer (read would answer
\* NoMessage for messages published later, and they would be lost), also
\* when it was initialized from a sequence read before.
CursorBehindProducer ==
    \A c \in Consumers :
        /\ phase[c] = "created" => snapshot[c] <= next_sequence
        /\ phase[c] = "initialized" => cursor[c] <= next_sequence

\* deliverTopic: every sequence between the join and the cursor was sent, or
\* was empty, or was counted in skipped_messages of one read; none is twice.
EverySequenceAccounted ==
    \A c \in Consumers :
        phase[c] = "initialized" =>
            cursor[c] = ledger[c].joined + ledger[c].sent + ledger[c].empty
                          + ledger[c].skipped

\* Nothing received is at or past the position from which the consumer will
\* be served next, across reconnects as well: no message comes twice.
ReceivedBehindCursor ==
    \A c \in Consumers : \A i \in 1..Len(received[c]) :
        /\ received[c][i].sequence < next_sequence
        /\ phase[c] = "created" => received[c][i].sequence < snapshot[c]
        /\ phase[c] = "initialized" => received[c][i].sequence < cursor[c]

\* updateSequence: while a record lives, its cursor never moves back, even
\* though the sequence it is set to was computed before other threads' steps.
CursorMonotone ==
    [][\A c \in Consumers :
          (phase[c] = "initialized" /\ phase'[c] = "initialized")
          => cursor'[c] >= cursor[c]]_vars

\* The ring implements TopicLog: in-order, at-most-once, faithful delivery,
\* with gaps only on overrun (or in always-latest mode).
Log == INSTANCE TopicLog WITH
    log <- published,
    position <- [c \in Consumers |->
        IF phase[c] = "initialized" THEN cursor[c] ELSE Detached]

\* MessageCircle and ConsumeRecord refine the abstract topic log.
RefinesTopicLog == Log!LogSpec

\* README: "Subscribers maintain their own ConsumeRecord per topic, enabling
\* reconnection and resume from the last consumed position".  A consumer that
\* received messages before and subscribes again passes over none of the
\* messages that followed them and that the ring still retains.
ResumesFromLastPosition ==
    [][\A c \in Consumers :
          (phase[c] = "created" /\ phase'[c] = "initialized"
             /\ received[c] # <<>>)
          => \A s \in Oldest(next_sequence)..next_sequence - 1 :
                s > received[c][Len(received[c])].sequence => s >= cursor'[c]]_vars
=============================================================================
