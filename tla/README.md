# message-repeater in TLA+

A verification project for the message repeater: a service that takes messages
from publishers over TCP, keeps the last ones of each topic in a ring, and sends
them on to subscribers, each of which has a cursor of its own. The modules here
model the parts of the service where threads meet; TLC checks them on small
instances, and TLAPS proves their safety properties for every value of the
constants. Source paths below are relative to the repository (`src/…`);
`acceptor.cpp` is `src/connection/acceptor.cpp`, and so on.

## 1. The system

| Part | State | Operations | Hard behaviours |
|------|-------|------------|-----------------|
| Message circle (`message_container.cpp`) | `circle_`, `next_sequence_` | `append`, `read` | ring wrap, overrun policies, counter width |
| Consume record (`message_container.cpp`) | per topic `next_sequence`, `initialized` | `createNewRecord`, `initialize`, `getMeta`, `updateSequence`, `removeRecord` | cursor read, used and written in three critical sections |
| Event-loop worker (`message_event.cpp`) | `work_queue`, `work_queue_status`, `notify_pipe`, write event | `submitWork`, `popWork(s)`, `notifyStartWork`, `notifyStopWork`, `stop` | a refused submission relies on another thread's byte; a full pipe |
| Dispatching loop (`subscriber_acceptor.cpp:67`) | one worker | publishers and layer threads submit, the loop calls `dispatchMessage` | lost wakeups |
| Subscriber connection, event-loop mode (`subscriber_acceptor.cpp:438-650`) | worker, control queue, pending frame, record, `connection_alived` | reader, dispatcher, writing loop, detecting thread, release | partial writes, 16-frame limit, early returns, end of connection |
| Subscriber connection, normal mode (`subscriber_acceptor.cpp:348-436`) | control queue, pending frame, record, heartbeat | reader, polling writer, alive detection | checks and uses in separate critical sections |
| Connection table (`acceptor.cpp`) | `client_connections_`, heartbeats, descriptors of the process | accept, handlers, alive detection | descriptor reuse, reconnects with the same address, the limit |
| Publisher handler (`publisher_acceptor.cpp`) | none | read a frame, filter, create a circle, append, submit, notify | the limit of topics, a refused submission |
| Table of circles (`message_container.cpp:96`) | `topics_`, `topic_circles_` | `createCircleIfAbsent`, `appendMessageToCircle`, `getTopics` | publishers and layer start race for the last place |
| Layer connector (`layer_connector.cpp`) | socket, ping thread, `socket_disconnected` | connect, subscribe, read, ping, reconnect | ping thread against reader, silent upstreams, timeouts, descriptors |
| Topic filter (`global_context.cpp`), subscription (`subscriber_acceptor.cpp:834`) | lists fixed at start | pure functions of a name; a list of topics out of a JSON body | stars, a body that does not parse |
| Configuration (`config/`) | settings, before any thread | `load_config_file`, `loadRepeaterConfig` | a file that does not parse, numbers that do not fit |
| JSON (`json/json.cpp`, jsoncpp) | document, `nodes_`, errors | `parse`, conversions, writer of strings | recovery in nested containers, overflow, UTF-8 |
| Risk controller (`risk_controller.cpp`), Telegram bot | none | look at topics and full roles every two minutes, send a warning | stale copies, failed requests |
| Example clients (`src/examples/src`) | `client_fd_`, `is_connected_`, `is_subscribed_`, a ping thread | `createConnection`, `subscribe`, `readMessage`, `sendMessage`, `closeConnection` | ping thread against loop without a lock, descriptors that are left open or closed twice |
| Locks (all of the above) | nine mutexes, of which two are called `rw_lock_` in one object | | a lock taken under another |
| Logger, start | none of interest | | |

How the parts interact: a publisher handler (or a layer connector) appends to a
circle and, in event-loop mode, submits the topic to the dispatching worker and
writes a byte to its pipe. The dispatching loop takes all topics and submits each
to the worker of every connection that subscribed to it. The loop of a connection
pops a topic, reads the circle at the record's cursor into the one pending frame,
and moves the cursor once the kernel took the last byte. In normal mode the
writer thread polls every topic of its record instead. Pongs and answers to
subscriptions are queued by the reader and written by the same writer, before
topics. Threads that end call `killAlive`; the alive detection, once a second,
closes and removes connections with an old heartbeat and clears what they left in
the other tables, and writes down whether its role has its connections full, which
the watchdog reads. A layer connector is a subscriber of another repeater: it asks
for its topics in a JSON body that the other one parses, and appends and submits
what it is sent as a publisher handler does. The example clients are what the service meets
at the other ends.

What makes each part correct is stated as properties in the modules, and listed
with the hazards of the code (`PROJECT.json`, "hazards") they are aimed at.

## 2. Modules

    CircleRead          the arithmetic of MessageCircle::read
    MessageCircle       ring + consume records of one topic        EXTENDS CircleRead
    TopicLog            what a topic promises (abstract)           INSTANCEd by MessageCircle
    EventLoopWorker     the class: what each method does
    DispatchLoop        submitters and dispatching loop            EXTENDS EventLoopWorker
    SubscriberEventLoop a connection in event-loop mode            EXTENDS EventLoopWorker
    SubscriberNormal    a connection in normal mode
    ConnectionTable     accept, table, descriptors, alive detection, full roles
    Ingest              publishers, layer threads, table of circles, dispatching
                        loop, watchdog                             EXTENDS DispatchLoop
    LayerConnector      a layer connector and its upstream
    JsonText            numbers and strings, written and read
    JsonReader          Json::Reader, token by token               EXTENDS JsonText
    TopicFilter         which topics may be used
    Documents           subscribe bodies and configuration         EXTENDS JsonReader, TopicFilter
    LockOrder           the mutexes, and the order in which threads take them
    ClientConnection    an example client's connection and ping threads
    SampleSubscriber    RepeaterSubscriber in its sample            EXTENDS ClientConnection
    SamplePublisher     RepeaterPublisher in its sample             EXTENDS ClientConnection
    SampleClients       a process that runs one of the two          INSTANCEs both
    MC…                 instances for TLC, one .cfg per run
    …Proofs             theorems and proofs of the module of that name

Every method that holds its lock throughout is one step; what a caller does with
the result is a later step. Names follow the source: a variable is the field, an
action the method or, where a handler is split, the part of it that the action's
comment names. `PROJECT.json` "map" gives the lines.

**MessageCircle.** `circle`, `next_sequence`: the ring. `phase`, `cursor`: a
consumer's record (none, created, initialized). `snapshot`: the producer's
sequence read by a subscription that has not initialized the record yet
(`subscriber_acceptor.cpp:766-773`). `pending`: the frame that `deliverTopic`
made and `flushPendingFrame` has not finished. `published`, `received`, `ledger`
are history. `AppendExhausted` is the `overflow_error` of a full counter, which
nobody catches. Deciding what `read` returns is in `CircleRead` as pure operators
(`Oldest`, `Overrun`, `Target`, `NextSequence`, `MustDisconnect`).

**TopicLog.** A log that only grows and one position per subscriber. A subscriber
gets messages in order, each at most once, with the published body; empty bodies
are passed over; in sequential mode it may miss messages only if it fell more
than the ring's size behind. `MessageCircle` implements it with
`log <- published` and the cursor of an initialized record as position.

**EventLoopWorker.** The operators are the methods. The pipe is counted in bytes
of each value; libevent is external: the read event is level-triggered, so its
callback runs while there is a byte. `notifyStartWork` takes EAGAIN for success,
`notifyStopWork` fails on it.

**DispatchLoop.** `submitter[h]` tells whether thread h has submitted and not yet
written its byte. `owed` is history: topics submitted, refused or not, that the
loop has not taken since.

**SubscriberEventLoop.** `loop` is the place in the callback: `drained`,
`stopping`, `entering`, `callback` (at `flushPendingFrame`), `idle` (nothing
pending), `popping`, `delivering`, `requeue`, `yielding` (the end of a callback
with something left). A delivery ends in one of the ways `deliverTopic` can end.
`release` is the progress of `clearConnectionResource`, `detecting_finished` that
of the detecting thread. Bound: a connection subscribes once, to all of `Topics`.

**SubscriberNormal.** `record` is the writer's pointer, `consume_record` the entry
of the composite; records are numbered so that the two can differ. `due[n]` are
the topics of record n with a message to deliver. `Unlocked` is the table's lock,
which the alive detection holds while it clears the connection's resources.

**ConnectionTable.** The publisher role: connections are numbered, a descriptor
is a number that stands for a connection or is free, and `close()` by whoever has
the number frees it. `robbed` is history: connections whose descriptor was closed
by a thread that meant another. `recv()` looks its descriptor up when called and
keeps the connection it found. `full_roles` is the status the alive detection
leaves for the watchdog, `warned` what the watchdog last made of it. What becomes
of a message that was received is in Ingest; here only the life of the handler
matters.

**Ingest.** The composition of what brings messages in. `thread[h]` is where the
thread of a publisher or layer connector is between `recv()` and `submit`;
`topics_` and `topic_circles_` the table (a circle is the number of its messages;
what it does with them is MessageCircle's). Worker and loop are the variables of
`DispatchLoop`, changed by its actions only. Publishers are accepted before
`start_layer_replay` has created its circles (`starting`), as in `main`. The
watchdog takes a copy of the topics, and warns or fails to.

**LayerConnector.** `conn[a]` is the thread of an address with its ping thread, in
the order of `layer_replay_work`: `sleep`, `connect`, `subscribe`, `response`,
`check`/`recv`, `leave`, `shutdown`, `join`, `close`. `net[a]` is the connection
and the upstream's handler, which answers as `SubscriberBootstrap` does: record and
cursor first, then the answer, then messages. Faults, at most `MaxFaults`: the
upstream refuses, closes, stops, or the link goes silent. `owner` is the descriptor
table of the process, of which other components take and return entries. Time
passes in ping intervals (10 s) while `recv()` waits, and the read timeout is two of
them, the least it can be; `max_connection_idle_second` may make it longer.

**JsonText, JsonReader.** A step of the reader takes one token; `nodes` is the stack
`nodes_` with the key each container is at, `doc` the document as a function of
paths. An error leaves `doc` as it is, and each open container in turn skips to its
end (`Recover`). A name is a sequence of code points; `RereadName` is what it
has become after the writer and the reader: UTF-8 to code point, escape, surrogate
pair, and back. After the first half of a pair the reader takes the next escape for
the second, whatever it is; if there is none the string is an error (`Readable`), and
its token is one (`StringToken`). The widths of Int, LargestInt and double are constants, so that small
numbers meet the limits; a number that no integer holds is rounded as a double is
(`Rounded`), and is an error of the parser if no double holds it (`Decodable`).

**TopicFilter, Documents.** The filter as predicates on names. `Documents` lets the
reader read a text: any sequence of tokens, a body a layer connector wrote from its
list, or a setting that is a number. `SubscribedTopics` is what
`parseSubscribeTopics` makes of the document, `LoadConfig` what
`loadRepeaterConfig` does (loaded, refused, or ended by an exception).

**LockOrder.** What the other modules take for granted when they make a method that
holds its lock one step: that every lock is granted in the end. A thread is the
sequence of its requests and releases, in the order of the code; where a loop may be
left before its end, `Return` does. `WaitsFor` counts a waiting writer of a
`shared_mutex` as in the way of later readers, which implementations may do or not.

**ClientConnection, SampleSubscriber, SamplePublisher.** `at[t]` is where the loop of
a sample or a ping thread is, `descriptor` the process's table, `link` and `inbox`
the connections behind it. A thread that is in `recv()` stays on its connection
(`on`) when the descriptor is closed, and the connection lives as long. The first
frame that comes is taken for the answer to a subscription, as `subscribe` does,
a pong or the answer to the attempt before included. The repeater answers, closes, or
expires a connection that is not pinged.

## 3. Runs

| Run | Checks | Bounds, and why they are enough |
|-----|--------|---------------------------------|
| `circle_sequential` | ring window, disconnects, pending frame, cursor, duplicates, ledger, refinement of TopicLog | ring of 2, sequences to 6: three wraps, so an overrun by one, by more than the ring, and a second overrun; both an empty and a non-empty body; all three policies |
| `circle_resume` (violation) | the README's promise of resuming | |
| `ingest` | wakeups; messages announced, full table reported | two publishers and a layer connector that share a topic, three topics for two circles, three messages, a pipe of 2 bytes that fills up |
| `eventloop` | wakeups, answer first; topics handled, output flushed, dead loop stops | two topics, so that one is queued while the other is delivered; one frame per callback, so that every frame meets the limit; two control frames; a pipe of 1 byte that every second write finds full |
| `normal` | answer first, dead is killed; due messages delivered, place freed | two topics, one subscription, two control frames |
| `normal_race`, `normal_resubscribe` (violations) | see section 6 | smallest instances that show them |
| `table` | limit, descriptors, heartbeats; places freed, warnings follow the table | two clients for one place, two descriptors, two connections: a refusal, reuse of a number, reuse of a key with the handler of the first connection still running |
| `table_descriptor` (violation) | see section 6 | two clients, one place |
| `layer` | ping thread's descriptor, leaks, flag, completeness and order of what is relayed; live upstream kept, broken one left, subscribed again | one address, two descriptors that other threads take too, two topics of which one has a circle, two messages, two faults, so that the second falls into the recovery from the first |
| `documents` | tree, no invented values, error is final, parsing ends; topics asked for are found, numbers exact | 9 tokens and a stack limit of 3: `{ "t" : [ "a" , "t" ] }` has 9; a nested container, an error at each place of it, a text cut off there; Int up to 7, LargestInt up to 31, doubles of four bits up to 480, so that numbers below LargestInt are rounded into it and some are past any double; numbers of up to three digits on both sides of each limit; characters of each length in UTF-8 at the ends of the ranges, those that jsoncpp changes among them |
| `clients` | subscribed in the end; publishes in the end | a subscriber with two faults, so that the second falls into the recovery from the first; a publisher with one, since each fault and the close of a late ping thread may cost it a descriptor; three descriptors, three ping threads, so that one left in `recv()` meets the next connections |

Further configurations, for questions that stand apart or have an answer that is
known to be no:

| Configuration | Module | What TLC finds |
|---------------|--------|----------------|
| `MCLockOrder.cfg` | LockOrder | no circle of threads that wait for each other (`NoCircularWait`), with any three of nine threads: three kinds take a lock under another one (alive detection, dispatching, publishers), so that a circle of two or three of them would be met, or of one and two that wait for a `shared_mutex` |
| `MCDocuments_config.cfg` | MCDocuments | violation: section 6, 5 |
| `MCSubscriberNormal_leftover.cfg` | MCSubscriberNormal | violation: section 6, 6 |
| `MCSampleClients_leak.cfg` | MCSampleClients | violation: section 6, 8 |

The circle's run is in sequential mode with one consumer; always-latest mode and
several consumers are covered by the proofs, which hold for both values of
`SendLatest` and any set of consumers. What is proved for every instance and adds
nothing to a run that checks its consequences is not checked again: the type
invariants of MessageCircle, SubscriberNormal, SubscriberEventLoop (these also
bound their queues), LayerConnector and Documents, `CursorMonotone`,
`OwedIsQueued`, `StopIsSeen`, `StatusIsQueue` and `TopicsWithinLimit`.

The repeater has `MAX_CONTROL_FRAMES = 64` and `MAX_FRAMES_PER_CALLBACK = 16`; the
runs keep the first larger than the second, as in the code, so that one callback
cannot empty a full control queue.

Deadlock checking is off where the modelled system may really stop: a connection
that has ended, a sequence counter at its maximum, a text that was read. In
`ingest`, `table`, `layer`, `clients` and with LockOrder, where something always goes on, it is on.

### Fairness

- Threads that are not waiting for a peer are scheduled (WF on the callbacks of
  libevent, on a thread that is about to notify, on the steps of a subscription,
  on the release and the detection once they have begun or are due).
- Nothing makes a client send, a publisher publish or a thread submit.
- A subscriber that keeps its connection keeps reading: a write that is tried
  again and again succeeds in the end (SF on completing a flush or a delivery).
  Without it, TCP backpressure may hold a frame for ever, and does in the code.
- The alive detection and the watchdog come round again and again (WF on `Expire`,
  `UpdateConnectionsFull`, `WatchRoles`, `WatchStep`). A warning is sent again every
  two minutes as long as the table is full, and gets through in the end (SF on
  `SendWarning`).
- In LayerConnector both threads, the upstream's handler and time go on, an upstream
  that is down is restarted, other components return descriptors; `socket()` may
  find the table full each time it is called, and does not for ever (SF). The
  number of faults is bounded, so every behaviour has a last one.
- The example clients' threads run. The repeater expires a connection that is not
  pinged (SF on `PeerExpires`). That takes half a minute, and so it happens only while
  every thread of the client waits; and the loop's sleep of five seconds outlasts the
  half second after which a ping thread looks at the flag, and the timeout of its
  send (`WakeUp`). A thread in `recv()` may wait for any time.
- The JSON reader goes on as long as it is not finished (WF).
- A client that has hung up is noticed by `recv()` (ConnectionTable), a reader
  whose `connection_alived` is false leaves its loop (SubscriberNormal).

Two liveness properties need more, and say so: control frames go before topics,
so topics are handled only if the client stops sending pings for a while; and a
pass of the normal writer that blocks starts again at the first topic, so a later
topic is sure of delivery only when publishers are quiet.

### Mutants

Next to the definitions stand mutated forms of them ("Mutant: …"), each a
plausible slip: a status that is not cleared, a byte that is not written, a slot
or a limit off by one, a close that is left out. For each property of each passing
run `PROJECT.json` names one that makes TLC report that property.

## 4. What is proved

Nearly all theorems are of the form `Spec => []P`, or state an action property or a
refinement, for every value of the constants that the named assumptions allow
(ring size, queue limits and pipe capacity positive; publishers are among
the threads that submit). The argument is each time an inductive
invariant `IInv`, preserved by each action.

- **MessageCircleProofs.** `IInv` is type correctness with `RingHoldsWindow`,
  `PendingFrameValid`, `CursorBehindProducer`, `ReceivedBehindCursor` and
  `EverySequenceAccounted`. The ring needs one arithmetic fact: sequences less
  than Size apart have different slots (`ModInjective`), so an append overwrites
  just the sequence that leaves the window. The rest is shown consumer by consumer
  (`ConsumerOK`), since an action of one consumer leaves the others alone. From
  `IInv` follow that the branch of `read` for a slot with another sequence is
  never taken (`DisconnectCorrect`), that cursors never move back
  (`CursorMonotonicity`), and that every step is a step of `TopicLog` or none
  (`Refinement`).
- **EventLoopWorkerProofs** has the lemmas on the worker: what each method does to
  queue, status and pipe.
- **SubscriberEventLoopProofs.** `NoLostWakeup` speaks only of a sleeping loop.
  `WakeInv` follows the loop through its callback: once a flush found nothing, what
  arrives later brings its own byte; a callback that began without the record
  finds only topics submitted after it began. `StageInv` says what is known at
  each place, `AnswerInv` where the answer is until it is written, `StopInv` that
  a loop that must stop is awake or has a byte.
- **SubscriberNormalProofs.** `AnswerInv` follows the writer towards its first
  delivery; `KilledInv`: only the reader refreshes, and killing is its last step,
  so the race of ping and kill ends with an old heartbeat.
- **ConnectionTableProofs.** `ConnInv`: whoever has a handler, an entry or is being
  accepted knows its key and its descriptor. With it, descriptors and heartbeats
  are inductive; the limit follows since a step adds at most one key.
- **IngestProofs.** The limit of topics: `TableInv` says that `topics_` and
  `topic_circles_` agree and that a message on its way has a topic; a step adds at
  most one topic, and none at the limit (`CreateKeepsLimit`). The rest is
  proved of DispatchLoop alone (`DispatchInvariance`): status mirrors queue, hence
  a refused topic is queued, hence its byte is there or about to be written,
  because the loop drains the pipe *before* it pops. Every step of the composition
  is one of its steps or leaves its variables alone (`DispatchStep`), so `Spec`
  implements `DispatchSpec` (`DispatchRefinement`), and what holds of it holds of
  the composition.
- **LayerConnectorProofs.** `ConnInv` follows the two threads of an address: a
  thread that is connected has a descriptor, its ping thread the same one, and the
  ping thread lives only from the answer to the join (`PlaceOK`); so `close()`
  meets no ping thread, and no leak is left. `LinkInv` ties a thread to its link:
  nothing is on the way before the upstream has answered, and on a live link an
  interval that `recv()` has waited has brought a ping or its answer, which is why
  a timeout of two intervals never meets a live upstream. `OrderInv`: the messages
  appended, those on the way, the cursor and the end of the log follow each other;
  every step of an upstream or a reader is one of four on that sequence. With both,
  `RelayComplete` is inductive: nothing is due when the answer has just been read,
  a message published later is at or behind the cursor, a record is not
  initialized again on a live connection, and only the reader takes frames away.
- **DocumentsProofs.** For any text, of any length and depth. `ReaderInv` adds to
  `DocumentIsTree` that the stack `nodes_` is a path of the document (`StackOK`:
  each container is at the key the one that encloses it is reading, and the
  element before the one it reads itself is there) and which of its keys exists at each place of
  `readValue`, `readObject` and `readArray` (`PlaceOK`); after an error only the
  skipping is left, so the document stays (`ErrorIsFinal`). `NullInv` counts: each
  step adds at most one null, which is the value about to be read. The other two
  properties are about texts whose form is known. `NumberInv` and `TopicsInv`
  follow the reader through such a text token by token, with the document it has
  built at each stage; at the end stand lemmas on what was written. They are by
  induction over digits and characters: the recursive functions `Sums`, `Values`,
  `Powers` and `RereadParts` meet their equations (`Recursion`), and a prefix of least length
  at which a fact failed would contradict them (`LeastNumber`, `InductionUpTo`). The wrapping
  product never wraps, because the threshold leaves room for one digit
  (`ValueIsSum`), and the double is chosen only past the limit (`DoubleIsLarge`);
  rounding moves a number by a quarter of it at most (`RoundedBounds`) and none
  below the power of 2 that follows LargestInt (`RoundedPower`). So a number of any
  length is loaded as written, refused, or, in a small range below int64, taken
  for the least int64 (section 6). `LayerCorrect` assumes
  `PlainLists`: the lists of topics have no surrogate, with which the text may be an
  error, and no character from U+E000 to U+FFFF or that jsoncpp changes (section 6;
  what becomes of these is checked by `documents` only). Then each half of a pair
  is followed by the other (`TopicsInv` carries that the names are `Readable`). The lists may be of any
  length, with repetitions and stars.

Only model-checked: the liveness properties (`AdmittedIsAnnounced`,
`FullTableIsReported`, `OwedIsHandled`, `OutputIsFlushed`, `DeadLoopStops`,
`DueIsDelivered`, `PlaceIsFreed`, `WarningsFollowTable`, `BrokenLinkIsLeft`,
`Reconnects`, `ParseEnds`, `Resubscribes`, `KeepsPublishing`), because liveness under
fairness is beyond this prover; `NoCircularWait`; and the properties that the code
violates. Every safety property and every action property of a passing run is stated
by a theorem.

## 5. What is abstracted, and what is not modelled

- Message bodies are empty or not; names are model values, except in Documents;
  logging is left out.
- A frame is read or written completely, blocked or failed; byte offsets inside a
  frame (`socket_frame.cpp`) are not modelled.
- Time: a heartbeat is fresh or old. `killAlive` makes it old, which is so for
  every `max_connection_idle_second` below a day (`acceptor.cpp:262` subtracts
  86400). With a larger limit a killed connection keeps its place for the rest of it,
  which no property covers. In LayerConnector time is counted in ping intervals.
- JSON is modelled from tokens on: how characters make a token, comments kept with
  values, the fraction of real numbers, and the layout of what is written are left
  out. Numbers are integers in the text; fractions and exponents are
  left out.
- curl and Telegram's answer: a warning is sent or it fails.
- Errors of `bind` and `listen`, of `pthread` and of memory are left out.
- In the example clients the two flags are read and written as atomics, though they
  are plain fields of several threads; what a repeater answers to a ping is always
  "ok"; a frame is sent whole or lost with its connection.
- Not modelled: logger and spdlog (output only), the Go and Python clients (peers
  that may do anything), the parts of jsoncpp that the repeater does not call.

## 6. Where code and its own words disagree

1. `circle_resume`: a subscriber that reconnects does not resume; the record goes
   with the connection, and the new one starts at the producer.
2. `normal_race`: a subscription between the writer's two looks at `isSubscribed`
   (`subscriber_acceptor.cpp:367`, `:389`) makes the writer shut the connection.
3. `normal_resubscribe`: a second subscription on a connection is answered "ok",
   but the writer keeps the record of the first.
4. `table_descriptor`: handler and alive detection both close a descriptor number,
   the second time perhaps that of a new connection.
5. `MalformedConfigIsRefused` (Documents): `load_config_file` (`config.cpp:22`)
   catches exceptions of `parse()` and ignores that it returns false, which is how a
   syntax error shows; the file is loaded as far as it was read.
6. `ClearedStaysCleared` (SubscriberNormal): the alive detection may clear a
   connection whose reader is in the middle of a subscription
   (`subscriber_acceptor.cpp:753-782`); record and subscribed mark are then left for
   good, and the record counts towards the limit of records until a client comes
   from the same address and port.
7. The writer of jsoncpp replaces the characters from U+DFFF
   to U+FFFF and changes those from U+40000 up (`json.cpp:4357`, `:4367`), so that a
   layer connector asks for a topic with such a character under another name.
   `LayerSubscribesWhatItAsked` says which names survive (`Kept`), and that others are
   not found.
8. `LossIsRetried` (SampleClients): the example subscriber leaves the descriptor of
   a lost connection open (`repeater_subscriber.cpp:137`), and so does a ping of the
   publisher that cannot be sent (`repeater_publisher.cpp:76`); in the end none is
   left to connect with.

One more came up and has no run of its own: `asInt64` checks a
double against its limits as doubles, and says itself that this may fail on edge
cases (`json.cpp:2545`): a number of which the double is the least int64, from
-2^63 - 1 down to -2^63 - 1024, is loaded as that instead of throwing. The only
setting read so is `tg_chat_id`. A number of more than about 309 digits is an error
of the parser, which `load_config_file` ignores (5.).

## 7. Plan

Done: the modules above. Next, in this order:

1. `ConnectionTable` in the subscriber role: the writing and detecting threads,
   which shut down or close a descriptor that may be another's by then; records
   and their limit for several connections.
2. A second subscription in event-loop mode.
3. A composition of Ingest and a subscriber connection with real sequences, in
   which an appended message is owed to every subscriber until its cursor passes it.
4. Byte offsets of a half-written frame.
5. Theorems about the example clients and the locks; topics with any character in
   `LayerCorrect`.
