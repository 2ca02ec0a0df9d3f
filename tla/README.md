# BlitzBroker in TLA+

Specifications, model-checking runs and machine-checked proofs for BlitzBroker, an
MQTT 3.1.1 broker in std-only Rust. Source paths are relative to the repository
(`src/broker.rs` and so on); `PROJECT.json` maps every definition to its lines.

## 1. The system

```
client bytes -> reader thread -> BrokerMessage -> shard threads -> OutboundEvent
                (decode,          (mpsc, one      (run_broker)      |
                 dispatch)         per shard)                       v
client bytes <- writer thread <----------------------- bounded drop-oldest queue
```

| Component | State | Operations | Interacts by |
|---|---|---|---|
| outbound queue (`queue.rs`) | `items` deque behind a mutex, `closed` flag behind another, a condition variable | `push`, `pop_blocking`, `close` | shared between the connection's reader, all shards (producers) and its writer |
| connection writer (`writer_loop`) | none | pop, encode, write | drains the queue into the socket; ends on a write error or on closed-and-empty |
| connection reader (`reader_loop`, `dispatch_packet`) | `buf` | read, decode, dispatch, tear down | sends to the shards, pushes answers to its own queue, closes it, joins the writer |
| router (`ShardedBroker::send`) | none | hash to one shard, or N sends | one mpsc channel per shard |
| broker shard (`run_broker`) | `clients`, `topics`, `retained` | Register, Subscribe, Unsubscribe, Publish, Disconnect | pushes to any client's queue |
| codec (`protocol.rs`) | none | remaining length, packet bodies, filters, matching | called by reader, writer and shards |
| start-up and accept loop (`main.rs`) | `NEXT_CONNECTION_ID` | parse arguments, spawn shards, bind, accept, spawn a thread per connection | the connection threads share the counter |
| `blitzclient` | where the process is | parse arguments, CONNECT, PUBLISH or SUBSCRIBE, wait for the answers, print | over TCP, with a codec of its own |
| `shard_benchmark` | per channel two threads, a barrier, a channel for one signal | connect, meet at the barrier, publish and receive in batches, join | over TCP, with a copy of that codec |
| errors, logging | none | formatting | - |

What is hard here. The threads share nothing but channels and queues, so everything
depends on the order in which sends, pushes and wakeups happen: a broadcast is N
separate sends; acknowledgements are pushed by the reader before any shard has acted;
exact and wildcard filters are served by different passes, on different shards;
replay and live delivery of retained messages meet in one subscriber; the condition
variable is used with two mutexes; the queue is bounded and lossy, and acknowledgements
share it with messages; TCP fragments, breaks, and blocks the writer when a peer does not
read. The three programs carry separate codecs of one format. There is no persistence, no
retry and no timer, hence no crash recovery to model. The hazards are listed line by line
in `PROJECT.json`.

What makes each part correct:

* queue: bounded, FIFO, loses only what overflow forces, never strands an event or its
  consumer, flushes on close; to its users, a plain drop-oldest buffer;
* shards and router: at most one live copy per subscriber, one order per topic, SUBACK and
  UNSUBACK mean what they say, no gap between replay and fan-out, a connection that ends
  leaves nothing behind;
* codec: what one program encodes the others decode; the length field round-trips and never
  mistakes a prefix for an error; a body cut or altered anywhere is read as what its bytes say or
  refused; what is accepted can be forwarded; chunking is invisible; matching is the
  relation of section 4.7.1 of the standard;
* the whole: what is published reaches the terminal of a listening `sub`, once and in order;
  nobody waits for ever, whatever another client does; whoever ends is forgotten;
* benchmark: batches that fit the queue lose nothing, and its threads reach the end.

## 2. Modules

| Module | Models | Granularity |
|---|---|---|
| `DropOldest` | the abstract outbound queue: push never blocks, evicts the oldest | one push, one pop |
| `OutboundQueue` | `queue.rs`, `writer_loop`, the close and join of a connection | one critical section, one condvar operation, one access to `closed` |
| `TopicFilter`, `TopicMatch` | filter validation, `is_wildcard_filter`, the loop of `topic_matches_filter` | one loop iteration |
| `RemainingLength` | encoder and decoder of the length field | one byte |
| `PacketCodec` | encoders and decoders of every packet of `protocol.rs` | operators on bytes |
| `ClientCodec` | encoders and decoders of `blitzclient.rs` | operators on bytes |
| `Codec` | one frame, encoded by one program, perhaps altered, decoded by another | encode, one byte of length at a time, decode |
| `Framing` | the buffering of `reader_loop` over `decode` | one read, one decode |
| `Broker` | `run_broker`, `ShardedBroker::send`, `dispatch_packet` | one channel send, one receipt, one push |
| `BrokerDelivery` | `Broker` with history variables: what each publish owes to whom | as `Broker` |
| `CommandLine` | the argument parsers of the three programs | a fold, or a recursive function, over the arguments |
| `Server` | `main.rs`, `next_connection_id`, the start of `handle_connection` | one accept, one fetch_add |
| `BlitzClient` | `pub` and `sub` processes, composed with `Broker`, queue, writer and socket | one packet written, read or printed |
| `Benchmark` | the threads of `shard_benchmark`, composed with `Server` and the queue | one message, one signal, one join |
| `MC*` | instances for TLC | |
| `*Proofs` | theorems and proofs about the module of that name; `BrokerProofs` and `BrokerBarrierProofs` also about `BrokerDelivery`, `BenchmarkProofs` about `Server` and `CommandLine`, `CodecProofs` about the three codec modules | |

```
TopicFilter <- TopicMatch          DropOldest <= OutboundQueue (implements)
      ^                                 ^   ^
      |  (matching relation)            |   +------------- Benchmark -> Server -> CommandLine
   MCBroker -> Broker <- BlitzClient ---+--------------------------------------> CommandLine
                 ^
           BrokerDelivery          Codec -> RemainingLength, PacketCodec, ClientCodec
```

**OutboundQueue.** An event is its serial number in push order. `push` is two steps
(`Push`: lock, evict, append, unlock; `NotifyOne`), `pop_blocking` is `PopItem`,
`PopClosed` or `PopPark` then `Wait`; between the last two the consumer holds the
items mutex, which keeps producers out (`ItemsMutexFree`) but not `close`, which takes only
the other mutex. `close` is `CloseSet`, `CloseNotify`. `SpuriousWakeup` and
`Woken` are the standard library's condition variable. `ImplementsDropOldest` maps it to
`DropOldest`; the modules that compose queues with other parts use that module's operators.

**Broker.** `inbox[s]` is the channel of shard s, `topics[s][f][c]` how often
connection c is in the `Vec` of filter f (the code's `contains` check keeps it
at one), `retained[s]` the values of the retained map. Receiving a message and updating
the maps is one step, since nobody else sees the maps; each push that follows is a
step of its own, kept in `job[s]`, in any order where the code iterates a `HashMap` (and
in any order within a `Vec`, which no property depends on). A reader
that has decoded a packet holds the messages still to send (`sending`, `next`) and
the answer to push after them (`ack`). `outbound[c]` logs every push for c: the
bounded queue behind it is `OutboundQueue`. `Script` says which packets a client may
send as its n-th; the proofs are for every script. The payload is reduced to "empty or
not"; `from` and `n` identify a publish. `HANGUP` stands for each way `reader_loop` can end.
The hash, the set of filters and the matching relation are parameters; `MCBroker` takes
the relation from `TopicFilter`, which `TopicMatchProofs` shows is what the code computes.

**BrokerDelivery.** `firm[c]` are the filters c has a SUBACK for, `possible[c]` those it may
still be subscribed to, `owed` and `barred` what follows for each publish at the moment its
reader takes it. The histories do not restrict any action.

**Framing.** The body decoders of CONNECT, PUBLISH, SUBSCRIBE and UNSUBSCRIBE are the
parameter `BodyOk`; everything else `decode` looks at is modelled on bytes. The bodies
themselves are `PacketCodec`'s.

**PacketCodec, ClientCodec, Codec.** A frame is its first byte and its body; the length between
them travels as in `RemainingLength`. Decoders keep the code's order of checks, so that
each refusal is the one of the code. UTF-8 validation and the validation of filters are
parameters (`TopicFilter` has the latter). In `Codec` a frame comes from `blitzclient`, from
`shard_benchmark`, from the broker, or from another client, whose frames are also truncated,
extended, and altered in any one byte and in the flags.

**BlitzClient.** The connections in `Client` are `blitzclient` processes. `proc[c]` is the read at
which the process waits; every action is what it does from one `read_packet` to the next,
the packets it writes included. `wrote[c]` counts these packets: the reader of the broker may be
as far behind as it likes. `Transport` sends every push of a `Broker` step through a bounded
queue; `WriterStep` moves the oldest event to a socket of `SocketBuffer` events. `Reset`
breaks a connection in both directions, `Interrupt` is Ctrl+C. Connections outside of `Client` are
other programs that send and never read. `due` is a history: which `sub` was listening when a `pub`
published.

**Server, Benchmark.** `Server` has the accept loop as one thread and a thread per connection until its
reader and writer run; `Benchmark` continues from there. Messages of a channel are alike, so they are
counted: `inflight` before a shard has handled them, `held` in the subscriber's queue, `received`.
That a message published after the barrier reaches the subscriber's queue at all is
`SubackIsBarrier` of `BrokerDelivery`.

## 3. Runs

| Run | Checks | Bounds |
|---|---|---|
| `queue` | type and bound, newest-without-gap, FIFO, loss only by overflow, no lost push, flush before exit; it implements `DropOldest`; every event leaves the deque | 3 producers, capacity 2, 5 pushes: the queue overflows and drains more than once |
| `queue_close_wakes` | **violated**: a closed queue wakes its writer | 3 pushes |
| `topic_match` | the loop is the matching relation, also through both passes; it ends | up to 3 levels, empty levels and mixed levels included |
| `codec` | round trip between every pair of codecs and on every prefix of the length field, no misreading of altered frames, what is accepted is well formed and can be forwarded | lengths 0..300 and around every size boundary, the first that does not fit included; all packet types with short strings; 11 noise bytes |
| `framing` | chunking is irrelevant, nothing complete waits, errors are final | all streams up to 5 bytes over 6 byte values and longer ones with 2-, 4- and 5-byte fields; chunks of 1 to 4 |
| `broker` | registry well formed, at most once, one order for all subscribers, publisher's order, retained value reaches every subscriber, no residue, known before subscribed, SUBACK and UNSUBACK are barriers, no push after cleanup | 2 shards; subscribers with overlapping filters and a publisher that publishes twice, or two publishers to one topic; or two clients that come and go |
| `retain_flag` | **violated**: retain marks replays | as `broker` |
| `granted_qos` | **violated**: delivery at the granted QoS 0 | as `broker` |
| `client` | printed once and in order; nobody waits for ever; what is published is printed; whoever ends is forgotten | 1 shard, queues of 2, sockets of 1; four sets of programs |
| `client_replay` | **violated**: a `sub` loops until interrupted | as `client`, no faults |
| `bench` | last valid option wins and there is a shard; unique ids; no loss; the benchmark ends | 2 channels, no, 3 or 4 messages, batches up to 2, queue of 2; broker command lines of up to 4 arguments |
| `bench_barrier` | **violated**: connection errors are reported | 1 channel |

Why the bounds are enough. Two shards are enough to have a broadcast interrupted and topics on
different shards; two topics, the filters `a`, `b`, `+` and `a/#` give every combination of exact,
wildcard and overlapping subscriptions. `broker` explores three groups of clients in separate
behaviours (`MCDelivery`), which share all invariants: {c1, c3} for duplicates under overlapping
filters, dropping one of them, and the order of one publisher; {c2, c8, c6, c7} for the order in which
two subscribers, through a wildcard and the topic itself, see two publishers of one topic; {c4, c5}
for registration, retained messages, unsubscribing and leaving. `client` has one shard, since what crosses shards is the subject of `broker`; a queue of 2
and a socket of 1 overflow with the three or four events a client can be sent. Its
sets of programs (`MCTogether`) are a `sub` and a `pub` beside a subscriber that does not
read; a `sub` against a program that publishes a retained and a live message, so that replay and
fan-out race SUBACK and evict from the queue; and a `sub` whose connection breaks, or whose user
interrupts it, against either publisher. The command lines of `client` are the options in
every order. In `bench` a batch fills the queue exactly, the last batch is a short one, and each kind
of peer may be refused or break.

Deadlock checking is off: scripts end, clients may stay silent, processes and the benchmark finish.

Fairness. Shard threads, readers in the middle of a packet or with something to read, writers, a
producer about to notify, the closing reader, the accept loop, `blitzclient` processes and the threads
of the benchmark are runnable threads, so they are weakly fair. Nobody is obliged to send, to
close, to wake spuriously, to interrupt or to break a connection. A writer whose socket is full is not
enabled until its peer reads; `queue`, which has no socket, says "if the socket does not block for
ever" (`PeerReads`). `Finishes` leaves out what the code does not promise: the end of a benchmark whose
publisher died, and of one with a thread that does not come to the barrier, because it could not connect
(finding 5) or panicked in its SUBSCRIBE.

Five statements of the repository do not hold, each shown by a run of its own:

1. `close` does not always wake the writer (`queue.rs:83`, `README.md:241`). It sets the flag
   and notifies without the items mutex, so it can run wholly between the consumer's check and
   its wait. The writer, and the connection thread in `join`, then stay until some
   later push or a spurious wakeup. Setting the flag under the items mutex closes the window.
2. `retain=true` does not distinguish a replay from a live message (`broker.rs:187`): fan-out
   leaves the publisher's flag in place.
3. Delivery is not at QoS 0 (`README.md:180`): QoS 1 publishes are forwarded at QoS 1.
4. `blitzclient sub` does not always loop (`README.md:168`): it takes the first packet after
   SUBSCRIBE for the SUBACK and gives up on a retained replay, or a live message, that a fast shard
   pushed before it. `NobodyWaits` in `client` shows that giving up is at least not hanging.
5. A benchmark thread that cannot connect returns without coming to the barrier that counts it, so
   main waits for ever and the warning about connection errors (`shard_benchmark.rs:331`) is never
   printed.

## 4. Proofs

Checked by TLAPS, for every value of the constants that satisfies the modules' assumptions:
any number of shards, connections, topics, filters, any hash, any scripts, any queue capacity,
any stream of bytes, any packet and any command line. Every safety property that a passing run
checks is stated by a theorem. Every inductive invariant of the broker, the queue and the benchmark was first checked by TLC on the
instance of the run.

* `OutboundQueueProofs`: type and bound, `ItemsAreNewest`, `TakenInOrder`,
  `OnlyOverflowLost`, `NoLostPush`, `FlushBeforeExit`, for any capacity above zero and any set of
  producers. The invariant `QInv` adds `Control`: while the writer is parking the deque is empty
  (the mutex keeps producers out), which is why a wait can only begin beside an empty deque;
  the flag follows the closing reader; a writer that has exited saw the flag set and the
  deque empty. From it, the refinement `Spec => ImplementsDropOldest`: a `Push` is a push, a
  `PopItem` a pop, everything else a stuttering step of `DropOldest`.
* `TopicMatchProofs`: the loop decides the matching relation for topics and filters of any
  length. Invariant: the indices are equal, every level before them matches, and no
  level before them is `#`.
* `CodecProofs`, for every packet and every sequence of bytes:
  * The length field: round trip, shortest form, no overflow, for every natural number. The
    invariant `RInv` ties the encoder's rest and output to the length byte by byte for fields of up
    to four bytes, and the decoder's value to the bytes consumed. `CodecImplementsRemainingLength`
    carries this to the frames of `Codec`.
  * `NothingMisread`, `AcceptedIsWellFormed`, `ForwardedIsReadable`, `CodecsAgree`. The invariant
    `CodecInv` says that what is on the wire is a frame and that what was received is what the other
    side decodes from it; what is left is about the operators. `DecodeAccepts`: a packet that
    `decode` returns for a frame, whichever, is well formed and `encode` gives these bytes back.
    `ClientReads`, `BenchReads`, `BrokerSends`: what one side encodes, the other decodes.
    `HeaderInv` adds that the bytes of the length field so far are those of `blitzclient`'s
    encoder (`SameBytes`); `ReadsTheSame`: its decoder answers as the broker's on every prefix.
  * The loops (the lists of SUBSCRIBE and UNSUBSCRIBE, the flattening of their encoders,
    `blitzclient`'s length field) are recursive functions. The library states recursion and
    induction for an operator, which the provers cannot instantiate; here the turn of a loop is a
    function and the property shown of every turn a set (`LeastNatural` and the lemmas on
    recursion after it). Each loop is solved by building a solution from shorter inputs to longer ones.
  * `CodecAssumption` is about what is sent: strings fit their length field, which is where both
    encoders cut them off (`encode_utf8_string`), and a client sends filters and topics that the
    decoder accepts. Of other clients it asks only that their packets encode to bytes, which may
    then be altered as `Variants` says. UTF-8 and filter validation are arbitrary predicates, except
    that "MQTT" is UTF-8. TLC evaluates the assumption on the packets of the run.
* `FramingProofs`: type correctness, `ChunkingIrrelevant`, `NothingStranded`, `ErrorsAreFinal`, for
  all streams, all chunk sizes and whatever the body decoders accept. The lemma that carries them is
  `DecodeStable`: an answer of `decode` other than Incomplete stays when bytes are added. The invariant
  `FInv` says that `buf` is the window of the stream between `drained` and `received`, and that
  for every m from `received` on, the packets in the first m bytes are those dispatched and
  those still to be found from `drained` on; m is the length of the stream for
  `ChunkingIrrelevant`, `received` for `NothingStranded`. The reference `PacketsFrom` is a recursive
  function; that it satisfies its equation is proved by building a solution from the end of the stream to
  its start, with the least-element principle on sets of naturals.
* `BrokerProofs`, one invariant on top of the other:
  * `LInv`, for type correctness, `NoResidue` and `NoPushAfterCleanup`. `NoResidue` is not inductive by
    itself. `LInv` adds `Leaving` (a reader that is closing has at most its Disconnect
    left to send, and no answer), `DisconnectLast` (in the channel of a shard that has been sent the
    Disconnect, every other message of the connection has a later one behind it, so the Disconnect
    comes last) and `ReplayToClient` (a replay under way goes to a client the shard knows), so that
    handling the Disconnect removes the last trace and no running job can name the connection.
  * `OInv`, for `AtMostOnce`, `PublisherOrder` and `SameTopicOrder`. It follows a publish from its reader
    (`Numbering`) to the channel and the fan-out of its one shard (`ShardOrder`) and to the
    subscribers (`Deliveries`). `FanOutMemory` says what the `notified` list is for: whoever has
    the packet of a fan-out is in it, and has got nothing from this shard since.
  * `KInv`, for `KnownBeforeSubscribed`: a client that sends CONNECT first is announced to each shard
    before any Subscribe of it is in the shard's channel (`Introduced`), and nothing of a
    connection follows its Disconnect (`DisconnectFinal`).
  * `RInv`, for `RetainedReachesAll`: at every step, a subscriber has the retained packet, or
    the replay or fan-out that its shard is in the middle of will still push it
    (`RetainedOrPending`); the property, which speaks of idle shards, is what is left of that at
    their end.
* `BrokerBarrierProofs`: `SubackIsBarrier` and `UnsubackIsBarrier`, for `BrokerDelivery`. SUBACK is pushed
  when the requests are in the channels, not when they are handled, so the invariant `DInv`
  cannot speak of the registries alone. `On(s, i, c, f)` says that c will be subscribed to f when shard s comes to
  the i-th message of its channel. `Subscriptions`: a firm filter is on at the end of
  every channel it concerns, an impossible one is off. A publish enters its channel at the end;
  handling a message moves every position by one and keeps what is on (`OnHandle`), so
  when the publish is fanned out the registry has the subscription, or has not
  (`OwedArrives`, `BarredStaysAway`).
* `BlitzClientProofs`, end to end, for any number of processes and any sizes of queues and sockets:
  * `ClientImplementsBroker`: a step of a process, a writer or a socket does not touch the broker, and
    every other step is one of `Broker`, so that all of the above holds of the composed system.
  * `PrintsOnceInOrder`. `PublisherOrder` of `Broker` is about live messages; what is printed includes replays, and
    a client that subscribed twice could be replayed a message older than one it has. So the invariant
    needs what is particular about `blitzclient`. `SInv`: a retained packet is `Settled`, what its publisher still has under
    way to its shard is newer. `PInv`: a shard gets one Subscribe of a `blitzclient`
    (`SubscribesOnce`), has done nothing for it before (`FirstContact`), and has yet to replay
    only topics the client has got nothing of (`ReplayFirst`); hence `ClientOrder`. `TInv`: what is in
    the socket and on the terminal has left the queue, in the order it was pushed, whatever was evicted
    and whichever connection broke.
* `BenchmarkProofs`:
  * `UniqueIds` (ids stay below the counter) and `NoLoss`. The invariant `BenchInv`: while a
    subscriber receives, what was sent and not received lies between the two threads
    and is no more than a batch, since both are in the same batch or the signal for the one
    that has been received waits for the publisher (`InStep`). It rests on the
    assumption that the fields of a `BenchConfig` are natural numbers, which is their type (`usize`);
    TLC evaluates it on the command lines of the run.
  * `ConfigIsLastValid`, for every command line of strings: after n arguments each option has the value
    of the last flag among them that was given a valid one (`ConfigIsBest`), by
    induction on n over the function that models the loop. `ServerAssumption`: the values of numbers are
    naturals and the default number of shards is one of them and not zero.

Only model-checked: liveness (`EventLeaves`, `Terminates`, `NobodyWaits`, `PublishIsPrinted`, `EndedIsForgotten`,
`Finishes`), since fairness and `ENABLED` are outside the prover's reach. The safety part of each is
proved: `NoLostPush` for `EventLeaves`, `SubackIsBarrier` for `PublishIsPrinted`, `NoResidue` for
`EndedIsForgotten`, `NoLoss` for `Finishes`. The five violated statements are shown by counterexamples.

## 5. Not modelled

* Error texts, logging and timestamps (`error.rs` and the prints): no state. The variants of
  `ProtocolError` are results of `PacketCodec` and `Framing`.
* Times and throughput in `shard_benchmark`; its read side, a copy of `blitzclient`'s.
* A `blitzclient` that cannot open its connection: it exits before it has any effect.
* A send to a shard that has exited (shards live as long as the process). Panics in the broker,
  other than the assertion on the number of shards.
* Reuse of connection ids (a 64-bit counter), and memory growth: the channels to the shards are
  unbounded and the keys of `topics` stay, by design.
* Section 4.7.2 of the standard, by which a filter that starts with a wildcard does not match a topic
  that starts with `$`: the code does not implement it, so `Matches` is the relation of 4.7.1.
* A peer that vanishes without a FIN or RST: nothing in the code looks at the keep alive or sets a
  timer, so its reader waits in `read`; `EndedIsForgotten` says nothing of it.
* The reassembly of packets in `blitzclient`'s `read_packet`, which reads exactly the length
  announced: `ClientCodec` gets whole frames.

## 6. State

Modelled: every component that keeps state. Proved: every safety property that the passing runs check.
When the code changes, the order of work is the run of the module concerned, then its invariants, then
its proofs: `BrokerProofs` carries `BrokerBarrierProofs` and `BlitzClientProofs`, the others stand alone.
What could be added:

1. A model of `close` with the flag set under the items mutex, once the code has it (finding 1): then
   `EventLeaves` could be joined by the statement that a closed queue wakes its writer.
2. `parse_args` of `blitzclient` for every command line, as for the broker; `client` checks the
   options in every order.
