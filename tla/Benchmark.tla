----------------------------- MODULE Benchmark -----------------------------
(***************************************************************************)
(* shard_benchmark (src/src/bin/shard_benchmark.rs) against the broker.    *)
(* Per channel there is a subscriber thread and a publisher thread; all    *)
(* meet main at a barrier, then the publisher sends in batches and waits   *)
(* after each one for the subscriber's signal, "to prevent broker queue    *)
(* overflow".                                                              *)
(*                                                                         *)
(* The messages of a channel are all alike, so they are counted.  Between  *)
(* publisher and subscriber lies the broker: messages it has not handled   *)
(* yet, and the outbound queue of the subscriber (DropOldest).  A message  *)
(* published after the SUBACK reaches that queue (SubackIsBarrier).        *)
(***************************************************************************)
EXTENDS Server

CONSTANTS
    Channel,        \* 1..n, the most channels a command line asks for
    Capacity,       \* DEFAULT_CLIENT_QUEUE_CAPACITY
    BenchArgLists,  \* the command lines of the benchmark
    Breaking        \* peers that may lose their connection

VARIABLES
    main,       \* where main is
    config,     \* the BenchConfig
    sub, pub,   \* where the threads of each channel are
    left,       \* left[t]: what is left of the batch of thread t
    received,   \* received[c]: by the subscriber
    sent,       \* sent[c]: by the publisher
    signals,    \* signals[c]: what is in the sync_channel
    inflight,   \* inflight[c]: published, not yet pushed by a shard
    held,       \* held[c]: in the outbound queue of the subscriber
    lost,       \* lost[c]: evicted from it
    errors      \* error_count

benchVars == <<main, config, sub, pub, left, received, sent, signals, inflight,
               held, lost, errors>>
vars == <<serverVars, benchVars>>

ASSUME PeerAssumption == Peer = {"sub", "pub"} \X Channel

ASSUME CapacityAssumption == Capacity \in Nat

\* The fields of a BenchConfig are of type usize: that is what the defaults
\* are, and what parse().unwrap() yields or panics.
BenchConfig == [channels : Nat, messages_per_channel : Nat, batch_size : Nat]

ASSUME BenchConfigAssumption ==
    /\ BenchDefault \in BenchConfig
    /\ \A a \in BenchArgLists : BenchArgs(a) \in BenchConfig \cup {Panic}

Sub(c) == <<"sub", c>>
Pub(c) == <<"pub", c>>

Q == INSTANCE DropOldest WITH pushed <- sent, taken <- received

Lesser(m, n) == IF m <= n THEN m ELSE n

Zero == [c \in Channel |-> 0]

BenchInit ==
    /\ ServerInit
    /\ main = "args"
    /\ config = BenchDefault
    /\ sub = [c \in Channel |-> "none"]
    /\ pub = [c \in Channel |-> "none"]
    /\ left = [t \in Peer |-> 0]
    /\ received = Zero /\ sent = Zero /\ signals = Zero
    /\ inflight = Zero /\ held = Zero /\ lost = Zero
    /\ errors = 0

Channels == {c \in Channel : c <= config.channels}

-----------------------------------------------------------------------------
(* main, up to the barrier *)

\* the broker has been started first, with or without success
ParseArgs ==
    /\ main = "args" /\ server \in {"accepting", "exited"}
    /\ \E a \in BenchArgLists :
         IF BenchArgs(a) = Panic
         THEN main' = "panicked" /\ UNCHANGED config
         ELSE main' = "setup" /\ config' = BenchArgs(a)
    /\ UNCHANGED <<serverVars, sub, pub, left, received, sent, signals, inflight,
                   held, lost, errors>>

Setup ==
    /\ main = "setup"
    /\ sub' = [c \in Channel |-> IF c \in Channels THEN "start" ELSE "none"]
    /\ pub' = [c \in Channel |-> IF c \in Channels THEN "start" ELSE "none"]
    /\ main' = "barrier"
    /\ UNCHANGED <<serverVars, config, left, received, sent, signals, inflight,
                   held, lost, errors>>

-----------------------------------------------------------------------------
(* connect_to_broker, SUBSCRIBE *)

\* TcpStream::connect and CONNECT: the connection waits to be accepted, if
\* anybody listens
Open(t) ==
    /\ conn[t] = "idle"
    /\ conn' = [conn EXCEPT ![t] = IF server = "accepting" THEN "queued" ELSE "closed"]
    /\ UNCHANGED <<args, server, id, counter>>

\* the broker answers once it serves the connection; a closed one is an error
Answered(t) == conn[t] = "serving"
Refused(t) == conn[t] = "closed"

SubStep(c, from, to) ==
    /\ sub[c] = from
    /\ sub' = [sub EXCEPT ![c] = to]

PubStep(c, from, to) ==
    /\ pub[c] = from
    /\ pub' = [pub EXCEPT ![c] = to]

SubConnect(c) ==
    /\ \/ SubStep(c, "start", "connack") /\ Open(Sub(c)) /\ UNCHANGED errors
       \/ /\ SubStep(c, "connack", "suback") /\ Answered(Sub(c))
          /\ UNCHANGED <<serverVars, errors>>
       \/ SubStep(c, "suback", "barrier") /\ UNCHANGED <<serverVars, errors>>
       \/ /\ SubStep(c, "connack", "failed") /\ Refused(Sub(c))
          /\ errors' = errors + 1
          /\ UNCHANGED serverVars
    /\ UNCHANGED <<main, config, pub, left, received, sent, signals, inflight, held, lost>>

PubConnect(c) ==
    /\ \/ PubStep(c, "start", "connack") /\ Open(Pub(c)) /\ UNCHANGED errors
       \/ /\ PubStep(c, "connack", "barrier") /\ Answered(Pub(c))
          /\ UNCHANGED <<serverVars, errors>>
       \/ /\ PubStep(c, "connack", "failed") /\ Refused(Pub(c))
          /\ errors' = errors + 1
          /\ UNCHANGED serverVars
    /\ UNCHANGED <<main, config, sub, left, received, sent, signals, inflight, held, lost>>

\* what a thread still has to do of n messages, at most a batch at a time
Batch(n) == Lesser(config.batch_size, config.messages_per_channel - n)

\* the condition of both loops, in front of a batch; DISCONNECT when it fails
WhileLess(n, body) == IF n < config.messages_per_channel THEN body ELSE "done"

\* Barrier::new(channels * 2 + 1): all are there, all go on.  A publisher
\* thread then returns its stream to main.
Release ==
    /\ main = "barrier"
    /\ \A c \in Channels : sub[c] = "barrier" /\ pub[c] = "barrier"
    /\ main' = "spawning"
    /\ sub' = [c \in Channel |-> IF c \in Channels THEN WhileLess(0, "receiving") ELSE "none"]
    /\ pub' = [c \in Channel |-> IF c \in Channels THEN "returned" ELSE "none"]
    /\ left' = [t \in Peer |-> Batch(0)]
    /\ UNCHANGED <<serverVars, config, received, sent, signals, inflight, held,
                   lost, errors>>

-----------------------------------------------------------------------------
(* main, from the barrier on *)

\* join of a publisher thread; the one that has its stream is spawned again
SpawnPublisher(c) ==
    /\ main = "spawning"
    /\ PubStep(c, "returned", WhileLess(0, "sending"))
    /\ UNCHANGED <<serverVars, main, config, sub, left, received, sent, signals,
                   inflight, held, lost, errors>>

PubOver(c) == pub[c] \in {"done", "failed", "panicked", "none"}
SubOver(c) == sub[c] \in {"done", "failed", "panicked", "none"}

\* the joins, one list after the other, and the report
MainStep(from, to) ==
    /\ main = from /\ main' = to
    /\ UNCHANGED <<serverVars, config, sub, pub, left, received, sent, signals,
                   inflight, held, lost, errors>>

JoinAll ==
    \/ (\A c \in Channel : pub[c] # "returned") /\ MainStep("spawning", "join_pubs")
    \/ (\A c \in Channel : PubOver(c)) /\ MainStep("join_pubs", "join_subs")
    \/ (\A c \in Channel : SubOver(c)) /\ MainStep("join_subs", "reported")

-----------------------------------------------------------------------------
(* The loops of a channel *)

PublishOne(c) ==
    /\ pub[c] = "sending"
    /\ left[Pub(c)] > 0
    /\ left' = [left EXCEPT ![Pub(c)] = @ - 1]
    /\ sent' = [sent EXCEPT ![c] = @ + 1]
    /\ inflight' = [inflight EXCEPT ![c] = @ + 1]
    /\ UNCHANGED <<serverVars, main, config, sub, pub, received, signals, held, lost, errors>>

\* Mutant of AwaitSignal: the publisher does not wait for the subscriber.
AwaitSignalNot(c) ==
    /\ left[Pub(c)] = 0
    /\ PubStep(c, "sending", WhileLess(sent[c], "sending"))
    /\ left' = [left EXCEPT ![Pub(c)] = Batch(sent[c])]
    /\ UNCHANGED <<serverVars, main, config, sub, received, sent, signals, inflight,
                   held, lost, errors>>

\* Mutant of AwaitSignal: another clone of tx lives on, recv never fails.
AwaitSignalOnly(c) ==
    /\ left[Pub(c)] = 0
    /\ signals[c] > 0 /\ signals' = [signals EXCEPT ![c] = @ - 1]
    /\ PubStep(c, "sending", WhileLess(sent[c], "sending"))
    /\ left' = [left EXCEPT ![Pub(c)] = Batch(sent[c])]
    /\ UNCHANGED <<serverVars, main, config, sub, received, sent, inflight,
                   held, lost, errors>>

\* rx.recv: a signal, or an error once the subscriber thread has ended; then
\* the next batch or DISCONNECT
AwaitSignal(c) ==
    /\ left[Pub(c)] = 0
    /\ \/ signals[c] > 0 /\ signals' = [signals EXCEPT ![c] = @ - 1]
       \/ signals[c] = 0 /\ SubOver(c) /\ UNCHANGED signals
    /\ PubStep(c, "sending", WhileLess(sent[c], "sending"))
    /\ left' = [left EXCEPT ![Pub(c)] = Batch(sent[c])]
    /\ UNCHANGED <<serverVars, main, config, sub, received, sent, inflight,
                   held, lost, errors>>

\* a shard pushes the message onto the subscriber's queue, or finds nobody
Relay(c) ==
    /\ inflight[c] > 0
    /\ inflight' = [inflight EXCEPT ![c] = @ - 1]
    /\ IF SubOver(c)
       THEN UNCHANGED <<held, lost>>
       ELSE /\ held' = [held EXCEPT ![c] = Q!AfterPush(@)]
            /\ lost' = [lost EXCEPT ![c] = @ + (IF held'[c] = held[c] THEN 1 ELSE 0)]
    /\ UNCHANGED <<serverVars, main, config, sub, pub, left, received, sent, signals, errors>>

ReceiveOne(c) ==
    /\ sub[c] = "receiving"
    /\ left[Sub(c)] > 0 /\ held[c] > 0
    /\ left' = [left EXCEPT ![Sub(c)] = @ - 1]
    /\ held' = [held EXCEPT ![c] = @ - 1]
    /\ received' = [received EXCEPT ![c] = @ + 1]
    /\ UNCHANGED <<serverVars, main, config, sub, pub, sent, signals, inflight, lost, errors>>

\* tx.send on a sync_channel(1): waits while it is full, fails once the
\* publisher thread has ended; then the next batch or DISCONNECT
SendSignal(c) ==
    /\ left[Sub(c)] = 0
    /\ \/ signals[c] < 1 /\ ~ PubOver(c) /\ signals' = [signals EXCEPT ![c] = @ + 1]
       \/ PubOver(c) /\ UNCHANGED signals
    /\ SubStep(c, "receiving", WhileLess(received[c], "receiving"))
    /\ left' = [left EXCEPT ![Sub(c)] = Batch(received[c])]
    /\ UNCHANGED <<serverVars, main, config, pub, received, sent, inflight,
                   held, lost, errors>>

\* a connection breaks: an unwrap panics, in the SUBSCRIBE of a subscriber
\* thread, which then never comes to the barrier, or in the loop of a thread
Break(c) ==
    /\ \/ /\ Sub(c) \in Breaking
          /\ SubStep(c, "suback", "panicked") \/ SubStep(c, "receiving", "panicked")
          /\ UNCHANGED pub
       \/ Pub(c) \in Breaking /\ PubStep(c, "sending", "panicked") /\ UNCHANGED sub
    /\ UNCHANGED <<serverVars, main, config, left, received, sent, signals,
                   inflight, held, lost, errors>>

-----------------------------------------------------------------------------
SubThread(c) == SubConnect(c) \/ ReceiveOne(c) \/ SendSignal(c)
PubThread(c) == PubConnect(c) \/ PublishOne(c) \/ AwaitSignal(c)
MainThread == ParseArgs \/ Setup \/ Release \/ (\E c \in Channel : SpawnPublisher(c)) \/ JoinAll
ServerStep == ServerNext /\ UNCHANGED benchVars

Next ==
    \/ ServerStep
    \/ MainThread
    \/ \E c \in Channel : SubThread(c) \/ PubThread(c) \/ Relay(c) \/ Break(c)

\* threads are scheduled, the accept loop too; nothing has to break
Fairness ==
    /\ WF_vars((StartShards \/ Bind) /\ UNCHANGED benchVars)
    /\ WF_vars(MainThread)
    /\ \A t \in Peer : WF_vars((AcceptStep(t) \/ HandlerStep(t)) /\ UNCHANGED benchVars)
    /\ \A c \in Channel : /\ WF_vars(SubThread(c))
                          /\ WF_vars(PubThread(c))
                          /\ WF_vars(Relay(c))

Spec == BenchInit /\ [][Next]_vars /\ Fairness

-----------------------------------------------------------------------------
(* Properties *)

\* "backpressured batching to avoid hitting the broker's 128-message queue
\* drop-oldest limit, preventing message loss" (head of shard_benchmark.rs): a
\* batch no larger than the queue is never evicted from, whatever the speeds
\* of publisher, shard and subscriber.
NoLoss ==
    config.batch_size <= Capacity =>
        \A c \in Channel : sub[c] # "panicked" => lost[c] = 0

\* The run ends once all threads have come to the barrier and as long as no
\* publisher dies: no order of sends, signals and joins makes the threads wait
\* for each other for ever, not even when a subscriber dies half-way.
Finishes ==
    main = "setup" ~>
        \/ main = "reported"
        \/ errors > 0
        \/ main = "barrier" /\ \E c \in Channel : sub[c] = "panicked"
        \/ \E c \in Channel : pub[c] = "panicked"

\* "WARNING: {} connection errors occurred." (main, after the joins): when a
\* connection cannot be made the benchmark goes on and reports it.
ErrorsAreReported == errors > 0 ~> main = "reported"
=============================================================================
