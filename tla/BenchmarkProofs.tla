-------------------------- MODULE BenchmarkProofs --------------------------
(***************************************************************************)
(* The batches of shard_benchmark never overrun the queue of a subscriber, *)
(* and every connection of the broker has an id of its own: for any number *)
(* of channels and connections, any queue capacity and any configuration.  *)
(*                                                                         *)
(* The argument for the batches: while a subscriber receives, what was     *)
(* sent and not yet received lies between the two, and both threads are in *)
(* the same batch, or the publisher has sent all of a batch that has been  *)
(* received and acknowledged.  So never more than a batch is on its way.   *)
(***************************************************************************)
EXTENDS Benchmark, WellFoundedInduction, TLAPS

-----------------------------------------------------------------------------
(* Connection ids *)

\* Ids are handed out in increasing order, below NEXT_CONNECTION_ID.
IdInv ==
    /\ counter \in Nat
    /\ id \in [Peer -> Nat]
    /\ \A t \in Peer : id[t] < counter
    /\ UniqueIds

-----------------------------------------------------------------------------
(* Batches *)

\* main has not passed the barrier
Early == main \in {"args", "setup", "barrier", "panicked"}

BenchTypes ==
    /\ config \in BenchConfig
    /\ left \in [Peer -> Nat]
    /\ received \in [Channel -> Nat]
    /\ sent \in [Channel -> Nat]
    /\ signals \in [Channel -> Nat]
    /\ inflight \in [Channel -> Nat]
    /\ held \in [Channel -> Nat]
    /\ lost \in [Channel -> Nat]
    /\ sub \in [Channel -> {"none", "start", "connack", "suback", "barrier", "failed",
                            "receiving", "done", "panicked"}]
    /\ pub \in [Channel -> {"none", "start", "connack", "barrier", "failed", "returned",
                            "sending", "done", "panicked"}]

\* The loops have not begun; a subscriber may have died before them.
AtRest(c) ==
    /\ sub[c] \notin {"receiving", "done"}
    /\ pub[c] \notin {"returned", "sending", "done", "panicked"}
    /\ received[c] = 0 /\ sent[c] = 0 /\ signals[c] = 0
    /\ inflight[c] = 0 /\ held[c] = 0 /\ lost[c] = 0
    /\ left[Sub(c)] = 0 /\ left[Pub(c)] = 0

\* A thread has no more left than a batch, and no more than the messages it
\* has not dealt with.
Within(c) ==
    /\ left[Sub(c)] <= config.batch_size
    /\ left[Pub(c)] <= config.batch_size
    /\ received[c] + left[Sub(c)] <= config.messages_per_channel
    /\ sent[c] + left[Pub(c)] <= config.messages_per_channel

\* Both threads are in the same batch, or the signal for the one that has been
\* received waits for the publisher.
InStep(c) ==
    pub[c] \in {"returned", "sending"} =>
      \/ signals[c] = 0 /\ sent[c] + left[Pub(c)] = received[c] + left[Sub(c)]
      \/ /\ signals[c] = 1
         /\ sent[c] = received[c] /\ left[Pub(c)] = 0
         /\ left[Sub(c)] = Batch(received[c])

\* While the subscriber receives, nothing is lost and no more than a batch is
\* on its way.
OnItsWay(c) ==
    sub[c] = "receiving" =>
      /\ sent[c] = received[c] + inflight[c] + held[c]
      /\ inflight[c] + held[c] <= config.batch_size
      /\ InStep(c)

ChannelInv(c) ==
    /\ Early => AtRest(c)
    /\ ~ Early => sub[c] \in {"none", "receiving", "done", "panicked"}
    /\ Within(c)
    /\ config.batch_size <= Capacity =>
         (sub[c] # "panicked" => lost[c] = 0) /\ OnItsWay(c)

BenchInv == BenchTypes /\ \A c \in Channel : ChannelInv(c)

-----------------------------------------------------------------------------
(* Proofs about ids *)

LEMMA InitIds == BenchInit => IdInv
BY DEF BenchInit, ServerInit, IdInv, UniqueIds

LEMMA TakeIdIds == ASSUME IdInv, NEW t \in Peer, TakeId(t) PROVE IdInv'
<1>1. /\ id' = [id EXCEPT ![t] = counter]
      /\ counter' = counter + 1
    BY DEF TakeId, next_connection_id
<1>2. /\ id'[t] = counter
      /\ \A u \in Peer : u # t => id'[u] = id[u]
    BY <1>1 DEF IdInv
<1>3. counter' \in Nat /\ id' \in [Peer -> Nat]
    BY <1>1 DEF IdInv
<1>4. \A u \in Peer : id'[u] < counter'
    BY <1>1, <1>2 DEF IdInv
<1>5. \A u, v \in Peer : u # v /\ id'[u] # 0 => id'[u] # id'[v]
    BY <1>2 DEF IdInv, UniqueIds
<1>6. QED
    BY <1>3, <1>4, <1>5 DEF IdInv, UniqueIds

\* Nothing but TakeId touches the ids and their counter.
LEMMA NextIds == ASSUME IdInv, [Next]_vars PROVE IdInv'
<1>1. CASE \E t \in Peer : TakeId(t)
    BY <1>1, TakeIdIds
<1>2. CASE UNCHANGED <<id, counter>>
    BY <1>2 DEF IdInv, UniqueIds
<1>3. CASE ServerStep
    BY <1>3, <1>1, <1>2
       DEF ServerStep, ServerNext, StartShards, Bind, AcceptStep, HandlerStep, Accept,
           AcceptError, StartThreads
<1>4. CASE MainThread
    BY <1>4, <1>2
       DEF MainThread, ParseArgs, Setup, Release, SpawnPublisher, JoinAll, MainStep, serverVars
<1>5. ASSUME NEW c \in Channel, SubThread(c) \/ PubThread(c) PROVE IdInv'
    BY <1>5, <1>2
       DEF SubThread, PubThread, SubConnect, PubConnect, Open, ReceiveOne, SendSignal,
           PublishOne, AwaitSignal, serverVars
<1>6. ASSUME NEW c \in Channel, Relay(c) \/ Break(c) PROVE IdInv'
    BY <1>6, <1>2 DEF Relay, Break, serverVars
<1>7. CASE UNCHANGED vars
    BY <1>7, <1>2 DEF vars, serverVars
<1>8. QED
    BY <1>3, <1>4, <1>5, <1>6, <1>7 DEF Next

\* Every connection has an id of its own, whatever the connection threads, the
\* accept loop and the clients do: next_connection_id (connection.rs) hands
\* out each number once.
THEOREM ServerUniqueIds == Spec => []UniqueIds
<1>1. IdInv => UniqueIds
    BY DEF IdInv
<1>2. QED
    BY <1>1, InitIds, NextIds, PTL DEF Spec

-----------------------------------------------------------------------------
(* Proofs about batches *)

LEMMA BatchBounds ==
    ASSUME config \in BenchConfig, NEW n \in Nat, n <= config.messages_per_channel
    PROVE  /\ Batch(n) \in Nat
           /\ Batch(n) <= config.batch_size
           /\ n + Batch(n) <= config.messages_per_channel
BY DEF Batch, Lesser, BenchConfig

LEMMA Threads ==
    ASSUME NEW c \in Channel
    PROVE  Sub(c) \in Peer /\ Pub(c) \in Peer /\ Sub(c) # Pub(c)
BY PeerAssumption DEF Sub, Pub

LEMMA ThreadsDiffer ==
    ASSUME NEW c \in Channel, NEW d \in Channel, c # d
    PROVE  /\ Sub(c) # Sub(d) /\ Pub(c) # Pub(d)
           /\ Sub(c) # Pub(d) /\ Pub(c) # Sub(d)
BY DEF Sub, Pub

\* What the loops of one channel do is nothing to another.
LEMMA ChannelFrame ==
    ASSUME NEW d \in Channel, ChannelInv(d),
           main' = main, config' = config,
           sub'[d] = sub[d], pub'[d] = pub[d],
           left'[Sub(d)] = left[Sub(d)], left'[Pub(d)] = left[Pub(d)],
           received'[d] = received[d], sent'[d] = sent[d], signals'[d] = signals[d],
           inflight'[d] = inflight[d], held'[d] = held[d], lost'[d] = lost[d]
    PROVE  ChannelInv(d)'
BY DEF ChannelInv, Early, AtRest, Within, OnItsWay, InStep, Batch, Lesser, Sub, Pub

LEMMA InitBench == BenchInit => BenchInv
<1> SUFFICES ASSUME BenchInit PROVE BenchInv
    OBVIOUS
<1>1. BenchTypes
    BY BenchConfigAssumption DEF BenchInit, BenchTypes, Zero
<1>2. ASSUME NEW c \in Channel PROVE ChannelInv(c)
    <2>1. left[Sub(c)] = 0 /\ left[Pub(c)] = 0
        BY Threads DEF BenchInit
    <2>2. Early /\ AtRest(c) /\ sub[c] = "none" /\ pub[c] = "none" /\ lost[c] = 0
        BY <2>1 DEF BenchInit, Zero, Early, AtRest
    <2>3. Within(c)
        BY <2>1, BenchConfigAssumption DEF BenchInit, Within, Zero, BenchConfig
    <2>4. QED
        BY <2>2, <2>3 DEF ChannelInv, OnItsWay
<1>3. QED
    BY <1>1, <1>2 DEF BenchInv

LEMMA ParseArgsBench == ASSUME BenchInv, ParseArgs PROVE BenchInv'
<1>1. config' \in BenchConfig /\ main = "args" /\ main' \in {"panicked", "setup"}
    BY BenchConfigAssumption DEF ParseArgs, BenchInv, BenchTypes
<1>2. UNCHANGED <<sub, pub, left, received, sent, signals, inflight, held, lost>>
    BY DEF ParseArgs
<1>3. BenchTypes'
    BY <1>1, <1>2 DEF BenchInv, BenchTypes
<1>4. ASSUME NEW c \in Channel PROVE ChannelInv(c)'
    <2>1. Early /\ Early' /\ AtRest(c)
        BY <1>1 DEF Early, BenchInv, ChannelInv
    <2>2. AtRest(c)'
        BY <2>1, <1>2 DEF AtRest, Sub, Pub
    <2>3. Within(c)'
        BY <2>2, <1>1 DEF AtRest, Within, BenchConfig
    <2>4. QED
        BY <2>1, <2>2, <2>3 DEF ChannelInv, AtRest, OnItsWay
<1>5. QED
    BY <1>3, <1>4 DEF BenchInv

LEMMA SetupBench == ASSUME BenchInv, Setup PROVE BenchInv'
<1>1. main = "setup" /\ main' = "barrier" /\ config' = config
    BY DEF Setup
<1>2. /\ sub' \in [Channel -> {"start", "none"}]
      /\ pub' \in [Channel -> {"start", "none"}]
      /\ UNCHANGED <<left, received, sent, signals, inflight, held, lost>>
    BY DEF Setup
<1>3. BenchTypes'
    BY <1>1, <1>2 DEF BenchInv, BenchTypes
<1>4. ASSUME NEW c \in Channel PROVE ChannelInv(c)'
    <2>1. Early /\ Early' /\ AtRest(c) /\ Within(c)
        BY <1>1 DEF Early, BenchInv, ChannelInv
    <2>2. sub'[c] \in {"start", "none"} /\ pub'[c] \in {"start", "none"}
        BY <1>2
    <2>3. AtRest(c)'
        BY <2>1, <2>2, <1>2 DEF AtRest, Sub, Pub
    <2>4. Within(c)'
        BY <2>1, <1>1, <1>2 DEF Within, Sub, Pub
    <2>5. QED
        BY <2>1, <2>3, <2>4 DEF ChannelInv, AtRest, OnItsWay
<1>5. QED
    BY <1>3, <1>4 DEF BenchInv

LEMMA SubConnectBench == ASSUME BenchInv, NEW c \in Channel, SubConnect(c) PROVE BenchInv'
<1>1. UNCHANGED <<main, config, pub, left, received, sent, signals, inflight, held, lost>>
    BY DEF SubConnect
<1>2. PICK to \in {"connack", "suback", "barrier", "failed"} :
        sub[c] \in {"start", "connack", "suback"} /\ sub' = [sub EXCEPT ![c] = to]
    BY DEF SubConnect, SubStep
<1>3. sub'[c] = to /\ \A d \in Channel : d # c => sub'[d] = sub[d]
    BY <1>2 DEF BenchInv, BenchTypes
<1>4. BenchTypes'
    BY <1>1, <1>2 DEF BenchInv, BenchTypes
<1>5. ChannelInv(c)'
    <2>1. ChannelInv(c)
        BY DEF BenchInv
    <2>2. Early /\ AtRest(c) /\ Within(c)
        BY <2>1, <1>2 DEF ChannelInv
    <2>3. Early' /\ AtRest(c)' /\ Within(c)'
        BY <2>2, <1>1, <1>3 DEF Early, AtRest, Within, Sub, Pub
    <2>4. QED
        BY <2>3 DEF ChannelInv, AtRest, OnItsWay
<1>6. ASSUME NEW d \in Channel, d # c PROVE ChannelInv(d)'
    BY <1>6, <1>1, <1>3, ChannelFrame DEF BenchInv
<1>7. QED
    BY <1>4, <1>5, <1>6 DEF BenchInv

LEMMA PubConnectBench == ASSUME BenchInv, NEW c \in Channel, PubConnect(c) PROVE BenchInv'
<1>1. UNCHANGED <<main, config, sub, left, received, sent, signals, inflight, held, lost>>
    BY DEF PubConnect
<1>2. PICK to \in {"connack", "barrier", "failed"} : pub' = [pub EXCEPT ![c] = to]
    BY DEF PubConnect, PubStep
<1>3. pub'[c] = to /\ \A d \in Channel : d # c => pub'[d] = pub[d]
    BY <1>2 DEF BenchInv, BenchTypes
<1>4. BenchTypes'
    BY <1>1, <1>2 DEF BenchInv, BenchTypes
<1>5. ChannelInv(c)'
    <2>1. ChannelInv(c)
        BY DEF BenchInv
    <2>2. Early => AtRest(c)'
        BY <2>1, <1>1, <1>3 DEF ChannelInv, AtRest, Sub, Pub
    <2>3. Within(c)'
        BY <2>1, <1>1 DEF ChannelInv, Within, Sub, Pub
    <2>4. OnItsWay(c) => OnItsWay(c)'
        BY <1>1, <1>3 DEF OnItsWay, InStep
    <2>5. QED
        BY <2>1, <2>2, <2>3, <2>4, <1>1 DEF ChannelInv, Early
<1>6. ASSUME NEW d \in Channel, d # c PROVE ChannelInv(d)'
    BY <1>6, <1>1, <1>3, ChannelFrame DEF BenchInv
<1>7. QED
    BY <1>4, <1>5, <1>6 DEF BenchInv

\* At the barrier all counters are zero, and both threads of a channel go into
\* their first batch.
LEMMA ReleaseBench == ASSUME BenchInv, Release PROVE BenchInv'
<1>1. /\ main = "barrier" /\ main' = "spawning"
      /\ UNCHANGED <<config, received, sent, signals, inflight, held, lost>>
    BY DEF Release
<1>2. /\ sub' \in [Channel -> {"receiving", "done", "none"}]
      /\ pub' \in [Channel -> {"returned", "none"}]
    BY DEF Release, WhileLess
<1>3. Batch(0) \in Nat /\ Batch(0) <= config.batch_size /\ Batch(0) <= config.messages_per_channel
    BY BatchBounds DEF BenchInv, BenchTypes, BenchConfig
<1>4. left' = [t \in Peer |-> Batch(0)]
    BY DEF Release
<1>5. BenchTypes'
    BY <1>1, <1>2, <1>3, <1>4 DEF BenchInv, BenchTypes
<1>6. ASSUME NEW c \in Channel PROVE ChannelInv(c)'
    <2>1. left'[Sub(c)] = Batch(0) /\ left'[Pub(c)] = Batch(0)
        BY <1>4, Threads
    <2>2. AtRest(c)
        BY <1>1 DEF BenchInv, ChannelInv, Early
    <2>3. /\ received'[c] = 0 /\ sent'[c] = 0 /\ signals'[c] = 0
          /\ inflight'[c] = 0 /\ held'[c] = 0 /\ lost'[c] = 0
        BY <2>2, <1>1 DEF AtRest
    <2>4. Within(c)'
        BY <2>1, <2>3, <1>1, <1>3 DEF Within, Sub, Pub
    <2>5. OnItsWay(c)'
        BY <2>1, <2>3, <1>1, <1>3 DEF OnItsWay, InStep, Sub, Pub, BenchInv, BenchTypes, BenchConfig
    <2>6. ~ Early' /\ sub'[c] \in {"none", "receiving", "done"}
        BY <1>1, <1>2 DEF Early
    <2>7. QED
        BY <2>3, <2>4, <2>5, <2>6 DEF ChannelInv
<1>7. QED
    BY <1>5, <1>6 DEF BenchInv

LEMMA SpawnBench == ASSUME BenchInv, NEW c \in Channel, SpawnPublisher(c) PROVE BenchInv'
<1>1. /\ main = "spawning"
      /\ UNCHANGED <<main, config, sub, left, received, sent, signals, inflight, held, lost>>
    BY DEF SpawnPublisher
<1>2. PICK to \in {"sending", "done"} :
        pub[c] = "returned" /\ pub' = [pub EXCEPT ![c] = to]
    BY DEF SpawnPublisher, PubStep, WhileLess
<1>3. pub'[c] = to /\ \A d \in Channel : d # c => pub'[d] = pub[d]
    BY <1>2 DEF BenchInv, BenchTypes
<1>4. BenchTypes'
    BY <1>1, <1>2 DEF BenchInv, BenchTypes
<1>5. ChannelInv(c)'
    <2>1. ChannelInv(c)
        BY DEF BenchInv
    <2>2. ~ Early /\ ~ Early'
        BY <1>1 DEF Early
    <2>3. Within(c)'
        BY <2>1, <1>1 DEF ChannelInv, Within, Sub, Pub
    <2>4. OnItsWay(c) => OnItsWay(c)'
        BY <1>1, <1>2, <1>3 DEF OnItsWay, InStep, Sub, Pub, Batch, Lesser
    <2>5. QED
        BY <2>1, <2>2, <2>3, <2>4, <1>1 DEF ChannelInv
<1>6. ASSUME NEW d \in Channel, d # c PROVE ChannelInv(d)'
    BY <1>6, <1>1, <1>3, ChannelFrame DEF BenchInv
<1>7. QED
    BY <1>4, <1>5, <1>6 DEF BenchInv

LEMMA JoinBench == ASSUME BenchInv, JoinAll PROVE BenchInv'
<1>1. UNCHANGED <<config, sub, pub, left, received, sent, signals, inflight, held, lost>>
    BY DEF JoinAll, MainStep
<1>2. ~ Early /\ ~ Early'
    BY DEF JoinAll, MainStep, Early
<1>3. BenchTypes'
    BY <1>1 DEF BenchInv, BenchTypes
<1>4. ASSUME NEW c \in Channel PROVE ChannelInv(c)'
    <2>1. ChannelInv(c)
        BY DEF BenchInv
    <2>2. Within(c)'
        BY <2>1, <1>1 DEF ChannelInv, Within, Sub, Pub
    <2>3. OnItsWay(c) => OnItsWay(c)'
        BY <1>1 DEF OnItsWay, InStep, Sub, Pub, Batch, Lesser
    <2>4. QED
        BY <2>1, <2>2, <2>3, <1>1, <1>2 DEF ChannelInv
<1>5. QED
    BY <1>3, <1>4 DEF BenchInv

-----------------------------------------------------------------------------
(* The loops *)

\* A message more on its way: both threads are in the same batch, and the
\* publisher was not at its end.
LEMMA PublishBench == ASSUME BenchInv, NEW c \in Channel, PublishOne(c) PROVE BenchInv'
<1> USE Threads
<1>1. /\ pub[c] = "sending" /\ left[Pub(c)] > 0
      /\ left' = [left EXCEPT ![Pub(c)] = left[Pub(c)] - 1]
      /\ sent' = [sent EXCEPT ![c] = sent[c] + 1]
      /\ inflight' = [inflight EXCEPT ![c] = inflight[c] + 1]
      /\ UNCHANGED <<main, config, sub, pub, received, signals, held, lost>>
    BY DEF PublishOne
<1>2. BenchTypes
    BY DEF BenchInv
<1>3. BenchTypes'
    BY <1>1, <1>2 DEF BenchTypes
<1>4. /\ left'[Pub(c)] = left[Pub(c)] - 1 /\ left'[Sub(c)] = left[Sub(c)]
      /\ sent'[c] = sent[c] + 1 /\ inflight'[c] = inflight[c] + 1
    BY <1>1, <1>2 DEF BenchTypes
<1>5. ChannelInv(c)'
    <2>1. ChannelInv(c)
        BY DEF BenchInv
    <2>2. ~ Early /\ ~ Early'
        BY <2>1, <1>1 DEF ChannelInv, AtRest, Early
    <2>3. /\ left[Pub(c)] \in Nat /\ left[Sub(c)] \in Nat /\ sent[c] \in Nat
          /\ received[c] \in Nat /\ inflight[c] \in Nat /\ held[c] \in Nat
          /\ config.batch_size \in Nat /\ config.messages_per_channel \in Nat
        BY <1>2 DEF BenchTypes, BenchConfig
    <2>4. Within(c) /\ Within(c)'
        BY <2>1, <2>3, <1>1, <1>4 DEF ChannelInv, Within, Sub, Pub
    <2>5. ASSUME OnItsWay(c), sub[c] = "receiving" PROVE OnItsWay(c)'
        <3>1. /\ sent[c] = received[c] + inflight[c] + held[c]
              /\ signals[c] = 0
              /\ sent[c] + left[Pub(c)] = received[c] + left[Sub(c)]
            BY <2>5, <2>3, <1>1 DEF OnItsWay, InStep
        <3>2. InStep(c)'
            BY <3>1, <2>3, <1>1, <1>4 DEF InStep, Sub, Pub
        <3>3. inflight'[c] + held'[c] <= config'.batch_size
            BY <3>1, <2>3, <2>4, <1>1, <1>4 DEF Within
        <3>4. QED
            BY <3>1, <3>2, <3>3, <2>3, <1>1, <1>4 DEF OnItsWay
    <2>6. OnItsWay(c) => OnItsWay(c)'
        BY <2>5, <1>1 DEF OnItsWay
    <2>7. QED
        BY <2>1, <2>2, <2>4, <2>6, <1>1 DEF ChannelInv
<1>6. ASSUME NEW d \in Channel, d # c PROVE ChannelInv(d)'
    <2>1. Sub(d) # Pub(c) /\ Pub(d) # Pub(c) /\ Sub(d) \in Peer /\ Pub(d) \in Peer
        BY <1>6, ThreadsDiffer
    <2>2. /\ left'[Sub(d)] = left[Sub(d)] /\ left'[Pub(d)] = left[Pub(d)]
          /\ sent'[d] = sent[d] /\ inflight'[d] = inflight[d]
        BY <2>1, <1>6, <1>1, <1>2 DEF BenchTypes
    <2>3. QED
        BY <2>2, <1>1, ChannelFrame DEF BenchInv
<1>7. QED
    BY <1>3, <1>5, <1>6 DEF BenchInv

\* The signal says that all of the batch has been received: the publisher
\* joins the subscriber in the next one.
LEMMA AwaitBench == ASSUME BenchInv, NEW c \in Channel, AwaitSignal(c) PROVE BenchInv'
<1> USE Threads
<1>1. /\ left[Pub(c)] = 0 /\ pub[c] = "sending"
      /\ left' = [left EXCEPT ![Pub(c)] = Batch(sent[c])]
      /\ pub' = [pub EXCEPT ![c] = WhileLess(sent[c], "sending")]
      /\ UNCHANGED <<main, config, sub, received, sent, inflight, held, lost>>
    BY DEF AwaitSignal, PubStep
<1>2. \/ signals[c] > 0 /\ signals' = [signals EXCEPT ![c] = signals[c] - 1]
      \/ SubOver(c) /\ signals' = signals
    BY DEF AwaitSignal
<1>3. BenchTypes /\ ChannelInv(c)
    BY DEF BenchInv
<1>4. /\ left[Pub(c)] \in Nat /\ left[Sub(c)] \in Nat /\ sent[c] \in Nat
      /\ received[c] \in Nat /\ inflight[c] \in Nat /\ held[c] \in Nat /\ signals[c] \in Nat
      /\ config.batch_size \in Nat /\ config.messages_per_channel \in Nat
    BY <1>3 DEF BenchTypes, BenchConfig
<1>5. Within(c)
    BY <1>3 DEF ChannelInv
<1>6. /\ Batch(sent[c]) \in Nat
      /\ Batch(sent[c]) <= config.batch_size
      /\ sent[c] + Batch(sent[c]) <= config.messages_per_channel
    <2>1. sent[c] <= config.messages_per_channel
        BY <1>4, <1>5 DEF Within
    <2>2. QED
        BY <2>1, <1>3, <1>4, BatchBounds DEF BenchTypes
<1>7. WhileLess(sent[c], "sending") \in {"sending", "done"}
    BY DEF WhileLess
<1>8. signals' \in [Channel -> Nat]
    BY <1>2, <1>3, <1>4 DEF BenchTypes
<1>9. BenchTypes'
    BY <1>1, <1>3, <1>6, <1>7, <1>8 DEF BenchTypes
<1>10. left'[Pub(c)] = Batch(sent[c]) /\ left'[Sub(c)] = left[Sub(c)]
    BY <1>1, <1>3 DEF BenchTypes
<1>11. ChannelInv(c)'
    <2>1. ~ Early /\ ~ Early'
        BY <1>3, <1>1 DEF ChannelInv, AtRest, Early
    <2>2. Within(c)'
        BY <1>1, <1>5, <1>6, <1>10 DEF Within, Sub, Pub
    <2>3. ASSUME OnItsWay(c), sub[c] = "receiving" PROVE OnItsWay(c)'
        <3>1. signals[c] > 0 /\ signals' = [signals EXCEPT ![c] = signals[c] - 1]
            BY <2>3, <1>2 DEF SubOver
        <3>2. signals[c] = 1 /\ sent[c] = received[c] /\ left[Sub(c)] = Batch(received[c])
            BY <3>1, <2>3, <1>1 DEF OnItsWay, InStep
        <3>3. signals'[c] = 0
            BY <3>1, <3>2, <1>3 DEF BenchTypes
        <3>4. InStep(c)'
            BY <3>2, <3>3, <1>1, <1>10 DEF InStep, Sub, Pub
        <3>5. QED
            BY <3>4, <2>3, <1>1 DEF OnItsWay
    <2>4. OnItsWay(c) => OnItsWay(c)'
        BY <2>3, <1>1 DEF OnItsWay
    <2>5. QED
        BY <2>1, <2>2, <2>4, <1>1, <1>3 DEF ChannelInv
<1>12. ASSUME NEW d \in Channel, d # c PROVE ChannelInv(d)'
    <2>1. Sub(d) # Pub(c) /\ Pub(d) # Pub(c) /\ Sub(d) \in Peer /\ Pub(d) \in Peer
        BY <1>12, ThreadsDiffer
    <2>2. /\ left'[Sub(d)] = left[Sub(d)] /\ left'[Pub(d)] = left[Pub(d)]
          /\ pub'[d] = pub[d] /\ signals'[d] = signals[d]
        BY <2>1, <1>12, <1>1, <1>2, <1>3 DEF BenchTypes
    <2>3. QED
        BY <2>2, <1>1, ChannelFrame DEF BenchInv
<1>13. QED
    BY <1>9, <1>11, <1>12 DEF BenchInv

\* The queue of the subscriber has room: what is in it and what is in flight
\* together are no more than a batch.
LEMMA RelayBench == ASSUME BenchInv, NEW c \in Channel, Relay(c) PROVE BenchInv'
<1>1. /\ inflight[c] > 0
      /\ inflight' = [inflight EXCEPT ![c] = inflight[c] - 1]
      /\ UNCHANGED <<main, config, sub, pub, left, received, sent, signals>>
    BY DEF Relay
<1>2. BenchTypes /\ ChannelInv(c)
    BY DEF BenchInv
<1>3. /\ sent[c] \in Nat /\ received[c] \in Nat /\ inflight[c] \in Nat /\ held[c] \in Nat
      /\ lost[c] \in Nat /\ config.batch_size \in Nat
    BY <1>2 DEF BenchTypes, BenchConfig
<1>4. PICK h \in Nat, k \in Nat :
        /\ held' = [held EXCEPT ![c] = h]
        /\ lost' = [lost EXCEPT ![c] = k]
        /\ SubOver(c) => h = held[c] /\ k = lost[c]
        /\ ~ SubOver(c) /\ held[c] < Capacity => h = held[c] + 1 /\ k = lost[c]
    <2>1. CASE SubOver(c)
        <3>1. held' = [held EXCEPT ![c] = held[c]] /\ lost' = [lost EXCEPT ![c] = lost[c]]
            BY <2>1, <1>2 DEF Relay, BenchTypes
        <3>2. QED
            BY <3>1, <2>1, <1>3
    <2>2. CASE ~ SubOver(c)
        <3>1. /\ held' = [held EXCEPT ![c] = Q!AfterPush(held[c])]
              /\ lost' = [lost EXCEPT ![c] = lost[c] + (IF held'[c] = held[c] THEN 1 ELSE 0)]
            BY <2>2 DEF Relay
        <3>2. held'[c] = Q!AfterPush(held[c])
            BY <3>1, <1>2 DEF BenchTypes
        <3>3. /\ Q!AfterPush(held[c]) \in Nat
              /\ held[c] < Capacity => Q!AfterPush(held[c]) = held[c] + 1
            BY <1>3 DEF Q!AfterPush
        <3>4. held[c] < Capacity => held'[c] # held[c]
            BY <3>2, <3>3, <1>3
        <3>5. PICK k0 \in Nat : k0 = lost[c] + (IF held'[c] = held[c] THEN 1 ELSE 0)
            BY <1>3
        <3>6. PICK h0 \in Nat : h0 = Q!AfterPush(held[c])
            BY <3>3
        <3>7. held' = [held EXCEPT ![c] = h0] /\ lost' = [lost EXCEPT ![c] = k0]
            BY <3>1, <3>5, <3>6
        <3>8. held[c] < Capacity => h0 = held[c] + 1 /\ k0 = lost[c]
            BY <3>3, <3>4, <3>5, <3>6, <1>3
        <3>9. QED
            BY <3>7, <3>8, <2>2
    <2>3. QED
        BY <2>1, <2>2
<1>5. BenchTypes'
    BY <1>1, <1>2, <1>3, <1>4 DEF BenchTypes
<1>6. inflight'[c] = inflight[c] - 1 /\ held'[c] = h /\ lost'[c] = k
    BY <1>1, <1>2, <1>4 DEF BenchTypes
<1>7. ChannelInv(c)'
    <2>1. ~ Early /\ ~ Early'
        BY <1>1, <1>2 DEF ChannelInv, AtRest, Early
    <2>2. Within(c)'
        BY <1>1, <1>2 DEF ChannelInv, Within, Sub, Pub
    <2>3. ASSUME config.batch_size <= Capacity, sub[c] = "receiving"
          PROVE  lost'[c] = 0 /\ OnItsWay(c)'
        <3>1. OnItsWay(c) /\ lost[c] = 0 /\ ~ SubOver(c)
            BY <2>3, <1>2 DEF ChannelInv, SubOver
        <3>2. /\ sent[c] = received[c] + inflight[c] + held[c]
              /\ inflight[c] + held[c] <= config.batch_size
              /\ InStep(c)
            BY <3>1, <2>3 DEF OnItsWay
        <3>3. held[c] < Capacity
            BY <3>2, <2>3, <1>1, <1>3, CapacityAssumption
        <3>4. held'[c] = held[c] + 1 /\ lost'[c] = 0
            BY <3>1, <3>3, <1>4, <1>6
        <3>5. InStep(c)'
            BY <3>2, <1>1 DEF InStep, Sub, Pub, Batch, Lesser
        <3>6. /\ sent'[c] = received'[c] + inflight'[c] + held'[c]
              /\ inflight'[c] + held'[c] <= config'.batch_size
            BY <3>2, <3>4, <1>1, <1>3, <1>6
        <3>7. QED
            BY <3>4, <3>5, <3>6 DEF OnItsWay
    <2>4. ASSUME config.batch_size <= Capacity, sub[c] # "receiving", sub[c] # "panicked"
          PROVE  lost'[c] = 0 /\ OnItsWay(c)'
        <3>1. SubOver(c) /\ lost[c] = 0
            BY <2>4, <2>1, <1>2 DEF ChannelInv, SubOver
        <3>2. QED
            BY <3>1, <2>4, <1>1, <1>4, <1>6 DEF OnItsWay
    <2>5. config'.batch_size <= Capacity => (sub'[c] # "panicked" => lost'[c] = 0) /\ OnItsWay(c)'
        BY <2>3, <2>4, <1>1 DEF OnItsWay
    <2>6. QED
        BY <2>1, <2>2, <2>5, <1>1, <1>2 DEF ChannelInv
<1>8. ASSUME NEW d \in Channel, d # c PROVE ChannelInv(d)'
    <2>1. inflight'[d] = inflight[d] /\ held'[d] = held[d] /\ lost'[d] = lost[d]
        BY <1>8, <1>1, <1>2, <1>4 DEF BenchTypes
    <2>2. QED
        BY <2>1, <1>1, ChannelFrame DEF BenchInv
<1>9. QED
    BY <1>5, <1>7, <1>8 DEF BenchInv

LEMMA ReceiveBench == ASSUME BenchInv, NEW c \in Channel, ReceiveOne(c) PROVE BenchInv'
<1> USE Threads
<1>1. /\ sub[c] = "receiving" /\ left[Sub(c)] > 0 /\ held[c] > 0
      /\ left' = [left EXCEPT ![Sub(c)] = left[Sub(c)] - 1]
      /\ held' = [held EXCEPT ![c] = held[c] - 1]
      /\ received' = [received EXCEPT ![c] = received[c] + 1]
      /\ UNCHANGED <<main, config, sub, pub, sent, signals, inflight, lost>>
    BY DEF ReceiveOne
<1>2. BenchTypes /\ ChannelInv(c)
    BY DEF BenchInv
<1>3. /\ left[Pub(c)] \in Nat /\ left[Sub(c)] \in Nat /\ sent[c] \in Nat
      /\ received[c] \in Nat /\ inflight[c] \in Nat /\ held[c] \in Nat
      /\ config.batch_size \in Nat /\ config.messages_per_channel \in Nat
    BY <1>2 DEF BenchTypes, BenchConfig
<1>4. BenchTypes'
    BY <1>1, <1>2, <1>3 DEF BenchTypes
<1>5. /\ left'[Sub(c)] = left[Sub(c)] - 1 /\ left'[Pub(c)] = left[Pub(c)]
      /\ held'[c] = held[c] - 1 /\ received'[c] = received[c] + 1
    BY <1>1, <1>2 DEF BenchTypes
<1>6. ChannelInv(c)'
    <2>1. ~ Early /\ ~ Early'
        BY <1>1, <1>2 DEF ChannelInv, AtRest, Early
    <2>2. Within(c)'
        BY <1>1, <1>2, <1>3, <1>5 DEF ChannelInv, Within, Sub, Pub
    <2>3. ASSUME OnItsWay(c) PROVE OnItsWay(c)'
        <3>1. /\ sent[c] = received[c] + inflight[c] + held[c]
              /\ inflight[c] + held[c] <= config.batch_size
              /\ InStep(c)
            BY <2>3, <1>1 DEF OnItsWay
        <3>2. pub[c] \in {"returned", "sending"} =>
                signals[c] = 0 /\ sent[c] + left[Pub(c)] = received[c] + left[Sub(c)]
            BY <3>1, <1>1, <1>3 DEF InStep
        <3>3. InStep(c)'
            BY <3>2, <1>1, <1>3, <1>5 DEF InStep, Sub, Pub
        <3>4. QED
            BY <3>1, <3>3, <1>1, <1>3, <1>5 DEF OnItsWay
    <2>4. QED
        BY <2>1, <2>2, <2>3, <1>1, <1>2 DEF ChannelInv
<1>7. ASSUME NEW d \in Channel, d # c PROVE ChannelInv(d)'
    <2>1. Sub(d) # Sub(c) /\ Pub(d) # Sub(c) /\ Sub(d) \in Peer /\ Pub(d) \in Peer
        BY <1>7, ThreadsDiffer
    <2>2. /\ left'[Sub(d)] = left[Sub(d)] /\ left'[Pub(d)] = left[Pub(d)]
          /\ held'[d] = held[d] /\ received'[d] = received[d]
        BY <2>1, <1>7, <1>1, <1>2 DEF BenchTypes
    <2>3. QED
        BY <2>2, <1>1, ChannelFrame DEF BenchInv
<1>8. QED
    BY <1>4, <1>6, <1>7 DEF BenchInv

\* The subscriber is at the end of a batch in which both threads are: so all
\* of it has been sent, and all that was sent has been received.
LEMMA SignalBench == ASSUME BenchInv, NEW c \in Channel, SendSignal(c) PROVE BenchInv'
<1> USE Threads
<1>1. /\ left[Sub(c)] = 0 /\ sub[c] = "receiving"
      /\ left' = [left EXCEPT ![Sub(c)] = Batch(received[c])]
      /\ sub' = [sub EXCEPT ![c] = WhileLess(received[c], "receiving")]
      /\ UNCHANGED <<main, config, pub, received, sent, inflight, held, lost>>
    BY DEF SendSignal, SubStep
<1>2. \/ signals[c] < 1 /\ signals' = [signals EXCEPT ![c] = signals[c] + 1]
      \/ PubOver(c) /\ signals' = signals
    BY DEF SendSignal
<1>3. BenchTypes /\ ChannelInv(c)
    BY DEF BenchInv
<1>4. /\ left[Pub(c)] \in Nat /\ left[Sub(c)] \in Nat /\ sent[c] \in Nat
      /\ received[c] \in Nat /\ inflight[c] \in Nat /\ held[c] \in Nat /\ signals[c] \in Nat
      /\ config.batch_size \in Nat /\ config.messages_per_channel \in Nat
    BY <1>3 DEF BenchTypes, BenchConfig
<1>5. Within(c)
    BY <1>3 DEF ChannelInv
<1>6. /\ Batch(received[c]) \in Nat
      /\ Batch(received[c]) <= config.batch_size
      /\ received[c] + Batch(received[c]) <= config.messages_per_channel
    <2>1. received[c] <= config.messages_per_channel
        BY <1>4, <1>5 DEF Within
    <2>2. QED
        BY <2>1, <1>3, <1>4, BatchBounds DEF BenchTypes
<1>7. WhileLess(received[c], "receiving") \in {"receiving", "done"}
    BY DEF WhileLess
<1>8. signals' \in [Channel -> Nat]
    BY <1>2, <1>3, <1>4 DEF BenchTypes
<1>9. BenchTypes'
    BY <1>1, <1>3, <1>6, <1>7, <1>8 DEF BenchTypes
<1>10. left'[Sub(c)] = Batch(received[c]) /\ left'[Pub(c)] = left[Pub(c)]
    BY <1>1, <1>3 DEF BenchTypes
<1>11. sub'[c] \in {"receiving", "done"}
    BY <1>1, <1>3, <1>7 DEF BenchTypes
<1>12. ChannelInv(c)'
    <2>1. ~ Early /\ ~ Early'
        BY <1>3, <1>1 DEF ChannelInv, AtRest, Early
    <2>2. Within(c)'
        BY <1>1, <1>5, <1>6, <1>10 DEF Within, Sub, Pub
    <2>3. ASSUME OnItsWay(c) PROVE OnItsWay(c)'
        <3>1. /\ sent[c] = received[c] + inflight[c] + held[c]
              /\ inflight[c] + held[c] <= config.batch_size
              /\ InStep(c)
            BY <2>3, <1>1 DEF OnItsWay
        <3>2. ASSUME pub[c] \in {"returned", "sending"}
              PROVE  /\ signals'[c] = 1 /\ left[Pub(c)] = 0 /\ sent[c] = received[c]
            <4>1. signals[c] < 1 /\ signals' = [signals EXCEPT ![c] = signals[c] + 1]
                BY <3>2, <1>2 DEF PubOver
            <4>2. signals[c] = 0
                BY <4>1, <1>4
            <4>3. sent[c] + left[Pub(c)] = received[c]
                BY <4>2, <3>1, <3>2, <1>1, <1>4 DEF InStep
            <4>4. signals'[c] = 1
                BY <4>1, <4>2, <1>3 DEF BenchTypes
            <4>5. QED
                BY <4>3, <4>4, <3>1, <1>4
        <3>3. Batch(received[c])' = Batch(received[c])
            BY <1>1 DEF Batch, Lesser
        <3>4. InStep(c)'
            BY <3>2, <3>3, <1>1, <1>10 DEF InStep, Sub, Pub
        <3>5. QED
            BY <3>1, <3>4, <1>1 DEF OnItsWay
    <2>4. QED
        BY <2>1, <2>2, <2>3, <1>1, <1>3, <1>11 DEF ChannelInv
<1>13. ASSUME NEW d \in Channel, d # c PROVE ChannelInv(d)'
    <2>1. Sub(d) # Sub(c) /\ Pub(d) # Sub(c) /\ Sub(d) \in Peer /\ Pub(d) \in Peer
        BY <1>13, ThreadsDiffer
    <2>2. /\ left'[Sub(d)] = left[Sub(d)] /\ left'[Pub(d)] = left[Pub(d)]
          /\ sub'[d] = sub[d] /\ signals'[d] = signals[d]
        BY <2>1, <1>13, <1>1, <1>2, <1>3 DEF BenchTypes
    <2>3. QED
        BY <2>2, <1>1, ChannelFrame DEF BenchInv
<1>14. QED
    BY <1>9, <1>12, <1>13 DEF BenchInv

LEMMA BreakBench == ASSUME BenchInv, NEW c \in Channel, Break(c) PROVE BenchInv'
<1>1. UNCHANGED <<main, config, left, received, sent, signals, inflight, held, lost>>
    BY DEF Break
<1>2. BenchTypes /\ ChannelInv(c)
    BY DEF BenchInv
<1>3. \/ /\ sub[c] \in {"suback", "receiving"}
         /\ sub' = [sub EXCEPT ![c] = "panicked"] /\ pub' = pub
      \/ pub[c] = "sending" /\ pub' = [pub EXCEPT ![c] = "panicked"] /\ sub' = sub
    BY DEF Break, SubStep, PubStep
<1>4. BenchTypes'
    BY <1>1, <1>2, <1>3 DEF BenchTypes
<1>5. \/ sub[c] \in {"suback", "receiving"} /\ sub'[c] = "panicked" /\ pub'[c] = pub[c]
      \/ pub[c] = "sending" /\ pub'[c] = "panicked" /\ sub'[c] = sub[c]
    BY <1>2, <1>3 DEF BenchTypes
<1>6. ChannelInv(c)'
    <2>1. Early' <=> Early
        BY <1>1 DEF Early
    <2>2. Within(c)'
        BY <1>1, <1>2 DEF ChannelInv, Within, Sub, Pub
    <2>3. OnItsWay(c) => OnItsWay(c)'
        BY <1>1, <1>5 DEF OnItsWay, InStep
    <2>4. CASE sub[c] = "suback" /\ sub'[c] = "panicked" /\ pub'[c] = pub[c]
        <3>1. Early /\ AtRest(c)
            BY <1>2, <2>4 DEF ChannelInv
        <3>2. AtRest(c)'
            BY <1>1, <2>4, <3>1 DEF AtRest, Sub, Pub
        <3>3. QED
            BY <1>2, <2>1, <2>2, <2>3, <2>4, <3>1, <3>2, <1>1 DEF ChannelInv
    <2>5. CASE ~ (sub[c] = "suback" /\ sub'[c] = "panicked" /\ pub'[c] = pub[c])
        <3>1. ~ Early
            BY <1>2, <1>5, <2>5 DEF ChannelInv, AtRest
        <3>2. QED
            BY <1>1, <1>2, <1>5, <2>1, <2>2, <2>3, <2>5, <3>1 DEF ChannelInv
    <2>6. QED
        BY <2>4, <2>5
<1>7. ASSUME NEW d \in Channel, d # c PROVE ChannelInv(d)'
    <2>1. sub'[d] = sub[d] /\ pub'[d] = pub[d]
        BY <1>7, <1>2, <1>3 DEF BenchTypes
    <2>2. QED
        BY <2>1, <1>1, ChannelFrame DEF BenchInv
<1>8. QED
    BY <1>4, <1>6, <1>7 DEF BenchInv

LEMMA NextBench == ASSUME BenchInv, [Next]_vars PROVE BenchInv'
<1>1. CASE UNCHANGED benchVars
    <2>1. BenchTypes'
        BY <1>1 DEF BenchInv, BenchTypes, benchVars
    <2>2. ASSUME NEW c \in Channel PROVE ChannelInv(c)'
        BY <1>1, ChannelFrame DEF BenchInv, benchVars
    <2>3. QED
        BY <2>1, <2>2 DEF BenchInv
<1>2. CASE ServerStep
    BY <1>1, <1>2 DEF ServerStep
<1>3. CASE MainThread
    BY <1>3, ParseArgsBench, SetupBench, ReleaseBench, SpawnBench, JoinBench DEF MainThread
<1>4. ASSUME NEW c \in Channel, SubThread(c) \/ PubThread(c) PROVE BenchInv'
    BY <1>4, SubConnectBench, PubConnectBench, ReceiveBench, SignalBench, PublishBench, AwaitBench
       DEF SubThread, PubThread
<1>5. ASSUME NEW c \in Channel, Relay(c) \/ Break(c) PROVE BenchInv'
    BY <1>5, RelayBench, BreakBench
<1>6. CASE UNCHANGED vars
    BY <1>1, <1>6 DEF vars, benchVars
<1>7. QED
    BY <1>2, <1>3, <1>4, <1>5, <1>6 DEF Next

\* "backpressured batching to avoid hitting the broker's 128-message queue
\* drop-oldest limit" (head of shard_benchmark.rs): the signal after each batch
\* is enough to keep the queue of a subscriber from overflowing, for any number
\* of channels and messages, any batch no larger than the queue, and any speeds
\* of publishers, shards and subscribers.
THEOREM BenchmarkNoLoss == Spec => []NoLoss
<1>1. BenchInv => NoLoss
    BY DEF BenchInv, ChannelInv, NoLoss
<1>2. QED
    BY <1>1, InitBench, NextBench, PTL DEF Spec

-----------------------------------------------------------------------------
(***************************************************************************)
(* The command line of the broker.  After n arguments, each option has its *)
(* last valid value among them, and a value is expected exactly when the   *)
(* n-th argument is an option.                                             *)
(***************************************************************************)

LEMMA LeastNumber ==
    ASSUME NEW T, T \subseteq Nat, T # {}
    PROVE  \E k \in T : \A j \in T : k <= j
<1>1. IsWellFoundedOn(OpToRel(<, Nat), Nat)
  BY NatLessThanWellFounded
<1>2. PICK k \in T : \A j \in T : ~ (<<j, k>> \in OpToRel(<, Nat))
  BY <1>1, WFMin
<1>3. \A j \in T : ~ (j < k)
  BY <1>2 DEF OpToRel
<1> QED
  BY <1>3

\* Induction, for a set of numbers.
LEMMA SetInduction ==
    ASSUME NEW T, 0 \in T, \A k \in Nat : k \in T => k + 1 \in T
    PROVE  \A k \in Nat : k \in T
<1> SUFFICES ASSUME Nat \ T # {} PROVE FALSE
  OBVIOUS
<1>1. PICK k \in Nat \ T : \A j \in Nat \ T : k <= j
  BY LeastNumber
<1>2. k # 0
  OBVIOUS
<1>3. k - 1 \in Nat /\ ~ (k <= k - 1) /\ (k - 1) + 1 = k
  BY <1>2
<1>4. k - 1 \in T
  BY <1>1, <1>3
<1> QED
  BY <1>3, <1>4

\* k is the start of a run of flags up to before n.
StartsRun(j, n) ==
    /\ \A m \in j..(n - 1) : args[m] \in ServerFlags
    /\ j = 1 \/ args[j - 1] \notin ServerFlags

LEMMA RunStart ==
    ASSUME NEW n \in Nat \ {0}
    PROVE  \E j \in 1..n : StartsRun(j, n)
<1> DEFINE T == {j \in 1..n : \A m \in j..(n - 1) : args[m] \in ServerFlags}
<1>1. n \in T
  OBVIOUS
<1>2. PICK j \in T : \A k \in T : j <= k
  <2>1. T \subseteq Nat
    <3>1. 1..n \subseteq Nat
      OBVIOUS
    <3>2. T \subseteq 1..n
      BY Zenon
    <3> QED
      BY <3>1, <3>2, Zenon
  <2> HIDE DEF T
  <2>2. T # {}
    BY <1>1
  <2> QED
    BY <2>1, <2>2, LeastNumber
<1>3. j = 1 \/ args[j - 1] \notin ServerFlags
  <2> SUFFICES ASSUME j # 1, args[j - 1] \in ServerFlags PROVE FALSE
    OBVIOUS
  <2>1. PICK i \in 1..n : i = j - 1 /\ ~ (j <= i)
    OBVIOUS
  <2>2. \A m \in i..(n - 1) : m = i \/ m \in j..(n - 1)
    BY <2>1
  <2>3. i \in T
    BY <2>1, <2>2
  <2> QED
    BY <1>2, <2>1, <2>3
<1> QED
  BY <1>2, <1>3 DEF StartsRun

LEMMA OneRun ==
    ASSUME NEW n \in Nat, NEW j \in 1..n, NEW k \in 1..n, StartsRun(j, n), StartsRun(k, n)
    PROVE  j = k
<1>1. ASSUME NEW a \in 1..n, NEW b \in 1..n, StartsRun(a, n), StartsRun(b, n), a < b PROVE FALSE
  <2>1. b # 1 /\ b - 1 \in a..(n - 1)
    BY <1>1
  <2> QED
    BY <1>1, <2>1 DEF StartsRun
<1> QED
  BY <1>1

\* A flag is an option unless the argument before it is one.
LEMMA OptionIs ==
    ASSUME NEW n \in Nat
    PROVE  /\ IsOption(1) <=> args[1] \in ServerFlags
           /\ n # 0 => (IsOption(n + 1) <=> args[n + 1] \in ServerFlags /\ ~ IsOption(n))
<1>1. ASSUME NEW k \in Nat \ {0}, NEW j \in 1..k, StartsRun(j, k)
      PROVE  IsOption(k) <=> args[k] \in ServerFlags /\ (k - j) % 2 = 0
  <2>1. IsOption(k) <=> /\ args[k] \in ServerFlags
                        /\ \E l \in 1..k : StartsRun(l, k) /\ (k - l) % 2 = 0
    BY DEF IsOption, StartsRun
  <2>2. \A l \in 1..k : StartsRun(l, k) => l = j
    BY <1>1, OneRun
  <2> HIDE DEF StartsRun
  <2> QED
    BY <1>1, <2>1, <2>2
<1>2. IsOption(1) <=> args[1] \in ServerFlags
  <2>1. PICK j \in 1..1 : StartsRun(j, 1)
    BY RunStart, 1 \in Nat \ {0}
  <2>2. (1 - j) % 2 = 0
    <3>1. 1 - j = 0
      OBVIOUS
    <3> QED
      BY <3>1, SMT
  <2> QED
    BY <1>1, <2>1, <2>2
<1>3. ASSUME n # 0 PROVE IsOption(n + 1) <=> args[n + 1] \in ServerFlags /\ ~ IsOption(n)
  <2>1. PICK m \in Nat \ {0} : m = n + 1 /\ m - 1 = n
    OBVIOUS
  <2>2. PICK j \in 1..m : StartsRun(j, m)
    BY RunStart
  <2>3. IsOption(m) <=> args[m] \in ServerFlags /\ (m - j) % 2 = 0
    BY <1>1, <2>2
  <2>4. CASE j = m
    <3>1. (m - j) % 2 = 0
      <4>1. m - j = 0
        BY <2>4
      <4> QED
        BY <4>1, SMT
    <3>2. args[n] \notin ServerFlags
      BY <1>3, <2>1, <2>2, <2>4 DEF StartsRun
    <3>3. ~ IsOption(n)
      BY <3>2 DEF IsOption
    <3> QED
      BY <2>1, <2>3, <3>1, <3>3
  <2>5. CASE j # m
    <3>1. j \in 1..n /\ n \in j..(m - 1) /\ \A l \in j..(n - 1) : l \in j..(m - 1)
      BY <2>1, <2>5
    <3>2. args[n] \in ServerFlags /\ StartsRun(j, n)
      BY <2>2, <3>1 DEF StartsRun
    <3>3. IsOption(n) <=> (n - j) % 2 = 0
      BY <1>1, <1>3, <3>1, <3>2
    <3>4. (m - j) % 2 = 0 <=> ~ ((n - j) % 2 = 0)
      <4>1. PICK l \in Nat : l = n - j /\ m - j = l + 1
        BY <2>1, <3>1
      <4>2. (l + 1) % 2 = 0 <=> ~ (l % 2 = 0)
        BY SMT
      <4> QED
        BY <4>1, <4>2
    <3> QED
      BY <2>1, <2>3, <3>3, <3>4
  <2> QED
    BY <2>4, <2>5
<1> QED
  BY <1>2, <1>3

LEMMA MaxIs ==
    ASSUME NEW S, S \subseteq Nat, NEW m \in S, \A y \in S : y <= m
    PROVE  Max(S) = m
<1>1. \E k \in S : \A y \in S : k >= y
  OBVIOUS
<1>2. Max(S) \in S /\ \A y \in S : Max(S) >= y
  BY <1>1 DEF Max
<1>3. PICK k \in S : k = Max(S)
  BY <1>2
<1>4. k >= m /\ k <= m /\ k \in Nat /\ m \in Nat
  BY <1>2, <1>3
<1> QED
  BY <1>3, <1>4

\* The value after the last place of P before n.
LastOf(P, n, d) ==
    LET g == {k \in P : k < n}
    IN  IF g = {} THEN d ELSE args[Max(g) + 1]

LEMMA LastStep ==
    ASSUME NEW P, P \subseteq Nat, NEW n \in Nat, NEW d
    PROVE  LastOf(P, n + 1, d) = IF n \in P THEN args[n + 1] ELSE LastOf(P, n, d)
<1> DEFINE g == {k \in P : k < n + 1}
<1>1. CASE n \in P
  <2>1. n \in g /\ g \subseteq Nat /\ \A y \in g : y <= n
    <3>1. n < n + 1 /\ \A k \in Nat : k < n + 1 => k <= n
      OBVIOUS
    <3> QED
      BY <1>1, <3>1, Zenon
  <2>2. LastOf(P, n + 1, d) = IF g = {} THEN d ELSE args[Max(g) + 1]
    BY Zenon DEF LastOf
  <2> HIDE DEF g
  <2>3. Max(g) = n /\ g # {}
    BY <2>1, MaxIs
  <2> QED
    BY <1>1, <2>2, <2>3
<1>2. CASE n \notin P
  <2>1. \A k \in P : k < n + 1 <=> k < n
    BY <1>2
  <2>2. g = {k \in P : k < n}
    BY <2>1
  <2> QED
    BY <1>2, <2>2, Zenon DEF LastOf
<1> QED
  BY <1>1, <1>2

LEMMA LastNone ==
    ASSUME NEW P, P \subseteq Nat, NEW d
    PROVE  LastOf(P, 0, d) = d
<1>1. \A k \in P : ~ (k < 0)
  <2>1. \A k \in Nat : ~ (k < 0)
    OBVIOUS
  <2> QED
    BY <2>1, Zenon
<1>2. {k \in P : k < 0} = {}
  BY <1>1, Zenon
<1> QED
  BY <1>2, Zenon DEF LastOf

HostAt == {k \in 1..(Len(args) - 1) : IsOption(k) /\ args[k] = "--host"}
PortAt == {k \in 1..(Len(args) - 1) : IsOption(k) /\ args[k] = "--port" /\ IsU16(args[k + 1])}
ShardsAt == {k \in 1..(Len(args) - 1) :
               /\ IsOption(k) /\ args[k] = "--shards"
               /\ IsNumber(args[k + 1]) /\ Number[args[k + 1]] >= 1}

\* what is expected of the configuration after n arguments
Best(n) == [host |-> LastOf(HostAt, n, ServerDefault.host),
            port |-> LastOf(PortAt, n, ServerDefault.port),
            num_shards |-> LastOf(ShardsAt, n, ServerDefault.num_shards)]

\* The walk over the arguments, as a function.
Walked(a, n, w) == w = [k \in 0..n |-> IF k = 0 THEN [config |-> ServerDefault, expect |-> NoFlag]
                                        ELSE ServerArg(w[k - 1], a[k])]

LEMMA ServerConfigIs ==
    ASSUME NEW a
    PROVE  ServerConfig(a) = (CHOOSE w : Walked(a, Len(a), w))[Len(a)].config
BY Zenon DEF ServerConfig, Walked

LEMMA WalkExists ==
    ASSUME NEW a
    PROVE  \A n \in Nat : \E w : Walked(a, n, w)
<1> DEFINE start == [config |-> ServerDefault, expect |-> NoFlag]
           T == {n \in Nat : \E w : Walked(a, n, w)}
<1>1. 0 \in T
  <2> DEFINE w == [k \in 0..0 |-> start]
  <2>1. w = [k \in 0..0 |-> IF k = 0 THEN start ELSE ServerArg(w[k - 1], a[k])]
    <3> HIDE DEF start
    <3> QED
      OBVIOUS
  <2>2. Walked(a, 0, w)
    BY <2>1, Zenon DEF Walked
  <2> QED
    BY <2>2
<1>2. ASSUME NEW n \in Nat, n \in T PROVE n + 1 \in T
  <2>1. PICK w : Walked(a, n, w)
    BY <1>2
  <2> DEFINE h(k) == IF k = 0 THEN start ELSE ServerArg(w[k - 1], a[k])
             v == [k \in 0..(n + 1) |-> h(k)]
             hv(k) == IF k = 0 THEN start ELSE ServerArg(v[k - 1], a[k])
  <2>2. w = [k \in 0..n |-> h(k)]
    BY <2>1, Zenon DEF Walked
  <2>3. \A k \in 0..n : v[k] = w[k]
    <3> HIDE DEF h
    <3>1. \A k \in 0..n : k \in 0..(n + 1)
      OBVIOUS
    <3> QED
      BY <2>2, <3>1
  <2>4. ASSUME NEW k \in 0..(n + 1) PROVE h(k) = hv(k)
    <3>1. CASE k = 0
      BY <3>1, Zenon
    <3>2. CASE k # 0
      <4>1. k - 1 \in 0..n
        BY <3>2
      <4>2. v[k - 1] = w[k - 1]
        BY <2>3, <4>1
      <4> HIDE DEF v
      <4> QED
        BY <3>2, <4>2, Zenon
    <3> QED
      BY <3>1, <3>2
  <2>5. v = [k \in 0..(n + 1) |-> hv(k)]
    <3> HIDE DEF h, hv
    <3> QED
      BY <2>4
  <2>6. Walked(a, n + 1, v)
    <3> HIDE DEF v
    <3> QED
      BY <2>5, Zenon DEF Walked
  <2> QED
    BY <2>6
<1>3. \A n \in Nat : n \in T
  <2> HIDE DEF T
  <2> QED
    BY <1>1, <1>2, SetInduction
<1> QED
  BY <1>3

LEMMA Walk ==
    ASSUME NEW a \in Seq(STRING)
    PROVE  \E w : /\ ServerConfig(a) = w[Len(a)].config
                  /\ w[0] = [config |-> ServerDefault, expect |-> NoFlag]
                  /\ \A n \in Nat : n < Len(a) => w[n + 1] = ServerArg(w[n], a[n + 1])
<1>1. PICK w : w = CHOOSE v : Walked(a, Len(a), v)
  OBVIOUS
<1>2. Walked(a, Len(a), w)
  BY <1>1, WalkExists
<1> DEFINE start == [config |-> ServerDefault, expect |-> NoFlag]
           h(k) == IF k = 0 THEN start ELSE ServerArg(w[k - 1], a[k])
<1>3. w = [k \in 0..Len(a) |-> h(k)]
  BY <1>2, Zenon DEF Walked
<1>4. \A k \in 0..Len(a) : w[k] = h(k)
  <2> HIDE DEF h
  <2> QED
    BY <1>3
<1>5. w[0] = start
  BY <1>4, 0 \in 0..Len(a)
<1>6. ASSUME NEW n \in Nat, n < Len(a) PROVE w[n + 1] = ServerArg(w[n], a[n + 1])
  <2>1. n + 1 \in 0..Len(a) /\ n + 1 # 0 /\ (n + 1) - 1 = n
    BY <1>6
  <2>2. h(n + 1) = ServerArg(w[n], a[n + 1])
    BY <2>1
  <2> HIDE DEF h
  <2> QED
    BY <1>4, <2>1, <2>2
<1>7. ServerConfig(a) = w[Len(a)].config
  BY <1>1, ServerConfigIs
<1> QED
  BY <1>5, <1>6, <1>7

ValidShards(v) == IsNumber(v) /\ Number[v] >= 1
Expected(n) == IF n # 0 /\ IsOption(n) THEN args[n] ELSE NoFlag
Parsed(n) == [config |-> Best(n), expect |-> Expected(n)]

LEMMA PlacesAreNumbers == HostAt \subseteq Nat /\ PortAt \subseteq Nat /\ ShardsAt \subseteq Nat
<1>1. 1..(Len(args) - 1) \subseteq Nat
  OBVIOUS
<1> QED
  BY <1>1, Zenon DEF HostAt, PortAt, ShardsAt

LEMMA BestNext ==
    ASSUME NEW n \in Nat
    PROVE  Best(n + 1) =
             [host |-> IF n \in HostAt THEN args[n + 1] ELSE Best(n).host,
              port |-> IF n \in PortAt THEN args[n + 1] ELSE Best(n).port,
              num_shards |-> IF n \in ShardsAt THEN args[n + 1] ELSE Best(n).num_shards]
<1>1. /\ Best(n).host = LastOf(HostAt, n, ServerDefault.host)
      /\ Best(n).port = LastOf(PortAt, n, ServerDefault.port)
      /\ Best(n).num_shards = LastOf(ShardsAt, n, ServerDefault.num_shards)
  BY DEF Best
<1>2. LastOf(HostAt, n + 1, ServerDefault.host) =
        IF n \in HostAt THEN args[n + 1] ELSE LastOf(HostAt, n, ServerDefault.host)
  BY LastStep, PlacesAreNumbers
<1>3. LastOf(PortAt, n + 1, ServerDefault.port) =
        IF n \in PortAt THEN args[n + 1] ELSE LastOf(PortAt, n, ServerDefault.port)
  BY LastStep, PlacesAreNumbers
<1>4. LastOf(ShardsAt, n + 1, ServerDefault.num_shards) =
        IF n \in ShardsAt THEN args[n + 1] ELSE LastOf(ShardsAt, n, ServerDefault.num_shards)
  BY LastStep, PlacesAreNumbers
<1> QED
  BY <1>1, <1>2, <1>3, <1>4, Zenon DEF Best

LEMMA ParsedNone ==
    /\ Parsed(0) = [config |-> ServerDefault, expect |-> NoFlag]
    /\ ValidShards(Best(0).num_shards)
<1>1. /\ LastOf(HostAt, 0, ServerDefault.host) = ServerDefault.host
      /\ LastOf(PortAt, 0, ServerDefault.port) = ServerDefault.port
      /\ LastOf(ShardsAt, 0, ServerDefault.num_shards) = ServerDefault.num_shards
  BY LastNone, PlacesAreNumbers
<1>2. Best(0) = [host |-> ServerDefault.host, port |-> ServerDefault.port,
                 num_shards |-> ServerDefault.num_shards]
  BY <1>1, Zenon DEF Best
<1>3. Best(0) = ServerDefault
  BY <1>2, ServerAssumption
<1>4. ValidShards(ServerDefault.num_shards)
  BY ServerAssumption DEF ValidShards
<1> QED
  BY <1>3, <1>4 DEF Parsed, Expected

\* One argument more.
LEMMA ParsedNext ==
    ASSUME args \in Seq(STRING), NEW n \in Nat, n < Len(args), ValidShards(Best(n).num_shards)
    PROVE  /\ ServerArg(Parsed(n), args[n + 1]) = Parsed(n + 1)
           /\ ValidShards(Best(n + 1).num_shards)
<1>1. n + 1 # 0 /\ (n # 0 => n \in 1..(Len(args) - 1))
  OBVIOUS
<1>2. PICK a : a = args[n + 1]
  OBVIOUS
<1>3. PICK c : /\ c = Best(n)
               /\ c = [host |-> c.host, port |-> c.port, num_shards |-> c.num_shards]
  <2>1. PICK h, o, m : Best(n) = [host |-> h, port |-> o, num_shards |-> m]
    BY Zenon DEF Best
  <2>2. PICK c : c = Best(n)
    OBVIOUS
  <2>3. c.host = h /\ c.port = o /\ c.num_shards = m
    BY <2>1, <2>2
  <2> QED
    BY <2>1, <2>2, <2>3
<1>4. Best(n + 1) = [host |-> IF n \in HostAt THEN a ELSE c.host,
                     port |-> IF n \in PortAt THEN a ELSE c.port,
                     num_shards |-> IF n \in ShardsAt THEN a ELSE c.num_shards]
  BY <1>2, <1>3, BestNext
<1>5. ValidShards(Best(n + 1).num_shards)
  <2>1. Best(n + 1).num_shards = IF n \in ShardsAt THEN a ELSE c.num_shards
    BY <1>4
  <2>2. n \in ShardsAt => ValidShards(a)
    BY <1>2 DEF ShardsAt, ValidShards
  <2> QED
    BY <1>3, <2>1, <2>2
<1>6. Parsed(n).config = c /\ Parsed(n).expect = Expected(n)
      /\ Parsed(n) = [config |-> c, expect |-> Expected(n)]
  BY <1>3 DEF Parsed
<1>7. CASE n # 0 /\ IsOption(n)
  <2>1. PICK f : f = args[n] /\ f \in ServerFlags /\ f # NoFlag /\ f = Expected(n)
    BY <1>7 DEF IsOption, Expected, ServerFlags, NoFlag
  <2>2. Expected(n + 1) = NoFlag
    BY <1>1, <1>7, OptionIs DEF Expected
  <2>3. ServerArg(Parsed(n), a) = [config |-> ServerValue(c, f, a), expect |-> NoFlag]
    BY <1>6, <2>1 DEF ServerArg
  <2>4. /\ n \in HostAt <=> f = "--host"
        /\ n \in PortAt <=> f = "--port" /\ IsU16(a)
        /\ n \in ShardsAt <=> f = "--shards" /\ IsNumber(a) /\ Number[a] >= 1
    BY <1>1, <1>2, <1>7, <2>1, Zenon DEF HostAt, PortAt, ShardsAt
  <2>5. ServerValue(c, f, a) = Best(n + 1)
    <3>1. CASE f = "--host"
      <4>1. ServerValue(c, f, a) = [c EXCEPT !.host = a]
        BY <3>1 DEF ServerValue
      <4>2. n \in HostAt /\ n \notin PortAt /\ n \notin ShardsAt
        BY <2>4, <3>1
      <4> QED
        BY <1>3, <1>4, <4>1, <4>2
    <3>2. CASE f = "--port"
      <4>1. ServerValue(c, f, a) = [c EXCEPT !.port = IF IsU16(a) THEN a ELSE c.port]
        BY <3>2 DEF ServerValue
      <4>2. n \notin HostAt /\ (n \in PortAt <=> IsU16(a)) /\ n \notin ShardsAt
        BY <2>4, <3>2
      <4> QED
        BY <1>3, <1>4, <4>1, <4>2
    <3>3. CASE f = "--shards"
      <4>1. ServerValue(c, f, a) =
              [c EXCEPT !.num_shards = IF IsNumber(a) /\ Number[a] >= 1 THEN a ELSE c.num_shards]
        BY <3>3 DEF ServerValue
      <4>2. n \notin HostAt /\ n \notin PortAt /\ (n \in ShardsAt <=> IsNumber(a) /\ Number[a] >= 1)
        BY <2>4, <3>3
      <4> QED
        BY <1>3, <1>4, <4>1, <4>2
    <3> QED
      BY <2>1, <3>1, <3>2, <3>3 DEF ServerFlags
  <2> QED
    BY <1>2, <1>5, <2>2, <2>3, <2>5 DEF Parsed
<1>8. CASE ~ (n # 0 /\ IsOption(n))
  <2>1. Expected(n) = NoFlag
    BY <1>8 DEF Expected
  <2>2. ServerArg(Parsed(n), a) = [config |-> c, expect |-> IF a \in ServerFlags THEN a ELSE NoFlag]
    BY <1>6, <2>1 DEF ServerArg
  <2>3. n \notin HostAt /\ n \notin PortAt /\ n \notin ShardsAt
    <3>1. 0 \notin 1..(Len(args) - 1)
      OBVIOUS
    <3> QED
      BY <1>8, <3>1, Zenon DEF HostAt, PortAt, ShardsAt
  <2>4. Best(n + 1) = c
    BY <1>3, <1>4, <2>3
  <2>5. IsOption(n + 1) <=> a \in ServerFlags
    <3>1. CASE n = 0
      <4>1. n + 1 = 1
        BY <3>1
      <4> QED
        BY <1>2, <4>1, OptionIs
    <3>2. CASE n # 0
      BY <1>2, <1>8, <3>2, OptionIs
    <3> QED
      BY <3>1, <3>2
  <2>6. Expected(n + 1) = IF a \in ServerFlags THEN a ELSE NoFlag
    BY <1>1, <1>2, <2>5 DEF Expected
  <2> QED
    BY <1>2, <1>5, <2>2, <2>4, <2>6 DEF Parsed
<1> QED
  BY <1>7, <1>8

LEMMA ConfigIsBest ==
    ASSUME args \in Seq(STRING)
    PROVE  ServerConfig(args) = Best(Len(args)) /\ ValidShards(Best(Len(args)).num_shards)
<1>1. PICK w : /\ ServerConfig(args) = w[Len(args)].config
               /\ w[0] = [config |-> ServerDefault, expect |-> NoFlag]
               /\ \A n \in Nat : n < Len(args) => w[n + 1] = ServerArg(w[n], args[n + 1])
  BY Walk
<1> DEFINE T == {n \in Nat : n <= Len(args) => w[n] = Parsed(n) /\ ValidShards(Best(n).num_shards)}
<1>2. 0 \in T
  BY <1>1, ParsedNone
<1>3. ASSUME NEW n \in Nat, n \in T PROVE n + 1 \in T
  <2> SUFFICES ASSUME n + 1 <= Len(args)
               PROVE  w[n + 1] = Parsed(n + 1) /\ ValidShards(Best(n + 1).num_shards)
    OBVIOUS
  <2>1. n < Len(args) /\ n <= Len(args)
    OBVIOUS
  <2>2. w[n] = Parsed(n) /\ ValidShards(Best(n).num_shards)
    BY <1>3, <2>1
  <2>3. w[n + 1] = ServerArg(w[n], args[n + 1])
    BY <1>1, <2>1
  <2> QED
    BY <2>1, <2>2, <2>3, ParsedNext
<1>4. \A n \in Nat : n \in T
  <2> HIDE DEF T
  <2> QED
    BY <1>2, <1>3, SetInduction
<1>5. PICK n \in Nat : n = Len(args)
  OBVIOUS
<1>6. w[n] = Parsed(n) /\ ValidShards(Best(n).num_shards)
  BY <1>4, <1>5
<1> QED
  BY <1>1, <1>5, <1>6 DEF Parsed

LEMMA BestIsLastValid ==
    ASSUME args \in Seq(STRING)
    PROVE  Best(Len(args)) =
           [host |-> LastValid("--host", LAMBDA v : TRUE, ServerDefault.host),
            port |-> LastValid("--port", IsU16, ServerDefault.port),
            num_shards |-> LastValid("--shards", LAMBDA v : IsNumber(v) /\ Number[v] >= 1,
                                     ServerDefault.num_shards)]
<1>1. ASSUME NEW P, P \subseteq 1..(Len(args) - 1), NEW d
      PROVE  LastOf(P, Len(args), d) = IF P = {} THEN d ELSE args[Max(P) + 1]
  <2>1. \A k \in 1..(Len(args) - 1) : k < Len(args)
    OBVIOUS
  <2>2. {k \in P : k < Len(args)} = P
    BY <1>1, <2>1, Zenon
  <2> QED
    BY <2>2, Zenon DEF LastOf
<1>2. LastOf(HostAt, Len(args), ServerDefault.host) = LastValid("--host", LAMBDA v : TRUE, ServerDefault.host)
  <2>1. HostAt = {k \in 1..(Len(args) - 1) : IsOption(k) /\ args[k] = "--host" /\ TRUE}
    BY Zenon DEF HostAt
  <2>2. HostAt \subseteq 1..(Len(args) - 1)
    BY Zenon DEF HostAt
  <2>3. LastOf(HostAt, Len(args), ServerDefault.host) =
          IF HostAt = {} THEN ServerDefault.host ELSE args[Max(HostAt) + 1]
    BY <1>1, <2>2
  <2> QED
    BY <2>1, <2>3, Zenon DEF LastValid
<1>3. LastOf(PortAt, Len(args), ServerDefault.port) = LastValid("--port", IsU16, ServerDefault.port)
  <2>2. PortAt \subseteq 1..(Len(args) - 1)
    BY Zenon DEF PortAt
  <2>3. LastOf(PortAt, Len(args), ServerDefault.port) =
          IF PortAt = {} THEN ServerDefault.port ELSE args[Max(PortAt) + 1]
    BY <1>1, <2>2
  <2> QED
    BY <2>3, Zenon DEF LastValid, PortAt
<1>4. LastOf(ShardsAt, Len(args), ServerDefault.num_shards) =
        LastValid("--shards", LAMBDA v : IsNumber(v) /\ Number[v] >= 1, ServerDefault.num_shards)
  <2>1. ShardsAt = {k \in 1..(Len(args) - 1) : /\ IsOption(k) /\ args[k] = "--shards"
                                               /\ (IsNumber(args[k + 1]) /\ Number[args[k + 1]] >= 1)}
    BY Zenon DEF ShardsAt
  <2>2. ShardsAt \subseteq 1..(Len(args) - 1)
    BY Zenon DEF ShardsAt
  <2>3. LastOf(ShardsAt, Len(args), ServerDefault.num_shards) =
          IF ShardsAt = {} THEN ServerDefault.num_shards ELSE args[Max(ShardsAt) + 1]
    BY <1>1, <2>2
  <2> QED
    BY <2>1, <2>3, Zenon DEF LastValid
<1> QED
  BY <1>2, <1>3, <1>4, Zenon DEF Best

\* The broker has not been stopped by the assertion in spawn_sharded_broker.
ConfigInv == args \in Seq(STRING) /\ server # "panicked"

LEMMA InitConfig == BenchInit => ConfigInv
BY ServerAssumption DEF BenchInit, ServerInit, ConfigInv

\* Nothing but Bind touches the arguments, and only StartShards could panic.
LEMMA NextConfig == ASSUME ConfigInv, [Next]_vars PROVE ConfigInv'
<1>1. CASE UNCHANGED <<args, server>>
  BY <1>1 DEF ConfigInv
<1>2. CASE StartShards
  <2>1. args \in Seq(STRING)
    BY DEF ConfigInv
  <2>2. Number[ServerConfig(args).num_shards] >= 1
    <3>1. ServerConfig(args) = Best(Len(args)) /\ ValidShards(Best(Len(args)).num_shards)
      BY <2>1, ConfigIsBest
    <3> QED
      BY <3>1 DEF ValidShards
  <2> QED
    BY <1>2, <2>1, <2>2 DEF StartShards, ConfigInv
<1>3. CASE Bind
  BY <1>3 DEF Bind, ConfigInv
<1>4. CASE ServerStep
  BY <1>1, <1>2, <1>3, <1>4
     DEF ServerStep, ServerNext, AcceptStep, HandlerStep, Accept, AcceptError, TakeId, StartThreads
<1>5. CASE MainThread
  BY <1>1, <1>5
     DEF MainThread, ParseArgs, Setup, Release, SpawnPublisher, JoinAll, MainStep, serverVars
<1>6. ASSUME NEW c \in Channel, SubThread(c) \/ PubThread(c) PROVE ConfigInv'
  BY <1>1, <1>6
     DEF SubThread, PubThread, SubConnect, PubConnect, Open, ReceiveOne, SendSignal,
         PublishOne, AwaitSignal, serverVars
<1>7. ASSUME NEW c \in Channel, Relay(c) \/ Break(c) PROVE ConfigInv'
  BY <1>1, <1>7 DEF Relay, Break, serverVars
<1>8. CASE UNCHANGED vars
  BY <1>1, <1>8 DEF vars, serverVars
<1> QED
  BY <1>4, <1>5, <1>6, <1>7, <1>8 DEF Next

\* However long the command line, and however flags, values and junk are mixed
\* on it, parse_args (main.rs) gives each option its last valid value or its
\* default, and spawn_sharded_broker gets at least one shard.
THEOREM ServerConfigIsLastValid == Spec => []ConfigIsLastValid
<1>1. ConfigInv => ConfigIsLastValid
  BY ConfigIsBest, BestIsLastValid, Zenon DEF ConfigInv, ConfigIsLastValid
<1> QED
  BY <1>1, InitConfig, NextConfig, PTL DEF Spec
=============================================================================
