---------------------------- MODULE MCBenchmark ----------------------------
(***************************************************************************)
(* A small instance of Benchmark: two channels, three messages each in     *)
(* batches of up to two, queues of two, and every command line of up to    *)
(* four arguments for the broker.                                          *)
(***************************************************************************)
EXTENDS Benchmark, TLC

MCNumber == "0" :> 0 @@ "1" :> 1 @@ "2" :> 2 @@ "70000" :> 70000 @@ "1883" :> 1883 @@ "4" :> 4

MCServerDefault == [host |-> "localhost", port |-> "1883", num_shards |-> "4"]
MCBenchDefault == [channels |-> 2, messages_per_channel |-> 3, batch_size |-> 2]

MCServerArgs == UNION {[1..n -> ServerFlags \cup {"host", "0", "2", "70000"}] : n \in 0..4}

\* the defaults, one channel, batches of one, no messages at all, and command
\* lines that panic
MCBenchArgLists ==
    { <<"--host", "host", "junk", "--port", "1">>, <<"--channels", "1", "--batch-size", "1">>,
      <<"--channels", "1", "--messages", "4">>, <<"--channels", "1", "--messages", "0">>,
      <<"--messages">>, <<"--port", "70000">>,
      <<"--batch-size", "x">> }

MCPeer == {"sub", "pub"} \X {1, 2}
MCUnreachable == {Sub(1), Pub(2)}
MCBreaking == {Sub(1), Pub(2)}
MCPeerOne == {"sub", "pub"} \X {1}
MCBenchDefaultOne == [channels |-> 1, messages_per_channel |-> 3, batch_size |-> 2]
MCNoArgs == {<<>>}
=============================================================================
