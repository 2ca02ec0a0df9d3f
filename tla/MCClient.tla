------------------------------ MODULE MCClient ------------------------------
(***************************************************************************)
(* A small instance of BlitzClient.  A sub and a pub run beside a program  *)
(* that does not read what it has subscribed to; a sub against a program   *)
(* that publishes a retained message and another one; a sub whose          *)
(* connection may break, or whose user interrupts it, against either.      *)
(***************************************************************************)
EXTENDS BlitzClient, TLC

CONSTANTS sub, weak, pub, ret, slow

MCNumber == "1883" :> 1883 @@ "0" :> 0 @@ "1" :> 1
MCServerDefault == [host |-> "h", port |-> "1883", num_shards |-> "1"]
MCBenchDefault == [channels |-> 1, messages_per_channel |-> 1, batch_size |-> 1]

MCIsWildcard(f) == f = "+"
MCMatches(t, f) == f = "+" \/ f = t
MCShardForTopic(f) == 0

MCSub == [cmd |-> "sub", filter |-> "+"]
MCPub == [cmd |-> "pub", topic |-> "a", message |-> "m", qos |-> 1]
MCIntent == sub :> MCSub @@ weak :> MCSub @@ pub :> MCPub

\* the option groups of a command line in every order
InAnyOrder(groups) == {FlattenSeq(s) : s \in SetToSeqs(groups)}

MCTypedSub == InAnyOrder({<<"--host", "h", "--port", "1883">>, <<"sub">>, <<"--filter", "+">>})
MCTypedPub ==
    InAnyOrder({<<"--host", "h", "--port", "1883">>, <<"pub">>, <<"--topic", "a">>,
                <<"--msg", "m", "--qos", "1">>})
MCCommandLines == sub :> MCTypedSub @@ weak :> MCTypedSub @@ pub :> MCTypedPub

MCPublish(retain) ==
    [type |-> "PUBLISH", topic |-> "a", empty |-> FALSE, qos |-> 0, retain |-> retain]

MCScript ==
    sub :> ClientScript(MCSub) @@ weak :> ClientScript(MCSub) @@ pub :> ClientScript(MCPub)
    @@ ret :> << {MCPublish(TRUE)}, {MCPublish(FALSE), [type |-> "PINGREQ"], [type |-> "PUBACK"]} >>
    @@ slow :> << {CONNECT}, {[type |-> "SUBSCRIBE", filters |-> <<"a">>]} >>

MCTogether == {{sub, pub, slow}, {sub, ret}, {weak, ret}, {weak, pub}}
=============================================================================
