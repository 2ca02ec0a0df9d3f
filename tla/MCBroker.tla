------------------------------ MODULE MCBroker ------------------------------
(***************************************************************************)
(* Small instances of Broker.  Two shards, two topics that live on         *)
(* different shards, and a wildcard filter for each shape of routing.      *)
(***************************************************************************)
EXTENDS Broker, TLC

CONSTANTS c1, c2, c3, c4, c5, c6, c7, c8     \* ConnectionIds are numbers

\* the matching relation that topic_matches_filter is proved to compute
F == INSTANCE TopicFilter WITH
        Word <- {"", "a", "b"}, HashMixed <- {}, PlusMixed <- {}

A == <<"a">>
B == <<"b">>
Plus == <<"+">>
Hash == <<"#">>
AHash == <<"a", "#">>

MCTopic == {A, B}
MCFilter == {A, B, Plus, AHash}

MCIsWildcard(f) == F!is_wildcard_filter(f)
MCMatches(t, f) == F!Matches(t, f)

\* a hash that puts the two topics on different shards when there are two
MCShardForTopic(f) == IF f = A THEN 0 ELSE N - 1

-----------------------------------------------------------------------------
Connect == [type |-> "CONNECT"]
Sub(fs) == [type |-> "SUBSCRIBE", filters |-> fs]
Unsub(fs) == [type |-> "UNSUBSCRIBE", filters |-> fs]
Pub(t, qos, retain, empty) ==
    [type |-> "PUBLISH", topic |-> t, empty |-> empty, qos |-> qos, retain |-> retain]

Hangup == [type |-> "HANGUP"]

\* Overlap: c1 subscribes to two filters that match one topic, then drops one
\* of them or leaves, while c3, without CONNECT, publishes twice.  Fan-out: c2
\* subscribes to every topic, c8 to every topic or to one, and c6 and c7 publish
\* to that one.  Churn: c4 connects, subscribes through an exact or a wildcard
\* filter, unsubscribes, subscribes again, and leaves at any time; c5, which may
\* subscribe before it connects, publishes to both shards, sets, replaces and
\* deletes a retained message and leaves.
MCScript ==
    c1 :> << {Connect}, {Sub(<<Plus, A>>), Sub(<<AHash, A>>)},
             {Unsub(<<A>>), Unsub(<<Plus>>), Hangup} >>
    @@ c2 :> << {Connect}, {Sub(<<Plus>>)} >>
    @@ c3 :> << {Pub(A, 1, FALSE, FALSE)}, {Pub(A, 0, FALSE, FALSE)} >>
    @@ c4 :> << {Connect}, {Sub(<<A>>), Sub(<<Plus>>)},
                {Unsub(<<A>>), Unsub(<<Plus>>), Hangup},
                {Sub(<<A>>), Hangup} >>
    @@ c5 :> << {Pub(A, 0, TRUE, FALSE), Pub(B, 1, FALSE, FALSE), Sub(<<A>>)},
                {Pub(A, 1, TRUE, FALSE), Pub(A, 0, TRUE, TRUE), Connect, Hangup} >>
    @@ c6 :> << {Pub(A, 0, FALSE, FALSE)} >>
    @@ c7 :> << {Pub(A, 0, FALSE, FALSE)} >>
    @@ c8 :> << {Connect}, {Sub(<<A>>), Sub(<<Plus>>)} >>
=============================================================================
