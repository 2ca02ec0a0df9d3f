----------------------------- MODULE MCDelivery -----------------------------
(***************************************************************************)
(* A small instance of BrokerDelivery.  In each behaviour one group of     *)
(* clients uses the broker and the others never connect: a subscriber with *)
(* overlapping filters and one publisher, two subscribers and two          *)
(* publishers of one topic, the clients of the churn.                      *)
(***************************************************************************)
EXTENDS MCBroker, BrokerDelivery

VARIABLE group      \* the clients of this behaviour

Groups == {{c1, c3}, {c2, c8, c6, c7}, {c4, c5}}

MCInit == DInit /\ group \in Groups

MCNext ==
    /\ \/ \E c \in group : DClientStep(c) \/ DReaderStep(c)
       \/ \E s \in Shard : DShardStep(s)
    /\ UNCHANGED group

MCSpec == MCInit /\ [][MCNext]_<<dvars, group>>
=============================================================================
