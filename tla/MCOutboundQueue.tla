-------------------------- MODULE MCOutboundQueue --------------------------
(***************************************************************************)
(* A small instance of OutboundQueue: the reader and two shards push up to *)
(* five events into a queue of two.                                        *)
(***************************************************************************)
EXTENDS OutboundQueue

CONSTANTS reader, shard1, shard2

MCProducer == {reader, shard1, shard2}
=============================================================================
