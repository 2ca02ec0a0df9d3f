---------------------------- MODULE CommandLine ----------------------------
(***************************************************************************)
(* The hand-written argument parsers of the three programs: the broker     *)
(* (main.rs), blitzclient and shard_benchmark.  Each walks args once; a    *)
(* flag takes the argument after it, whatever that is, as its value.  The  *)
(* three differ in what a missing or an unparsable value does.             *)
(*                                                                         *)
(* The loop over args is a fold, or a recursive function where it is       *)
(* proved about; expect is the flag whose value comes next.                *)
(***************************************************************************)
EXTENDS Naturals, Sequences, SequencesExt

CONSTANTS
    Number,         \* Number[a]: the value of the argument a, if it is a number
    ServerDefault,  \* 127.0.0.1, 1883 and NUM_BROKER_SHARDS
    BenchDefault    \* the BenchConfig that main starts with

NoFlag == ""
NoValue == "None"               \* a missing or unparsable argument

IsNumber(a) == a \in DOMAIN Number
IsU16(a) == IsNumber(a) /\ Number[a] < 65536
IsU8(a) == IsNumber(a) /\ Number[a] < 256

\* arguments are given as strings, values in a configuration as strings too
ValueIf(ok, a) == IF ok THEN a ELSE NoValue

-----------------------------------------------------------------------------
(* The broker: a bad value leaves the option as it was *)

ServerFlags == {"--host", "--port", "--shards"}

\* Mutant of ServerValue: --shards 0 is let through.
ServerValueAnyShards(c, flag, v) ==
    CASE flag = "--host" -> [c EXCEPT !.host = v]
      [] flag = "--port" -> [c EXCEPT !.port = IF IsU16(v) THEN v ELSE @]
      [] flag = "--shards" -> [c EXCEPT !.num_shards = IF IsNumber(v) THEN v ELSE @]

ServerValue(c, flag, v) ==
    CASE flag = "--host" -> [c EXCEPT !.host = v]
      [] flag = "--port" -> [c EXCEPT !.port = IF IsU16(v) THEN v ELSE @]
      [] flag = "--shards" ->
           [c EXCEPT !.num_shards = IF IsNumber(v) /\ Number[v] >= 1 THEN v ELSE @]

\* what the argument a does
ServerArg(st, a) ==
    IF st.expect # NoFlag
    THEN [config |-> ServerValue(st.config, st.expect, a), expect |-> NoFlag]
    ELSE [st EXCEPT !.expect = IF a \in ServerFlags THEN a ELSE NoFlag]

\* walk[n]: after n arguments; a flag at the end has no value and is ignored
ServerConfig(args) ==
    LET walk[n \in 0..Len(args)] ==
          IF n = 0
          THEN [config |-> ServerDefault, expect |-> NoFlag]
          ELSE ServerArg(walk[n - 1], args[n])
    IN  walk[Len(args)].config

-----------------------------------------------------------------------------
(* blitzclient: a bad value counts as none, and most options are required *)

ClientFlags == {"--host", "--port", "--topic", "--filter", "--message", "--msg", "--qos"}

NoCli == [host |-> NoValue, port |-> NoValue, topic |-> NoValue, message |-> NoValue,
          qos |-> 0, subcmd |-> NoValue]

ClientValue(c, flag, v) ==
    CASE flag = "--host" -> [c EXCEPT !.host = v]
      [] flag = "--port" -> [c EXCEPT !.port = ValueIf(IsU16(v), v)]
      [] flag \in {"--topic", "--filter"} -> [c EXCEPT !.topic = v]
      [] flag \in {"--message", "--msg"} -> [c EXCEPT !.message = v]
      [] flag = "--qos" -> [c EXCEPT !.qos = IF IsU8(v) THEN Number[v] ELSE 0]

\* an argument that is not the value of a flag
ClientStart(st, a) ==
    IF a \in {"pub", "sub"}
    THEN [st EXCEPT !.cli.subcmd = a]
    ELSE [st EXCEPT !.expect = IF a \in ClientFlags THEN a ELSE NoFlag]

\* process::exit, directly or through usage()
Usage == [cmd |-> "usage"]

\* what blitzclient does; QoS above 1 exits at once
ClientCommand(args) ==
    LET value(st, v) == LET cli == ClientValue(st.cli, st.expect, v)
                        IN  [cli |-> cli, expect |-> NoFlag, exit |-> cli.qos > 1]
        step(st, a) == IF st.exit THEN st
                       ELSE IF st.expect # NoFlag THEN value(st, a)
                       ELSE ClientStart(st, a)
        walked == FoldLeft(step, [cli |-> NoCli, expect |-> NoFlag, exit |-> FALSE], args)
        st == IF walked.expect = NoFlag THEN walked ELSE value(walked, NoValue)
        cli == st.cli
    IN  IF \/ st.exit \/ cli.host = NoValue \/ cli.port = NoValue \/ cli.topic = NoValue
           \/ cli.subcmd = NoValue
           \/ cli.subcmd = "pub" /\ cli.message = NoValue
        THEN Usage
        ELSE IF cli.subcmd = "pub"
             THEN [cmd |-> "pub", topic |-> cli.topic, message |-> cli.message, qos |-> cli.qos]
             ELSE [cmd |-> "sub", filter |-> cli.topic]

-----------------------------------------------------------------------------
(* shard_benchmark: a missing or bad value panics, all else is ignored *)

BenchField == [f \in {"--channels", "--messages", "--batch-size"} |->
                 CASE f = "--channels" -> "channels"
                   [] f = "--messages" -> "messages_per_channel"
                   [] f = "--batch-size" -> "batch_size"]
BenchFlags == {"--host", "--port"} \cup DOMAIN BenchField

Panic == [panic |-> TRUE]

\* the address is left out of the configuration
BenchArgs(args) ==
    LET value(st, v) ==
          IF st.expect = "--host" \/ (st.expect = "--port" /\ IsU16(v))
          THEN [st EXCEPT !.expect = NoFlag]
          ELSE IF st.expect \in DOMAIN BenchField /\ IsNumber(v)
          THEN [st EXCEPT !.config[BenchField[st.expect]] = Number[v], !.expect = NoFlag]
          ELSE [st EXCEPT !.panic = TRUE]
        step(st, a) == IF st.panic THEN st
                       ELSE IF st.expect # NoFlag THEN value(st, a)
                       ELSE [st EXCEPT !.expect = IF a \in BenchFlags THEN a ELSE NoFlag]
        st == FoldLeft(step, [config |-> BenchDefault, expect |-> NoFlag, panic |-> FALSE], args)
    IN  IF st.panic \/ st.expect # NoFlag THEN Panic ELSE st.config
=============================================================================
