---------------------------- MODULE BlitzClient ----------------------------
(***************************************************************************)
(* blitzclient processes (src/src/bin/blitzclient.rs) and the broker, end  *)
(* to end: what a user types, the packets a process writes, the reader and *)
(* the shards (Broker), the outbound queue (DropOldest) and its writer     *)
(* thread, the socket, and what is printed.  Connections may be reset.     *)
(*                                                                         *)
(* The connections outside of Client belong to other programs: they send   *)
(* what Script says and never read, so that their writer blocks in         *)
(* write_all as soon as the socket is full.                                *)
(***************************************************************************)
EXTENDS Broker, CommandLine

CONSTANTS
    Client,         \* the connections of blitzclient processes
    Intent,         \* Intent[c]: what the user of c wants done
    CommandLines,   \* CommandLines[c]: ways to type it
    Together,       \* the sets of programs, by connection, that run at a time
    Capacity,       \* DEFAULT_CLIENT_QUEUE_CAPACITY
    SocketBuffer,   \* events a socket takes before write_all blocks
    Faulty          \* clients that the network or the user may cut off

CONNECT == [type |-> "CONNECT"]
HANGUP == [type |-> "HANGUP"]

\* the packet of run_pub, never with RETAIN, and the packet of run_sub
Request(cli) ==
    IF cli.cmd = "pub"
    THEN [type |-> "PUBLISH", topic |-> cli.topic, empty |-> cli.message = "",
          qos |-> cli.qos, retain |-> FALSE]
    ELSE [type |-> "SUBSCRIBE", filters |-> <<cli.filter>>]

\* all a broker can read from a blitzclient
ClientScript(cli) == << {CONNECT, HANGUP}, {Request(cli), HANGUP}, {HANGUP} >>

ASSUME ClientAssumption ==
    /\ Client \subseteq Conn
    /\ \A c \in Client : Script[c] = ClientScript(Intent[c])
    /\ Together \subseteq SUBSET Conn
    /\ SocketBuffer \in Nat \ {0}

VARIABLES
    proc,       \* proc[c]: where the process is; "absent" if it never runs
    cli,        \* cli[c]: what parse_args returns
    wrote,      \* wrote[c]: packets it has written, DISCONNECT not counted
    held,       \* held[c]: events in the outbound queue of c
    evicted,    \* evicted[c]: that queue has dropped an event
    writer,     \* writer[c]: "running", or "failed" after a write error
    wire,       \* wire[c]: events written to the socket, not yet read
    broken,     \* broken[c]: the connection has been reset
    printed,    \* printed[c]: the packets a sub has printed
    due         \* history: which sub was listening when which pub published

clientVars == <<proc, cli, wrote, printed, due>>
transportVars == <<held, evicted, writer, wire, broken>>
allVars == <<vars, clientVars, transportVars>>

\* "ok": exit code 0;  "err": main printed an error;  "killed": by the user
Over(c) == proc[c] \in {"ok", "err", "killed"}

\* Parsed[c]: what parse_args makes of the command lines that the user may type
Parsed == [c \in Client |-> {ClientCommand(args) : args \in CommandLines[c]}]

ClientInit ==
    /\ Init
    /\ \E running \in Together :
         proc = [c \in Conn |-> CASE c \notin running -> "absent"
                                  [] c \in running \cap Client -> "args"
                                  [] OTHER -> "open"]
    /\ cli \in [Client -> UNION {Parsed[c] : c \in Client}]
    /\ \A c \in Client : cli[c] \in Parsed[c]
    /\ wrote = [c \in Client |-> 0]
    /\ held = [c \in Conn |-> 0]
    /\ evicted = [c \in Conn |-> FALSE]
    /\ writer = [c \in Conn |-> "running"]
    /\ wire = [c \in Conn |-> <<>>]
    /\ broken = [c \in Conn |-> FALSE]
    /\ printed = [c \in Client |-> <<>>]
    /\ due = {}

-----------------------------------------------------------------------------
(* The process *)

\* main has parsed its arguments, and connect_to_broker writes CONNECT
Start(c) ==
    /\ proc[c] = "args"
    /\ LET bad == cli[c] = Usage
       IN  /\ proc' = [proc EXCEPT ![c] = IF bad THEN "err" ELSE "connack"]
           /\ wrote' = [wrote EXCEPT ![c] = IF bad THEN 0 ELSE 1]
    /\ UNCHANGED <<vars, transportVars, cli, printed, due>>

\* read_packet returns e
Reads(c, e) ==
    /\ wire[c] # <<>> /\ e = Head(wire[c])
    /\ wire' = [wire EXCEPT ![c] = Tail(@)]
    /\ UNCHANGED <<vars, held, evicted, writer, broken, cli>>

\* the subs that listen to the topic of the pub c
Listening(c) ==
    {s \in Client : /\ Intent[s].cmd = "sub" /\ proc[s] = "listening"
                    /\ Selects(Intent[s].filter, Intent[c].topic)}

\* the rest of connect_to_broker, and the packet that run_pub or run_sub
\* writes next; a pub with QoS 0 writes DISCONNECT too and is done
OnConnack(c, e) ==
    /\ proc[c] = "connack"
    /\ Reads(c, e)
    /\ IF e.type # "CONNACK"
       THEN /\ proc' = [proc EXCEPT ![c] = "err"]
            /\ UNCHANGED <<wrote, due>>
       ELSE /\ wrote' = [wrote EXCEPT ![c] = 2]
            /\ IF cli[c].cmd = "sub"
               THEN proc' = [proc EXCEPT ![c] = "suback"] /\ UNCHANGED due
               ELSE /\ proc' = [proc EXCEPT ![c] = IF cli[c].qos = 1 THEN "puback" ELSE "ok"]
                    /\ due' = due \cup {<<s, c>> : s \in Listening(c)}
    /\ UNCHANGED printed

\* run_pub with QoS 1: the PUBACK has to carry the identifier of the PUBLISH,
\* in Broker the number of the packet on its connection
OnPuback(c, e) ==
    /\ proc[c] = "puback"
    /\ Reads(c, e)
    /\ proc' = [proc EXCEPT ![c] = IF e.type = "PUBACK" /\ e.pid = 2 THEN "ok" ELSE "err"]
    /\ UNCHANGED <<wrote, printed, due>>

\* Mutant of OnSuback: whatever comes, the client waits on for its SUBACK.
OnSubackPatient(c, e) ==
    /\ proc[c] = "suback"
    /\ Reads(c, e)
    /\ proc' = [proc EXCEPT ![c] = IF e.type = "SUBACK" /\ e.pid = 2 THEN "listening" ELSE @]
    /\ UNCHANGED <<wrote, printed, due>>

\* run_sub: the packet after SUBSCRIBE has to be its SUBACK; the broker never
\* answers with 0x80
OnSuback(c, e) ==
    /\ proc[c] = "suback"
    /\ Reads(c, e)
    /\ proc' = [proc EXCEPT ![c] =
                  IF e.type = "SUBACK" /\ e.pid = 2 THEN "listening" ELSE "err"]
    /\ UNCHANGED <<wrote, printed, due>>

\* run_sub prints a PUBLISH and ignores everything else
OnMessage(c, e) ==
    /\ proc[c] = "listening"
    /\ Reads(c, e)
    /\ printed' = [printed EXCEPT ![c] =
                     IF e.type = "PUBLISH" THEN Append(@, e.packet) ELSE @]
    /\ UNCHANGED <<proc, wrote, due>>

\* read_packet fails: the end of a listening sub, an error for everybody else
ReadError(c) ==
    /\ broken[c]
    /\ proc[c] \in {"connack", "puback", "suback", "listening"}
    /\ proc' = [proc EXCEPT ![c] = IF @ = "listening" THEN "ok" ELSE "err"]
    /\ UNCHANGED <<vars, transportVars, cli, wrote, printed, due>>

\* Ctrl+C
Interrupt(c) ==
    /\ c \in Faulty
    /\ proc[c] = "listening"
    /\ proc' = [proc EXCEPT ![c] = "killed"]
    /\ UNCHANGED <<vars, transportVars, cli, wrote, printed, due>>

ProcessStep(c) ==
    \/ Start(c)
    \/ wire[c] # <<>> /\ LET e == Head(wire[c]) IN OnConnack(c, e) \/ OnPuback(c, e)
                                                    \/ OnSuback(c, e) \/ OnMessage(c, e)
    \/ ReadError(c)

-----------------------------------------------------------------------------
(* Broker, queue, writer_loop and socket *)

Q == INSTANCE DropOldest WITH pushed <- nread, taken <- wire

\* what a step of the broker pushes goes through the bounded queue
Transport ==
    /\ held' = [c \in Conn |-> IF outbound'[c] = outbound[c] THEN held[c]
                                                              ELSE Q!AfterPush(held[c])]
    /\ evicted' = [c \in Conn |-> \/ evicted[c]
                                  \/ outbound'[c] # outbound[c] /\ held'[c] = held[c]]
    /\ UNCHANGED <<clientVars, writer, wire, broken>>

\* the n-th packet the process has written
Written(c, n) == IF n = 1 THEN CONNECT ELSE Request(cli[c])

\* Mutant of BrokerRead: a read error or the end of the stream is not noticed,
\* only DISCONNECT is.
BrokerReadNoEof(c) ==
    /\ \/ nread[c] < wrote[c] /\ Dispatch(c, Written(c, nread[c] + 1))
       \/ proc[c] = "ok" /\ nread[c] = wrote[c] /\ Dispatch(c, HANGUP)
    /\ Transport

\* reader_loop gets the next packet of c; the end of the stream, or DISCONNECT,
\* after the last one; an error at any time once the connection is reset
BrokerRead(c) ==
    /\ \/ nread[c] < wrote[c] /\ Dispatch(c, Written(c, nread[c] + 1))
       \/ wrote[c] > 0 /\ (broken[c] \/ (Over(c) /\ nread[c] = wrote[c])) /\ Dispatch(c, HANGUP)
    /\ Transport

\* Mutant of WriterStep: the queue is drained from its newest end.
WriterStepNewest(c) ==
    /\ writer[c] = "running" /\ held[c] > 0
    /\ ~broken[c] /\ Len(wire[c]) < SocketBuffer
    /\ wire' = [wire EXCEPT ![c] = Append(@, outbound[c][Len(outbound[c])])]
    /\ held' = [held EXCEPT ![c] = @ - 1]
    /\ UNCHANGED <<vars, clientVars, evicted, broken, writer>>

\* writer_loop: pop_blocking, encode, write_all.  The event that write_all is
\* blocked with counts as written.  A reset, or a peer that is gone, fails it.
WriterStep(c) ==
    /\ writer[c] = "running" /\ held[c] > 0
    /\ held' = [held EXCEPT ![c] = @ - 1]
    /\ \/ /\ ~broken[c] /\ Len(wire[c]) < SocketBuffer
          /\ wire' = [wire EXCEPT ![c] =
                        Append(@, outbound[c][Q!OldestHeld(Len(outbound[c]), held[c])])]
          /\ UNCHANGED writer
       \/ /\ broken[c] \/ Over(c)
          /\ writer' = [writer EXCEPT ![c] = "failed"]
          /\ UNCHANGED wire
    /\ UNCHANGED <<vars, clientVars, evicted, broken>>

\* the network breaks the connection, what is in flight to the client is gone
Reset(c) ==
    /\ c \in Faulty
    /\ ~broken[c] /\ proc[c] \notin {"absent", "args"} /\ ~Over(c)
    /\ broken' = [broken EXCEPT ![c] = TRUE]
    /\ wire' = [wire EXCEPT ![c] = <<>>]
    /\ UNCHANGED <<vars, clientVars, held, evicted, writer>>

ClientNext ==
    \/ \E c \in Client : ProcessStep(c) \/ Interrupt(c) \/ BrokerRead(c) \/ Reset(c)
    \/ \E c \in Conn : proc[c] = "open" /\ ClientStep(c) /\ Transport
    \/ \E c \in Conn : ReaderStep(c) /\ Transport
    \/ \E s \in Shard : ShardStep(s) /\ Transport
    \/ \E c \in Conn : WriterStep(c)

ClientSpec == ClientInit /\ [][ClientNext]_allVars

\* the reader thread of c: at stream.read, or inside dispatch_packet
ReaderThread(c) ==
    \/ c \in Client /\ BrokerRead(c)
    \/ ReaderStep(c) /\ Transport

\* Processes and threads that can go on do; a reader that has something to
\* read reads it.  Nothing obliges the network to fail, the user to interrupt,
\* or another program to send.
ClientFairness ==
    /\ \A c \in Client : WF_allVars(ProcessStep(c))
    /\ \A c \in Conn : WF_allVars(ReaderThread(c)) /\ WF_allVars(WriterStep(c))
    /\ \A s \in Shard : WF_allVars(ShardStep(s) /\ Transport)

ClientFairSpec == ClientSpec /\ ClientFairness

-----------------------------------------------------------------------------
(* Properties *)

\* A sub never prints a publish twice, replayed and live or live twice, and
\* prints what one client publishes to a topic in order, whatever the queue
\* evicts on the way.
PrintsOnceInOrder ==
    \A s \in Client : \A i, j \in 1..Len(printed[s]) :
        LET p == printed[s][i]
            q == printed[s][j]
        IN  i < j /\ p.from = q.from /\ p.topic = q.topic => p.n < q.n

\* No process waits for ever for an answer of the broker: without a reset a
\* pub succeeds, and a sub is told something, even if its SUBACK falls victim
\* to the eviction of the queue it shares with the messages, and even if
\* another subscriber has stopped reading; and however the options are ordered
\* on the command line ("regardless of order", parse_args).
NobodyWaits ==
    <>(\A c \in Client \ Faulty :
         proc[c] # "absent" =>
            IF Intent[c].cmd = "pub" THEN proc[c] = "ok"
                                     ELSE proc[c] = "listening" \/ Over(c))

\* End to end: a sub that says it listens when a pub publishes to its filter
\* prints the message, unless its queue has overflowed or it has ended.
PublishIsPrinted ==
    []<>(\A s, c \in Client :
           <<s, c>> \in due =>
             \/ \E i \in 1..Len(printed[s]) : printed[s][i].from = c
             \/ evicted[s]
             \/ Over(s))

\* Whatever way a process ends, or its connection, the broker forgets it, for
\* good: also when only its writer thread has noticed so far.  (A peer that
\* vanishes without a FIN or RST is not a step of this model: there is no timer,
\* keep alive included, that would notice.)
EndedIsForgotten ==
    <>[](\A c \in Client :
           Over(c) \/ broken[c] => \A s \in Shard : Forgotten(c, s))

\* "The `sub` mode loops until the process is interrupted" (README): it ends
\* with an error only if its connection breaks.
SubLoopsUntilInterrupted ==
    \A c \in Client :
        Intent[c].cmd = "sub" /\ proc[c] = "err" => broken[c]
=============================================================================
