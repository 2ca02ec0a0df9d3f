------------------------------- MODULE Server -------------------------------
(***************************************************************************)
(* Start-up and accept loop of the broker (src/src/main.rs) and what       *)
(* handle_connection (connection.rs) does before its reader and writer     *)
(* run: each accepted connection gets a thread, and its thread an id.      *)
(***************************************************************************)
EXTENDS CommandLine, FiniteSetsExt

CONSTANTS
    Peer,           \* the connections that clients open
    ServerArgs,     \* the command lines the broker may be started with
    Unreachable     \* peers whose accept or whose try_clone may fail

ASSUME ServerAssumption ==
    /\ Number \in [DOMAIN Number -> Nat]
    /\ ServerDefault \in [host : STRING, port : STRING, num_shards : STRING]
    /\ IsNumber(ServerDefault.num_shards) /\ Number[ServerDefault.num_shards] >= 1
    /\ ServerArgs \subseteq Seq(STRING)

VARIABLES
    args,       \* the command line, until main is done with it
    server,     \* "args", "bind", "accepting", "exited" or "panicked"
    conn,       \* conn[t]: how far the connection of peer t is
    id,         \* id[t]: its ConnectionId, 0 before it has one
    counter     \* NEXT_CONNECTION_ID

serverVars == <<args, server, conn, id, counter>>

\* "idle": not opened;  "queued": in the backlog of the listener;  "accepted":
\* its thread runs;  "numbered": it has an id;  "serving": reader and writer
\* run;  "closed": given up by the broker

ServerInit ==
    /\ args \in ServerArgs
    /\ server = "args"
    /\ conn = [t \in Peer |-> "idle"]
    /\ id = [t \in Peer |-> 0]
    /\ counter = 1

\* parse_args, then spawn_sharded_broker with its assertion
StartShards ==
    /\ server = "args"
    /\ server' = IF Number[ServerConfig(args).num_shards] >= 1 THEN "bind" ELSE "panicked"
    /\ UNCHANGED <<args, conn, id, counter>>

\* TcpListener::bind works or not; the arguments are not used again
Bind ==
    /\ server = "bind"
    /\ server' \in {"accepting", "exited"}
    /\ args' = <<>>
    /\ UNCHANGED <<conn, id, counter>>

\* listener.incoming() yields the connection: a thread is spawned for it
Accept(t) ==
    /\ server = "accepting"
    /\ conn[t] = "queued"
    /\ conn' = [conn EXCEPT ![t] = "accepted"]
    /\ UNCHANGED <<args, server, id, counter>>

\* listener.incoming() yields an error, which is logged: the loop goes on
AcceptError(t) ==
    /\ server = "accepting"
    /\ conn[t] = "queued" /\ t \in Unreachable
    /\ conn' = [conn EXCEPT ![t] = "closed"]
    /\ UNCHANGED <<args, server, id, counter>>

\* Mutant of next_connection_id: load and store instead of fetch_add, so that
\* the increment of another thread may be lost.
next_connection_id_torn(t) ==
    /\ id' = [id EXCEPT ![t] = counter]
    /\ counter' \in {counter, counter + 1}

\* fetch_add
next_connection_id(t) ==
    /\ id' = [id EXCEPT ![t] = counter]
    /\ counter' = counter + 1

TakeId(t) ==
    /\ conn[t] = "accepted"
    /\ next_connection_id(t)
    /\ conn' = [conn EXCEPT ![t] = "numbered"]
    /\ UNCHANGED <<args, server>>

\* try_clone, then the queue and the writer thread; if it fails the thread
\* returns and the socket is closed
StartThreads(t) ==
    /\ conn[t] = "numbered"
    /\ \/ conn' = [conn EXCEPT ![t] = "serving"]
       \/ t \in Unreachable /\ conn' = [conn EXCEPT ![t] = "closed"]
    /\ UNCHANGED <<args, server, id, counter>>

AcceptStep(t) == Accept(t) \/ AcceptError(t)
HandlerStep(t) == TakeId(t) \/ StartThreads(t)

ServerNext ==
    \/ StartShards
    \/ Bind
    \/ \E t \in Peer : AcceptStep(t) \/ HandlerStep(t)

-----------------------------------------------------------------------------
(* Properties *)

\* args[k] is a flag and not the value of the flag before it: the run of flags
\* before it has even length
IsOption(k) ==
    /\ args[k] \in ServerFlags
    /\ \E j \in 1..k :
         /\ \A m \in j..(k - 1) : args[m] \in ServerFlags
         /\ j = 1 \/ args[j - 1] \notin ServerFlags
         /\ (k - j) % 2 = 0

\* what a reader of the usage line expects: the last valid value of the flag
LastValid(flag, ok(_), default) ==
    LET given == {k \in 1..(Len(args) - 1) :
                    IsOption(k) /\ args[k] = flag /\ ok(args[k + 1])}
    IN  IF given = {} THEN default ELSE args[Max(given) + 1]

\* However flags, values and junk are mixed on the command line, each option
\* has its last valid value or its default, and the broker gets at least one
\* shard: the assertion in spawn_sharded_broker never stops it.
ConfigIsLastValid ==
    /\ server # "panicked"
    /\ server = "bind" =>
         ServerConfig(args) =
           [host |-> LastValid("--host", LAMBDA v : TRUE, ServerDefault.host),
            port |-> LastValid("--port", IsU16, ServerDefault.port),
            num_shards |-> LastValid("--shards", LAMBDA v : IsNumber(v) /\ Number[v] >= 1,
                                     ServerDefault.num_shards)]

\* The key of a client in every registry is its own: "Allocate a new unique
\* connection id" (next_connection_id), although the connection threads take
\* their ids concurrently.
UniqueIds ==
    \A t, u \in Peer : t # u /\ id[t] # 0 => id[t] # id[u]
=============================================================================
