--------------------------- MODULE OutboundQueue ---------------------------
(***************************************************************************)
(* The outbound queue of one connection (src/src/queue.rs) together with   *)
(* the threads that use it: the writer thread that drains it               *)
(* (writer_loop), the producers that push to it (the connection's own      *)
(* reader thread, and the broker shards) and the reader thread that closes *)
(* it and then joins the writer (the tail of reader_loop and               *)
(* handle_connection).                                                     *)
(*                                                                         *)
(* Granularity.  A step is what happens under one acquisition of the       *)
(* "items" mutex, or one condition-variable operation, or one access to    *)
(* the "closed" flag, which has a mutex of its own.  An event is           *)
(* represented by its serial number in the order of the push calls, the    *)
(* only thing about its content the properties tell apart.                 *)
(***************************************************************************)
EXTENDS Naturals, Sequences

CONSTANTS Producer,   \* the threads that call push
          Reader,     \* the producer that also closes the queue
          Capacity,   \* DEFAULT_CLIENT_QUEUE_CAPACITY
          MaxPush     \* bound on the number of pushes

ASSUME QueueAssumption ==
    /\ Reader \in Producer
    /\ Capacity \in Nat \ {0}
    /\ MaxPush \in Nat

VARIABLES
    items,      \* the VecDeque behind the mutex
    closed,     \* the flag behind its own mutex
    producer,   \* producer[p]: "idle", or "notify" between unlock and notify_one
    closer,     \* the reader's way through close() and writer.join()
    writer,     \* where the writer thread is
    taken,      \* the events pop_blocking has returned, in order
    npush,      \* how many events have been pushed
    closeMark   \* history: npush when the flag was set

vars == <<items, closed, producer, closer, writer, taken, npush, closeMark>>

ProducerState == {"idle", "notify"}
CloserState == {"open", "notify", "joining", "done"}
\* "pop": in pop_blocking, about to take the items mutex (first call or woken)
\* "parking": holds the items mutex, found no item and closed = FALSE
\* "waiting": blocked in the condition variable, mutex released
\* "write": pop_blocking returned an event, encoding it and writing it
\* "exited": pop_blocking returned None;  "failed": write_all returned an error
WriterState == {"pop", "parking", "waiting", "write", "exited", "failed"}

\* Every variable has its type, and the bound that makes a slow subscriber
\* harmless holds: the deque never outgrows the capacity given to queue::new.
TypeOK ==
    /\ items \in Seq(Nat)
    /\ Len(items) <= Capacity
    /\ closed \in BOOLEAN
    /\ producer \in [Producer -> ProducerState]
    /\ closer \in CloserState
    /\ writer \in WriterState
    /\ taken \in Seq(Nat)
    /\ npush \in Nat
    /\ closeMark \in Nat

Elems(s) == {s[i] : i \in 1..Len(s)}

Init ==
    /\ items = <<>>
    /\ closed = FALSE
    /\ producer = [p \in Producer |-> "idle"]
    /\ closer = "open"
    /\ writer = "pop"
    /\ taken = <<>>
    /\ npush = 0
    /\ closeMark = 0

-----------------------------------------------------------------------------
(* push *)

\* The writer keeps the items mutex only while it is about to wait.
ItemsMutexFree == writer # "parking"

\* Mutants of Pushed: no eviction; the newest event makes room instead of the
\* oldest; eviction one event too early.
PushedUnbounded(q, item) == Append(q, item)
PushedDropNewest(q, item) ==
    Append(IF Len(q) >= Capacity THEN SubSeq(q, 1, Len(q) - 1) ELSE q, item)
PushedDropEarly(q, item) ==
    Append(IF Len(q) + 1 >= Capacity /\ q # <<>> THEN Tail(q) ELSE q, item)

\* What push leaves in the deque: the oldest event makes room when it is full.
Pushed(q, item) ==
    Append(IF Len(q) >= Capacity THEN Tail(q) ELSE q, item)

\* Mutant of Push: notify_one is forgotten.
PushSilent(p) ==
    /\ npush < MaxPush
    /\ ItemsMutexFree
    /\ producer[p] = "idle"
    /\ p = Reader => closer = "open"
    /\ items' = Pushed(items, npush + 1)
    /\ npush' = npush + 1
    /\ UNCHANGED <<closed, producer, closer, writer, taken, closeMark>>

\* lock, drop the oldest if full, push_back, unlock.  close() is the last call
\* the reader makes, a shard may still push to a closed queue.
Push(p) ==
    /\ npush < MaxPush
    /\ ItemsMutexFree
    /\ producer[p] = "idle"
    /\ p = Reader => closer = "open"
    /\ items' = Pushed(items, npush + 1)
    /\ npush' = npush + 1
    /\ producer' = [producer EXCEPT ![p] = "notify"]
    /\ UNCHANGED <<closed, closer, writer, taken, closeMark>>

\* A notification is not remembered: it reaches the writer only if it waits.
Woken(w) == IF w = "waiting" THEN "pop" ELSE w

\* not_empty.notify_one(), after the guard was dropped
NotifyOne(p) ==
    /\ producer[p] = "notify"
    /\ producer' = [producer EXCEPT ![p] = "idle"]
    /\ writer' = Woken(writer)
    /\ UNCHANGED <<items, closed, closer, taken, npush, closeMark>>

-----------------------------------------------------------------------------
(* pop_blocking, called by writer_loop *)

\* Mutant of PopItem: pop_back.
PopItemBack ==
    /\ writer = "pop"
    /\ items # <<>>
    /\ items' = SubSeq(items, 1, Len(items) - 1)
    /\ taken' = Append(taken, items[Len(items)])
    /\ writer' = "write"
    /\ UNCHANGED <<closed, producer, closer, npush, closeMark>>

\* pop_front returned an event
PopItem ==
    /\ writer = "pop"
    /\ items # <<>>
    /\ items' = Tail(items)
    /\ taken' = Append(taken, Head(items))
    /\ writer' = "write"
    /\ UNCHANGED <<closed, producer, closer, npush, closeMark>>

\* Mutant of PopClosed: the flag is looked at before the deque.
PopClosedFirst ==
    /\ writer = "pop"
    /\ closed
    /\ writer' = "exited"
    /\ UNCHANGED <<items, closed, producer, closer, taken, npush, closeMark>>

\* the deque is empty and the flag is set: None, which ends writer_loop
PopClosed ==
    /\ writer = "pop"
    /\ items = <<>>
    /\ closed
    /\ writer' = "exited"
    /\ UNCHANGED <<items, closed, producer, closer, taken, npush, closeMark>>

\* the deque is empty and the flag was read as FALSE: wait is called next, the
\* items mutex is still held, the mutex of the flag is not
PopPark ==
    /\ writer = "pop"
    /\ items = <<>>
    /\ ~closed
    /\ writer' = "parking"
    /\ UNCHANGED <<items, closed, producer, closer, taken, npush, closeMark>>

\* Condvar::wait releases the mutex and blocks, atomically
Wait ==
    /\ writer = "parking"
    /\ writer' = "waiting"
    /\ UNCHANGED <<items, closed, producer, closer, taken, npush, closeMark>>

\* std::sync::Condvar may wake a waiter that nobody notified
SpuriousWakeup ==
    /\ writer = "waiting"
    /\ writer' = "pop"
    /\ UNCHANGED <<items, closed, producer, closer, taken, npush, closeMark>>

\* write_all succeeded, the loop calls pop_blocking again
WriteOk ==
    /\ writer = "write"
    /\ writer' = "pop"
    /\ UNCHANGED <<items, closed, producer, closer, taken, npush, closeMark>>

\* write_all failed: break
WriteErr ==
    /\ writer = "write"
    /\ writer' = "failed"
    /\ UNCHANGED <<items, closed, producer, closer, taken, npush, closeMark>>

-----------------------------------------------------------------------------
(* close, and the join of the writer *)

\* the flag is set under its own mutex, not under the items mutex
CloseSet ==
    /\ closer = "open"
    /\ producer[Reader] = "idle"
    /\ closed' = TRUE
    /\ closeMark' = npush
    /\ closer' = "notify"
    /\ UNCHANGED <<items, producer, writer, taken, npush>>

\* not_empty.notify_all()
CloseNotify ==
    /\ closer = "notify"
    /\ closer' = "joining"
    /\ writer' = Woken(writer)
    /\ UNCHANGED <<items, closed, producer, taken, npush, closeMark>>

\* writer.join() returns, the connection's thread ends
Join ==
    /\ closer = "joining"
    /\ writer \in {"exited", "failed"}
    /\ closer' = "done"
    /\ UNCHANGED <<items, closed, producer, writer, taken, npush, closeMark>>

-----------------------------------------------------------------------------
PopStep == PopItem \/ PopClosed \/ PopPark \/ Wait

WriteStep == WriteOk \/ WriteErr

CloserStep == CloseSet \/ CloseNotify \/ Join

Next ==
    \/ \E p \in Producer : Push(p) \/ NotifyOne(p)
    \/ PopStep
    \/ WriteStep
    \/ SpuriousWakeup
    \/ CloserStep

Spec == Init /\ [][Next]_vars

\* A thread that can run is scheduled: the writer inside pop_blocking, a
\* producer that has to notify, a reader inside close() or join().  Nobody is
\* obliged to push, to close or to wake spuriously, and write_all may block
\* for as long as the peer does not read.
Fairness ==
    /\ WF_vars(PopStep)
    /\ \A p \in Producer : WF_vars(NotifyOne(p))
    /\ WF_vars(CloseNotify)
    /\ WF_vars(Join)

FairSpec == Spec /\ Fairness

-----------------------------------------------------------------------------
(* Properties *)

\* The deque always holds the most recent events, without a gap and in the
\* order of the push calls: push evicts at the front and nowhere else, however
\* pushes, pops and evictions interleave.
ItemsAreNewest ==
    \A i \in 1..Len(items) : items[i] = npush - Len(items) + i

\* pop_blocking hands the events to the writer in the order of the push calls,
\* none of them twice, and none of those still queued.
TakenInOrder ==
    /\ \A i, j \in 1..Len(taken) : i < j => taken[i] < taken[j]
    /\ \A i \in 1..Len(taken) : taken[i] <= npush - Len(items)

\* Drop-oldest loses only what it must: an event that is neither queued nor
\* handed to the writer has been overtaken by Capacity newer ones.
OnlyOverflowLost ==
    \A k \in 1..npush :
        \/ k + Capacity <= npush
        \/ k \in Elems(items)
        \/ k \in Elems(taken)

\* No lost wakeup on push: the writer sleeps beside a non-empty deque only
\* while some producer is between its unlock and its notify_one.
NoLostPush ==
    writer = "waiting" /\ items # <<>> =>
        \E p \in Producer : producer[p] = "notify"

\* close() flushes: a writer that left through pop_blocking's None has left
\* behind no event that was pushed before the flag was set.
FlushBeforeExit ==
    writer = "exited" => \A k \in Elems(items) : k > closeMark

\* The socket does not block the writer for ever.
PeerReads == []<>(writer # "write")

Ended == writer \in {"exited", "failed"}

\* Every queued event eventually leaves the deque, taken or evicted, unless
\* the writer has ended, provided the socket does not block for ever: no
\* interleaving of push, notify_one and pop_blocking strands an event.
EventLeaves ==
    PeerReads =>
        \A k \in 1..MaxPush :
            k \in Elems(items) ~> (k \notin Elems(items) \/ Ended)

\* Locks, wakeups and teardown change nothing about what the queue promises:
\* every step of every thread is a push, a pop or nothing of DropOldest.
Abstract == INSTANCE DropOldest WITH pushed <- npush, held <- Len(items)

ImplementsDropOldest == Abstract!Spec

\* "Mark the queue closed and wake any blocked consumer so it can exit"
\* (queue.rs, close): once the flag is set the writer ends, provided the
\* socket does not block for ever.
ClosedWriterExits ==
    PeerReads => (closed ~> Ended)
=============================================================================
