----------------------------- MODULE DropOldest -----------------------------
(***************************************************************************)
(* What the outbound queue of a connection promises to those who use it: a *)
(* buffer of Capacity events that never blocks the producer, evicts its    *)
(* oldest event when it is full, and hands out the others in order.        *)
(* Events are the numbers 1, 2, 3, ... in the order in which they are      *)
(* pushed; the buffer is always the last held of them.  There are no       *)
(* threads, locks or wakeups here: OutboundQueue implements this.          *)
(***************************************************************************)
EXTENDS Naturals, Sequences

CONSTANT Capacity

VARIABLES
    pushed,     \* how many events have been pushed
    held,       \* how many of them are in the buffer
    taken       \* the events handed out, in order

AfterPush(h) == IF h < Capacity THEN h + 1 ELSE h

OldestHeld(n, h) == n - h + 1

Init ==
    /\ pushed = 0
    /\ held = 0
    /\ taken = <<>>

Push ==
    /\ pushed' = pushed + 1
    /\ held' = AfterPush(held)
    /\ UNCHANGED taken

Pop ==
    /\ held > 0
    /\ held' = held - 1
    /\ taken' = Append(taken, OldestHeld(pushed, held))
    /\ UNCHANGED pushed

Next == Push \/ Pop

Spec == Init /\ [][Next]_<<pushed, held, taken>>
=============================================================================
