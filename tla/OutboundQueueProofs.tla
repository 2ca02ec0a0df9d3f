------------------------ MODULE OutboundQueueProofs ------------------------
(***************************************************************************)
(* The safety of the outbound queue, for every set of producers, every     *)
(* capacity and every number of pushes.  QInv is the inductive invariant:  *)
(* the properties of OutboundQueue and the facts about the writer and the  *)
(* closing reader that make them inductive.                                *)
(***************************************************************************)
EXTENDS OutboundQueue, SequenceTheorems, TLAPS

\* The writer holds the items mutex only over an empty deque, the flag follows
\* the closing reader, and the exited writer saw the flag and drained up to it.
Control ==
    /\ writer = "parking" => items = <<>>
    /\ closed <=> closer # "open"
    /\ closeMark <= npush
    /\ Len(items) <= npush
    /\ writer = "exited" => closed /\ closeMark <= npush - Len(items)

QInv ==
    /\ TypeOK
    /\ Control
    /\ ItemsAreNewest
    /\ TakenInOrder
    /\ OnlyOverflowLost
    /\ NoLostPush

\* What push does to the deque: the length stays within the capacity, the new
\* event is last, and the others keep their order, shifted by one if the
\* oldest was evicted.
LEMMA PushedShape ==
    ASSUME NEW q \in Seq(Nat), NEW e \in Nat, Len(q) <= Capacity
    PROVE  /\ Pushed(q, e) \in Seq(Nat)
           /\ Len(q) < Capacity =>
                /\ Len(Pushed(q, e)) = Len(q) + 1
                /\ \A i \in 1..Len(q) : Pushed(q, e)[i] = q[i]
           /\ Len(q) = Capacity =>
                /\ Len(Pushed(q, e)) = Len(q)
                /\ \A i \in 1..Len(q) - 1 : Pushed(q, e)[i] = q[i + 1]
           /\ Len(Pushed(q, e)) \in 1..Capacity
           /\ Pushed(q, e)[Len(Pushed(q, e))] = e
<1> USE QueueAssumption
<1>1. CASE Len(q) < Capacity
  <2>1. Pushed(q, e) = Append(q, e)
    BY <1>1 DEF Pushed
  <2> QED
    BY <1>1, <2>1
<1>2. CASE Len(q) = Capacity
  <2>1. Pushed(q, e) = Append(Tail(q), e)
    BY <1>2 DEF Pushed
  <2>2. q # <<>>
    BY <1>2
  <2>3. /\ Tail(q) \in Seq(Nat)
        /\ Len(Tail(q)) = Len(q) - 1
        /\ \A i \in 1..Len(q) - 1 : Tail(q)[i] = q[i + 1]
    BY <2>2, HeadTailProperties
  <2> QED
    BY <1>2, <2>1, <2>3
<1> QED
  BY <1>1, <1>2

LEMMA QInitInv == Init => QInv
<1> SUFFICES ASSUME Init PROVE QInv
  OBVIOUS
<1>1. TypeOK
  <2>1. items \in Seq(Nat) /\ taken \in Seq(Nat) /\ Len(items) <= Capacity
    BY QueueAssumption DEF Init
  <2>2. closed \in BOOLEAN /\ npush \in Nat /\ closeMark \in Nat
    BY DEF Init
  <2>3. producer \in [Producer -> ProducerState]
    BY DEF Init, ProducerState
  <2>4. closer \in CloserState /\ writer \in WriterState
    BY DEF Init, CloserState, WriterState
  <2> QED
    BY <2>1, <2>2, <2>3, <2>4 DEF TypeOK
<1>2. Control
  BY DEF Init, Control
<1>3. ItemsAreNewest /\ TakenInOrder
  BY DEF Init, ItemsAreNewest, TakenInOrder
<1>4. OnlyOverflowLost /\ NoLostPush
  BY DEF Init, OnlyOverflowLost, NoLostPush
<1> QED
  BY <1>1, <1>2, <1>3, <1>4 DEF QInv

\* push keeps the invariant.
LEMMA PushInv ==
    ASSUME QInv, NEW p \in Producer, Push(p)
    PROVE  QInv'
<1> DEFINE q == Pushed(items, npush + 1)
<1>0. /\ items' = q /\ npush' = npush + 1
      /\ writer # "parking"
      /\ producer' = [producer EXCEPT ![p] = "notify"]
      /\ UNCHANGED <<closed, closer, writer, taken, closeMark>>
  BY DEF Push, ItemsMutexFree
<1>1. /\ q \in Seq(Nat)
      /\ Len(items) < Capacity =>
            /\ Len(q) = Len(items) + 1
            /\ \A i \in 1..Len(items) : q[i] = items[i]
      /\ Len(items) = Capacity =>
            /\ Len(q) = Len(items)
            /\ \A i \in 1..Len(items) - 1 : q[i] = items[i + 1]
      /\ Len(q) \in 1..Capacity
      /\ q[Len(q)] = npush + 1
  BY PushedShape DEF QInv, TypeOK
<1> HIDE DEF q
<1>2. TypeOK'
  BY <1>0, <1>1, QueueAssumption DEF QInv, TypeOK, ProducerState
<1>3. Control'
  BY <1>0, <1>1, QueueAssumption DEF QInv, TypeOK, Control
<1>4. ItemsAreNewest'
  <2> SUFFICES ASSUME NEW i \in 1..Len(items')
               PROVE  items'[i] = npush' - Len(items') + i
    BY DEF ItemsAreNewest
  <2>0. npush \in Nat /\ Len(items) \in Nat /\ Len(q) \in Nat
    BY <1>1 DEF QInv, TypeOK
  <2>1. CASE i = Len(q)
    BY <1>0, <1>1, <2>0, <2>1
  <2>2. CASE i # Len(q) /\ Len(items) < Capacity
    <3>1. i \in 1..Len(items) /\ q[i] = items[i]
      BY <1>0, <2>0, <2>2, <1>1
    <3>2. items[i] = npush - Len(items) + i
      BY <3>1 DEF QInv, ItemsAreNewest
    <3>3. Len(q) = Len(items) + 1
      BY <2>2, <1>1
    <3> QED
      BY <1>0, <2>0, <3>1, <3>2, <3>3
  <2>3. CASE i # Len(q) /\ Len(items) = Capacity
    <3>1. i \in 1..Len(items) - 1 /\ q[i] = items[i + 1]
      BY <1>0, <2>0, <2>3, <1>1
    <3>2. items[i + 1] = npush - Len(items) + (i + 1)
      BY <2>0, <3>1 DEF QInv, ItemsAreNewest
    <3>3. Len(q) = Len(items)
      BY <2>3, <1>1
    <3> QED
      BY <1>0, <2>0, <3>1, <3>2, <3>3
  <2> QED
    BY <1>0, <2>0, <2>1, <2>2, <2>3, QueueAssumption DEF QInv, TypeOK
<1>5. TakenInOrder'
  <2>1. npush \in Nat /\ Len(items) \in Nat /\ Len(items) <= Capacity /\ taken \in Seq(Nat)
    BY DEF QInv, TypeOK
  <2>2. npush - Len(items) <= npush' - Len(items')
    BY <1>0, <1>1, <2>1, QueueAssumption
  <2>3. \A i \in 1..Len(taken) : taken[i] <= npush' - Len(items')
    <3> SUFFICES ASSUME NEW i \in 1..Len(taken) PROVE taken[i] <= npush' - Len(items')
      OBVIOUS
    <3>1. taken[i] \in Nat /\ taken[i] <= npush - Len(items)
      BY <2>1 DEF QInv, TakenInOrder
    <3>2. npush' - Len(items') \in Int
      BY <1>0, <1>1, <2>1
    <3> QED
      BY <2>1, <2>2, <3>1, <3>2
  <2>4. \A i, j \in 1..Len(taken) : i < j => taken[i] < taken[j]
    BY DEF QInv, TakenInOrder
  <2>5. taken' = taken
    BY <1>0
  <2> QED
    BY <2>3, <2>4, <2>5 DEF TakenInOrder
<1>6. OnlyOverflowLost'
  <2> SUFFICES ASSUME NEW k \in 1..(npush + 1), ~(k + Capacity <= npush + 1)
               PROVE  k \in Elems(q) \/ k \in Elems(taken)
    BY <1>0 DEF OnlyOverflowLost, Elems
  <2>1. CASE k = npush + 1
    BY <2>1, <1>1 DEF Elems
  <2>2. CASE k # npush + 1 /\ k \in Elems(items)
    <3>1. PICK i \in 1..Len(items) : items[i] = k
      BY <2>2 DEF Elems
    <3>2. k = npush - Len(items) + i
      BY <3>1 DEF QInv, ItemsAreNewest
    <3>3. CASE Len(items) < Capacity
      BY <3>1, <3>3, <1>1 DEF Elems, QInv, TypeOK
    <3>4. CASE Len(items) = Capacity
      <4>1. i - 1 \in 1..Len(items) - 1
        BY <3>2, <3>4, QueueAssumption DEF QInv, TypeOK
      <4>2. q[i - 1] = k
        BY <4>1, <3>1, <3>4, <1>1 DEF QInv, TypeOK
      <4> QED
        BY <4>1, <4>2, <1>1, <3>4 DEF Elems, QInv, TypeOK
    <3> QED
      BY <3>3, <3>4, QueueAssumption DEF QInv, TypeOK
  <2>3. CASE k # npush + 1 /\ k \notin Elems(items)
    BY <2>3, QueueAssumption DEF QInv, TypeOK, OnlyOverflowLost
  <2> QED
    BY <2>1, <2>2, <2>3
<1>7. NoLostPush'
  BY <1>0 DEF QInv, TypeOK, NoLostPush
<1> QED
  BY <1>2, <1>3, <1>4, <1>5, <1>6, <1>7 DEF QInv

\* pop_front keeps the invariant: the event that leaves the deque is the next
\* one in the order of the pushes.
LEMMA PopItemInv ==
    ASSUME QInv, PopItem
    PROVE  QInv'
<1>0. /\ writer = "pop" /\ writer' = "write"
      /\ items # <<>>
      /\ items' = Tail(items)
      /\ taken' = Append(taken, Head(items))
      /\ UNCHANGED <<closed, producer, closer, npush, closeMark>>
  BY DEF PopItem
<1>1. /\ Tail(items) \in Seq(Nat)
      /\ Len(Tail(items)) = Len(items) - 1
      /\ Len(items) \in Nat \ {0}
      /\ Head(items) = items[1]
      /\ Head(items) \in Nat
      /\ \A i \in 1..Len(items) - 1 : Tail(items)[i] = items[i + 1]
  BY <1>0, HeadTailProperties DEF QInv, TypeOK
<1>2. Head(items) = npush - Len(items) + 1
  BY <1>1 DEF QInv, ItemsAreNewest
<1>9. /\ taken' \in Seq(Nat)
      /\ Len(taken') = Len(taken) + 1
      /\ \A i \in 1..Len(taken) : taken'[i] = taken[i]
      /\ taken'[Len(taken) + 1] = Head(items)
  BY <1>0, <1>1, AppendProperties DEF QInv, TypeOK
<1>3. TypeOK'
  <2>1. items' \in Seq(Nat) /\ Len(items') <= Capacity
    BY <1>0, <1>1, QueueAssumption DEF QInv, TypeOK
  <2>2. writer' \in WriterState
    BY <1>0 DEF WriterState
  <2> QED
    BY <1>0, <1>9, <2>1, <2>2 DEF QInv, TypeOK
<1>4. Control'
  BY <1>0, <1>1 DEF QInv, TypeOK, Control
<1>5. ItemsAreNewest'
  BY <1>0, <1>1 DEF QInv, TypeOK, Control, ItemsAreNewest
<1>6. TakenInOrder'
  <2>0. /\ npush \in Nat /\ Len(items) \in Nat /\ Len(taken) \in Nat
        /\ \A i \in 1..Len(taken) : taken[i] \in Nat
    BY DEF QInv, TypeOK
  <2>1. npush' - Len(items') = npush - Len(items) + 1
    BY <1>0, <1>1, <2>0
  <2>2. \A i \in 1..Len(taken) : taken'[i] <= npush - Len(items)
    BY <1>9 DEF QInv, TakenInOrder
  <2>3. taken'[Len(taken) + 1] = npush - Len(items) + 1
    BY <1>9, <1>2
  <2>4. ASSUME NEW i \in 1..Len(taken'), NEW j \in 1..Len(taken'), i < j
        PROVE  taken'[i] < taken'[j]
    <3>1. i \in 1..Len(taken) /\ taken'[i] = taken[i] /\ taken[i] \in Nat
      BY <1>9, <2>0, <2>4
    <3>2. CASE j = Len(taken) + 1
      <4>1. taken[i] <= npush - Len(items)
        BY <2>2, <3>1
      <4> QED
        BY <2>0, <2>3, <3>1, <3>2, <4>1
    <3>3. CASE j \in 1..Len(taken)
      <4>1. taken[i] < taken[j] /\ taken'[j] = taken[j]
        BY <1>9, <2>4, <3>1, <3>3 DEF QInv, TakenInOrder
      <4> QED
        BY <3>1, <4>1
    <3> QED
      BY <1>9, <2>0, <3>2, <3>3
  <2>5. ASSUME NEW i \in 1..Len(taken')
        PROVE  taken'[i] <= npush - Len(items) + 1
    <3>1. CASE i = Len(taken) + 1
      BY <2>0, <2>3, <3>1
    <3>2. CASE i \in 1..Len(taken)
      <4>1. taken'[i] \in Nat /\ taken'[i] <= npush - Len(items)
        BY <1>9, <2>0, <2>2, <3>2
      <4> QED
        BY <2>0, <4>1
    <3> QED
      BY <1>9, <2>0, <3>1, <3>2
  <2> QED
    BY <2>1, <2>4, <2>5 DEF TakenInOrder
<1>7. OnlyOverflowLost'
  <2> SUFFICES ASSUME NEW k \in 1..npush, ~(k + Capacity <= npush)
               PROVE  k \in Elems(Tail(items)) \/ k \in Elems(taken')
    BY <1>0 DEF OnlyOverflowLost, Elems
  <2>1. CASE k \in Elems(items)
    <3>1. PICK i \in 1..Len(items) : items[i] = k
      BY <2>1 DEF Elems
    <3>2. CASE i = 1
      BY <3>1, <3>2, <1>1, <1>9 DEF Elems, QInv, TypeOK
    <3>3. CASE i # 1
      <4>1. i - 1 \in 1..Len(items) - 1 /\ Tail(items)[i - 1] = k
        BY <3>1, <3>3, <1>1
      <4> QED
        BY <4>1, <1>1 DEF Elems
    <3> QED
      BY <3>2, <3>3
  <2>2. CASE k \in Elems(taken)
    <3>1. PICK i \in 1..Len(taken) : taken[i] = k
      BY <2>2 DEF Elems
    <3>2. taken \in Seq(Nat)
      BY DEF QInv, TypeOK
    <3>3. i \in 1..Len(taken') /\ taken'[i] = k
      BY <1>9, <3>1, <3>2
    <3> QED
      BY <3>3 DEF Elems
  <2> QED
    BY <2>1, <2>2 DEF QInv, OnlyOverflowLost
<1>8. NoLostPush'
  BY <1>0 DEF NoLostPush
<1> QED
  BY <1>3, <1>4, <1>5, <1>6, <1>7, <1>8 DEF QInv

\* No other step touches the deque, what was taken or the number of pushes.
LEMMA QNextInv == QInv /\ [Next]_vars => QInv'
<1> SUFFICES ASSUME QInv, [Next]_vars PROVE QInv'
  OBVIOUS
<1> DEFINE Frame == /\ items' = items /\ taken' = taken /\ npush' = npush
<1>1. ASSUME NEW p \in Producer, Push(p) PROVE QInv'
  BY <1>1, PushInv
<1>2. CASE PopItem
  BY <1>2, PopItemInv
<1>3. ASSUME Frame, TypeOK', Control', NoLostPush' PROVE QInv'
  BY <1>3 DEF QInv, ItemsAreNewest, TakenInOrder, OnlyOverflowLost, Elems
<1>4. ASSUME NEW p \in Producer, NotifyOne(p) PROVE QInv'
  <2>1. Frame /\ TypeOK'
    BY <1>4 DEF NotifyOne, Woken, QInv, TypeOK, ProducerState, WriterState
  <2>2. Control' /\ NoLostPush'
    BY <1>4 DEF NotifyOne, Woken, QInv, TypeOK, Control, NoLostPush
  <2> QED
    BY <1>3, <2>1, <2>2
<1>5. CASE PopClosed \/ PopPark \/ Wait \/ SpuriousWakeup \/ WriteOk \/ WriteErr
  <2>1. Frame /\ TypeOK'
    BY <1>5 DEF PopClosed, PopPark, Wait, SpuriousWakeup, WriteOk, WriteErr,
                QInv, TypeOK, WriterState
  <2>2. Control'
    BY <1>5 DEF PopClosed, PopPark, Wait, SpuriousWakeup, WriteOk, WriteErr,
                QInv, TypeOK, Control
  <2>3. NoLostPush'
    BY <1>5 DEF PopClosed, PopPark, Wait, SpuriousWakeup, WriteOk, WriteErr,
                QInv, Control, NoLostPush
  <2> QED
    BY <1>3, <2>1, <2>2, <2>3
<1>6. CASE CloserStep
  <2>1. Frame /\ TypeOK'
    BY <1>6 DEF CloserStep, CloseSet, CloseNotify, Join, Woken,
                QInv, TypeOK, CloserState, WriterState
  <2>2. Control'
    BY <1>6 DEF CloserStep, CloseSet, CloseNotify, Join, Woken, QInv, TypeOK, Control
  <2>3. NoLostPush'
    BY <1>6 DEF CloserStep, CloseSet, CloseNotify, Join, Woken, QInv, NoLostPush
  <2> QED
    BY <1>3, <2>1, <2>2, <2>3
<1>7. CASE UNCHANGED vars
  BY <1>7 DEF vars, QInv, TypeOK, Control, ItemsAreNewest, TakenInOrder,
              OnlyOverflowLost, NoLostPush, Elems
<1> QED
  BY <1>1, <1>2, <1>4, <1>5, <1>6, <1>7 DEF Next, PopStep, WriteStep

LEMMA QInvariant == Spec => []QInv
BY QInitInv, QNextInv, PTL DEF Spec

\* The deque never holds more than Capacity events (and every variable keeps
\* its type), whatever the producers, the writer and close() do.
THEOREM QueueTypeOK == Spec => []TypeOK
<1>1. QInv => TypeOK
  BY DEF QInv
<1> QED
  BY <1>1, QInvariant, PTL

\* push evicts only at the front: the deque is the gapless tail of the events.
THEOREM QueueHoldsNewest == Spec => []ItemsAreNewest
<1>1. QInv => ItemsAreNewest
  BY DEF QInv
<1> QED
  BY <1>1, QInvariant, PTL

\* pop_blocking returns the events in push order, each at most once.
THEOREM QueueFifo == Spec => []TakenInOrder
<1>1. QInv => TakenInOrder
  BY DEF QInv
<1> QED
  BY <1>1, QInvariant, PTL

\* An event is lost only after Capacity newer events were pushed.
THEOREM QueueLosesOnlyOverflow == Spec => []OnlyOverflowLost
<1>1. QInv => OnlyOverflowLost
  BY DEF QInv
<1> QED
  BY <1>1, QInvariant, PTL

\* The writer never sleeps on a non-empty deque that nobody will announce.
THEOREM QueueNoLostPush == Spec => []NoLostPush
<1>1. QInv => NoLostPush
  BY DEF QInv
<1> QED
  BY <1>1, QInvariant, PTL

\* A writer that exits through None drained everything pushed before close().
THEOREM QueueFlushes == Spec => []FlushBeforeExit
<1>1. QInv => FlushBeforeExit
  <2> SUFFICES ASSUME QInv, writer = "exited", NEW i \in 1..Len(items)
               PROVE  items[i] > closeMark
    BY DEF FlushBeforeExit, Elems
  <2>1. items[i] = npush - Len(items) + i
    BY DEF QInv, ItemsAreNewest
  <2> QED
    BY <2>1 DEF QInv, TypeOK, Control
<1> QED
  BY <1>1, QInvariant, PTL

-----------------------------------------------------------------------------
(* OutboundQueue implements DropOldest *)

\* A push of any producer is a push of the abstract buffer.
LEMMA PushRefines ==
    ASSUME QInv, NEW p \in Producer, Push(p)
    PROVE  Abstract!Push
<1>1. /\ Len(items) < Capacity => Len(items') = Len(items) + 1
      /\ Len(items) = Capacity => Len(items') = Len(items)
      /\ npush' = npush + 1
      /\ taken' = taken
  BY PushedShape DEF QInv, TypeOK, Push
<1>2. Len(items) <= Capacity /\ Len(items) \in Nat
  BY DEF QInv, TypeOK
<1> QED
  BY <1>1, <1>2, QueueAssumption DEF Abstract!Push, Abstract!AfterPush

\* pop_front hands out the oldest event the abstract buffer holds: the deque is
\* the gapless tail of the pushes.
LEMMA PopRefines ==
    ASSUME QInv, PopItem
    PROVE  Abstract!Pop
<1>1. /\ Len(items) \in Nat \ {0}
      /\ Len(items') = Len(items) - 1
      /\ Head(items) = items[1]
  BY HeadTailProperties DEF QInv, TypeOK, PopItem
<1>2. Head(items) = npush - Len(items) + 1
  BY <1>1 DEF QInv, ItemsAreNewest
<1>3. taken' = Append(taken, Head(items)) /\ npush' = npush
  BY DEF PopItem
<1> QED
  BY <1>1, <1>2, <1>3 DEF Abstract!Pop, Abstract!OldestHeld

\* Every step of every thread is a push, a pop or nothing of the buffer.
LEMMA StepRefines ==
    QInv /\ [Next]_vars => [Abstract!Next]_<<npush, Len(items), taken>>
<1> SUFFICES ASSUME QInv, [Next]_vars
             PROVE  [Abstract!Next]_<<npush, Len(items), taken>>
  OBVIOUS
<1> DEFINE Frame == UNCHANGED <<items, npush, taken>>
<1>1. ASSUME NEW p \in Producer, Push(p) PROVE Abstract!Next
  BY <1>1, PushRefines DEF Abstract!Next
<1>2. CASE PopItem
  BY <1>2, PopRefines DEF Abstract!Next
<1>3. ASSUME NEW p \in Producer, NotifyOne(p) PROVE Frame
  BY <1>3 DEF NotifyOne
<1>4. CASE PopClosed \/ PopPark \/ Wait \/ SpuriousWakeup \/ WriteStep
  BY <1>4 DEF PopClosed, PopPark, Wait, SpuriousWakeup, WriteStep, WriteOk, WriteErr
<1>5. CASE CloserStep
  BY <1>5 DEF CloserStep, CloseSet, CloseNotify, Join
<1>6. CASE UNCHANGED vars
  BY <1>6 DEF vars
<1> QED
  BY <1>1, <1>2, <1>3, <1>4, <1>5, <1>6 DEF Next, PopStep

\* The queue of queue.rs, its two mutexes, its condition variable, the writer
\* and the teardown included, implements the drop-oldest buffer of DropOldest
\* for every number of producers and every capacity.
THEOREM QueueImplementsDropOldest == Spec => ImplementsDropOldest
<1>1. Init => Abstract!Init
  BY DEF Init, Abstract!Init
<1>2. QInv /\ [Next]_vars => [Abstract!Next]_<<npush, Len(items), taken>>
  BY StepRefines
<1> QED
  BY <1>1, <1>2, QInvariant, PTL DEF Spec, ImplementsDropOldest, Abstract!Spec
=============================================================================
