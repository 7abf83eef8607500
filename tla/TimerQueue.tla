----------------------------- MODULE TimerQueue -----------------------------
(***************************************************************************)
(* asio's timer_queue (timer_queue.hpp): the heap of the timers that have  *)
(* a wait, ordered by time, in which every timer knows its own place.      *)
(*                                                                         *)
(* q.heap is heap_, here from 1; q.index[t] is heap_index_ of timer t, and *)
(* 0 for a timer that is not in the heap.  An operation on the heap leaves *)
(* one entry that may be out of order; sift says which and where it is on  *)
(* its way, "up" or "down", and each turn of the loops of up_heap and      *)
(* down_heap is a step.                                                    *)
(*                                                                         *)
(* The linked list of the timers has the members of the heap, and is left  *)
(* out; so are further waits of a timer, of which this program starts none.*)
(***************************************************************************)
EXTENDS Integers, Sequences

VARIABLES timers,  \* the timer queue
          sift     \* the entry that is on its way in it

EmptyQueue == [heap |-> <<>>, index |-> <<>>]

AtRest == [way |-> "none", at |-> 0]

Entries(q) == {q.heap[i] : i \in DOMAIN q.heap}

QueueInit == timers = EmptyQueue /\ sift = AtRest

\* Mutant: the timers are not told of their new places.
SwapHeapOnly(q, i, j) ==
  [q EXCEPT !.heap = [@ EXCEPT ![i] = q.heap[j], ![j] = q.heap[i]]]

SwapHeap(q, i, j) ==
  [heap |-> [q.heap EXCEPT ![i] = q.heap[j], ![j] = q.heap[i]],
   index |-> [q.index EXCEPT ![q.heap[i].timer] = j, ![q.heap[j].timer] = i]]

-----------------------------------------------------------------------------
(* The loops                                                               *)

MustRise(q, i) == i > 1 /\ q.heap[i].time < q.heap[i \div 2].time

\* The earlier child.
MinChild(q, i) ==
  IF 2 * i = Len(q.heap) \/ q.heap[2 * i].time < q.heap[2 * i + 1].time
  THEN 2 * i ELSE 2 * i + 1

MustSink(q, i) ==
  2 * i <= Len(q.heap) /\ ~(q.heap[i].time < q.heap[MinChild(q, i)].time)

MoveTo(j) ==
  /\ timers' = SwapHeap(timers, sift.at, j)
  /\ sift' = [sift EXCEPT !.at = j]

Rise ==
  /\ sift.way = "up" /\ MustRise(timers, sift.at)
  /\ MoveTo(sift.at \div 2)

Sink ==
  /\ sift.way = "down" /\ MustSink(timers, sift.at)
  /\ MoveTo(MinChild(timers, sift.at))

\* The loop has ended.
Settled ==
  /\ sift.way = "up" => ~MustRise(timers, sift.at)
  /\ sift.way = "down" => ~MustSink(timers, sift.at)

-----------------------------------------------------------------------------
(* The operations, up to their loops                                       *)

\* enqueue_timer, of a timer that has no wait.
EnqueueTimer(timer, time) ==
  LET place == Len(timers.heap) + 1
  IN /\ timers' = [heap |-> Append(timers.heap, [timer |-> timer, time |-> time]),
                   index |-> [t \in DOMAIN timers.index \cup {timer} |->
                                IF t = timer THEN place ELSE timers.index[t]]]
     /\ sift' = [way |-> "up", at |-> place]

\* The queue without its last entry, that of timer.
PopBack(q, timer) ==
  [heap |-> SubSeq(q.heap, 1, Len(q.heap) - 1), index |-> [q.index EXCEPT ![timer] = 0]]

\* The last entry takes the place of the one that goes.
RemoveTimer(timer) ==
  LET i == timers.index[timer]
      n == Len(timers.heap)
  IN IF i = n
     THEN timers' = PopBack(timers, timer) /\ sift' = AtRest
     ELSE /\ timers' = PopBack(SwapHeap(timers, i, n), timer)
          /\ sift' = [way |-> IF MustRise(timers', i) THEN "up" ELSE "down", at |-> i]

InHeap(timer) == timer \in DOMAIN timers.index /\ timers.index[timer] /= 0
=============================================================================
