--------------------------- MODULE HeartbeatTimers ---------------------------
(***************************************************************************)
(* Heartbeat on asio's timers: each of its steps with what it does to the  *)
(* timer queue of the io_service and to the timerfd that wakes the reactor *)
(* (epoll_reactor.ipp 446-565, epoll_reactor.hpp 39-67).                   *)
(*                                                                         *)
(* A step that works on the heap leaves job to be done, and the thread     *)
(* does nothing else until it is.                                          *)
(***************************************************************************)
EXTENDS Heartbeat, TimerQueue

VARIABLES job,     \* what the thread does in the timer queue
          alarm    \* when timer_fd_ becomes readable

queueVars == <<timers, sift>>
timerVars == <<vars, queueVars, job, alarm>>

\* An empty queue is looked at again after five minutes.
Never == MaxTime + 1

Earliest(q) == IF q.heap = <<>> THEN Never ELSE q.heap[1].time

TimedInit ==
  /\ Init
  /\ QueueInit
  /\ job = "idle"
  /\ alarm = Never

\* When the current timer is to expire next.
Expiry == now + interval - Slack

\* The timers are looked at only if the timerfd says so.
TimedPoll(arrived) ==
  /\ Poll(arrived)
  /\ job' = IF alarm <= now THEN "dequeue" ELSE "idle"
  /\ UNCHANGED <<queueVars, alarm>>

\* schedule_timer for a new timer.
TimedHello(i) ==
  /\ Hello(i)
  /\ EnqueueTimer(hellos', Expiry')
  /\ job' = "enqueue"
  /\ UNCHANGED alarm

\* expires_from_now cancels before the new wait is scheduled.
TimedRearm ==
  /\ Rearm
  /\ IF InHeap(hellos)
     THEN RemoveTimer(hellos) /\ job' = "cancel"
     ELSE EnqueueTimer(hellos, Expiry) /\ job' = "enqueue"
  /\ UNCHANGED alarm

TimedClose ==
  /\ Close
  /\ IF InHeap(hellos)
     THEN RemoveTimer(hellos) /\ job' = "close"
     ELSE UNCHANGED <<queueVars, job>>
  /\ UNCHANGED alarm

-----------------------------------------------------------------------------
(* Inside the timer queue, under the mutex of the reactor                  *)

Done == job' = "idle" /\ sift' = AtRest /\ UNCHANGED timers

\* get_ready_timers, and the timerfd is set for what is left.
Dequeue ==
  /\ job = "dequeue"
  /\ IF timers.heap /= <<>> /\ timers.heap[1].time <= now
     THEN RemoveTimer(timers.heap[1].timer) /\ UNCHANGED <<job, alarm>>
     ELSE Done /\ alarm' = Earliest(timers)

Reschedule ==
  /\ job = "cancel"
  /\ EnqueueTimer(hellos, Expiry)
  /\ job' = "enqueue"
  /\ UNCHANGED alarm

\* The timerfd is set anew if the wait is now the first.
Enqueued ==
  /\ job = "enqueue"
  /\ Done
  /\ alarm' = IF timers.index[hellos] = 1 THEN Earliest(timers) ELSE alarm

Unscheduled ==
  /\ job = "close"
  /\ Done
  /\ UNCHANGED alarm

Working ==
  \/ (Rise \/ Sink) /\ UNCHANGED <<job, alarm>>
  \/ Settled /\ (Dequeue \/ Reschedule \/ Enqueued \/ Unscheduled)

Handling ==
  \/ \E arrived \in Arrivals : TimedPoll(arrived)
  \/ \E i \in Intervals : TimedHello(i)
  \/ TimedRearm
  \/ TimedClose
  \/ (Pass \/ Other \/ Beat \/ Aborted) /\ UNCHANGED <<queueVars, job, alarm>>

TimedNext ==
  \/ job = "idle" /\ Handling
  \/ job /= "idle" /\ Working /\ UNCHANGED vars

TimedSpec == TimedInit /\ [][TimedNext]_timerVars

(* The timers in asio's heap are those that have a wait, each at the place *)
(* it believes to be at; none is earlier than its parent, so the root is   *)
(* the first to expire, and the timerfd goes off by then.  Timers that are *)
(* set anew, cancelled and dequeued out of order must leave it so when     *)
(* the thread goes on (timer_queue.hpp 66-112, 145-193, 218-294).          *)
HeapHoldsWaits ==
  job = "idle" =>
    /\ Entries(timers) = waits
    /\ Len(timers.heap) = Cardinality(waits)
    /\ \A i \in DOMAIN timers.heap : timers.index[timers.heap[i].timer] = i
    /\ \A i \in 2..Len(timers.heap) : timers.heap[i \div 2].time <= timers.heap[i].time
    /\ timers.heap /= <<>> => alarm <= timers.heap[1].time
=============================================================================
