----------------------------- MODULE Heartbeat -----------------------------
(***************************************************************************)
(* The heartbeat in time (discord.cpp 86-118, 208-211): ProcessHello and   *)
(* SendHeartbeatAndResetTimer between the other handlers of the io thread. *)
(*                                                                         *)
(* queue is the scheduler's op_queue_ with its task, "poll", among the     *)
(* handlers: the thread pops one after the other, and when it comes to the *)
(* task it looks for arrivals and expired timers, which go to the back     *)
(* with the task behind them (scheduler.ipp 34-55, 356-413).  With nothing *)
(* else to do it blocks there.                                             *)
(*                                                                         *)
(* A wait is the timer it belongs to and the time at which it expires; a   *)
(* timer is named by its HELLO and has one wait at most.  Time passes      *)
(* while the thread blocks, and while handlers run: at most MaxBusy from   *)
(* one poll to the next.  Module HeartbeatTimers adds asio's timer queue.  *)
(*                                                                         *)
(* Abstracted: all that the other handlers do; a read or a write that      *)
(* completes at once, which is one that the next poll finds.               *)
(***************************************************************************)
EXTENDS Integers, Sequences, FiniteSets

CONSTANTS Intervals,  \* heartbeat_interval of a HELLO
          Slack,      \* the 2000 ms by which a heartbeat is early
          MaxBusy,    \* the longest time from poll to poll while handlers run
          MaxHellos,  \* bound: HELLO frames of one connection
          MaxTime     \* bound: time

ASSUME TimeAssumption ==
  /\ Intervals \subseteq Nat
  /\ Slack \in Nat
  /\ MaxBusy \in Nat
  /\ MaxHellos \in Nat
  /\ MaxTime \in Nat

\* The handlers of a poll are done while there is time for a heartbeat.
ASSUME BusyAssumption == 3 * MaxBusy <= Slack

VARIABLES
  now,       \* the steady clock
  spent,     \* how much of it has passed since the last poll, in handlers
  queue,     \* op_queue_
  hellos,    \* HELLO frames handled: heartbeatTimer is the timer hellos
  interval,  \* heartbeatInterval
  waits,     \* the pending waits
  closed,    \* the close frame has been handled
  last,      \* history: when the last HELLO or heartbeat was
  beats,     \* history: the times of the last MaxHellos + 1 heartbeats
  shortest   \* history: the shortest interval so far

vars == <<now, spent, queue, hellos, interval, waits, closed, last, beats, shortest>>

\* "rearm" is the second half of a heartbeat, after the send.
Handlers == {"hello", "other", "close", "wait", "rearm", "aborted"}

TypeOK ==
  /\ now \in Nat
  /\ spent \in 0..MaxBusy
  /\ queue \in Seq(Handlers \cup {"poll"})
  /\ hellos \in Nat
  /\ interval \in Nat
  /\ waits \subseteq [timer : Nat, time : Int]
  /\ closed \in BOOLEAN
  /\ last \in 0..now
  /\ beats \in Seq(0..now)
  /\ shortest \in Nat

Init ==
  /\ now = 0
  /\ spent = 0
  /\ queue = <<"poll">>
  /\ hellos = 0
  /\ interval = 0
  /\ waits = {}
  /\ closed = FALSE
  /\ last = 0
  /\ beats = <<>>
  /\ shortest = 0

-----------------------------------------------------------------------------
Due == {w \in waits : w.time <= now}

\* What the socket may have for the thread.
Arrivals ==
  {<<>>} \cup (IF closed THEN {} ELSE {<<"other">>, <<"close">>})
         \cup (IF closed \/ hellos = MaxHellos THEN {} ELSE {<<"hello">>})

\* epoll_reactor::run, which blocks if the queue is empty, and task_cleanup.
Poll(arrived) ==
  /\ queue[1] = "poll"
  /\ Len(queue) > 1 \/ arrived /= <<>> \/ Due /= {}
  /\ queue' = Tail(queue) \o arrived \o [i \in 1..Cardinality(Due) |-> "wait"] \o <<"poll">>
  /\ waits' = waits \ Due
  /\ spent' = 0
  /\ UNCHANGED <<now, hellos, interval, closed, last, beats, shortest>>

Pass ==
  /\ now < MaxTime
  /\ now' = now + 1
  /\ \/ /\ queue = <<"poll">> /\ Due = {}
        /\ UNCHANGED spent
     \/ /\ queue[1] /= "poll"
        /\ spent < MaxBusy
        /\ spent' = spent + 1
  /\ UNCHANGED <<queue, hellos, interval, waits, closed, last, beats, shortest>>

-----------------------------------------------------------------------------
(* The handlers                                                            *)

Cancelled == {w \in waits : w.timer = hellos}

\* A wait that is cancelled is posted to the scheduler with an error.
Aborting == IF Cancelled = {} THEN <<>> ELSE <<"aborted">>

\* Mutant: the 2 s are taken off the interval itself.
HelloLess(i) ==
  /\ queue[1] = "hello"
  /\ queue' = Tail(queue)
  /\ hellos' = hellos + 1
  /\ interval' = i - Slack
  /\ waits' = waits \cup {[timer |-> hellos', time |-> now + interval']}
  /\ last' = now
  /\ shortest' = IF hellos = 0 \/ i < shortest THEN i ELSE shortest
  /\ UNCHANGED <<now, spent, closed, beats>>

\* ProcessHello with heartbeat_interval i: a new timer, whatever becomes of
\* the one before.
Hello(i) ==
  /\ queue[1] = "hello"
  /\ queue' = Tail(queue)
  /\ hellos' = hellos + 1
  /\ interval' = i
  /\ waits' = waits \cup {[timer |-> hellos', time |-> now + i - Slack]}
  /\ last' = now
  /\ shortest' = IF hellos = 0 \/ i < shortest THEN i ELSE shortest
  /\ UNCHANGED <<now, spent, closed, beats>>

Other ==
  /\ queue[1] = "other"
  /\ queue' = Tail(queue)
  /\ UNCHANGED <<now, spent, hellos, interval, waits, closed, last, beats, shortest>>

\* A wait that expired: the heartbeat goes out.
Beat ==
  /\ queue[1] = "wait"
  /\ queue' = <<"rearm">> \o Tail(queue)
  /\ last' = now
  /\ LET all == Append(beats, now)
     IN beats' = IF Len(all) > MaxHellos + 1 THEN Tail(all) ELSE all
  /\ UNCHANGED <<now, spent, hellos, interval, waits, closed, shortest>>

\* Mutant: the timer is set for the whole interval.
RearmLate ==
  /\ queue[1] = "rearm"
  /\ queue' = Tail(queue) \o Aborting
  /\ waits' = (waits \ Cancelled) \cup {[timer |-> hellos, time |-> now + interval]}
  /\ UNCHANGED <<now, spent, hellos, interval, closed, last, beats, shortest>>

\* And the current timer, which need not be the one that expired, is set
\* anew from now.
Rearm ==
  /\ queue[1] = "rearm"
  /\ queue' = Tail(queue) \o Aborting
  /\ waits' = (waits \ Cancelled) \cup {[timer |-> hellos, time |-> now + interval - Slack]}
  /\ UNCHANGED <<now, spent, hellos, interval, closed, last, beats, shortest>>

\* Mutant: the error is not looked at.
AbortedBeats ==
  /\ queue[1] = "aborted"
  /\ queue' = <<"rearm">> \o Tail(queue)
  /\ last' = now
  /\ LET all == Append(beats, now)
     IN beats' = IF Len(all) > MaxHellos + 1 THEN Tail(all) ELSE all
  /\ UNCHANGED <<now, spent, hellos, interval, waits, closed, shortest>>

\* A wait with an error: nothing.
Aborted ==
  /\ queue[1] = "aborted"
  /\ queue' = Tail(queue)
  /\ UNCHANGED <<now, spent, hellos, interval, waits, closed, last, beats, shortest>>

\* on_close cancels the current timer; before HELLO there is none, and the
\* process ends (module EventLoop).
Close ==
  /\ queue[1] = "close"
  /\ hellos > 0
  /\ queue' = Tail(queue) \o Aborting
  /\ waits' = waits \ Cancelled
  /\ closed' = TRUE
  /\ UNCHANGED <<now, spent, hellos, interval, last, beats, shortest>>

Next ==
  \/ \E arrived \in Arrivals : Poll(arrived)
  \/ Pass
  \/ \E i \in Intervals : Hello(i)
  \/ Other \/ Beat \/ Rearm \/ Aborted \/ Close

Spec == Init /\ [][Next]_vars

-----------------------------------------------------------------------------
(* "heartbeatInterval - 2000": from a HELLO or a heartbeat to the next     *)
(* heartbeat no more than the interval passes, though the timer is set     *)
(* after the send, is looked at once per poll, and its handler waits for   *)
(* those before it; as long as the handlers between two polls take no more *)
(* than a third of the 2 s, and the interval is at least 2 s.  A second    *)
(* HELLO, whatever its interval, does not break it (discord.cpp 86-96,     *)
(* 111-113).                                                               *)
HeartbeatInTime ==
  hellos > 0 /\ ~closed /\ interval >= Slack => now - last <= interval

(* The waits of timers that were leaked go on, but there is no more than   *)
(* one heartbeat for each HELLO in a time less than the shortest interval  *)
(* less 2 s.  With an interval of 2 s or less that is no limit at all, and *)
(* the code has no other (discord.cpp 93, 111-113).                        *)
HeartbeatsSpaced ==
  \A i \in DOMAIN beats :
    i + hellos \in DOMAIN beats => beats[i + hellos] - beats[i] >= shortest - Slack
=============================================================================
